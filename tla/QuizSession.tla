---------------------------- MODULE QuizSession ----------------------------
(***************************************************************************)
(* Live quizzes of ONE event: the host's session, the question bank and    *)
(* the members' answers (lib/quiz/sessions.mjs, questions.mjs, answers.mjs *)
(* over PostgreSQL).                                                       *)
(*                                                                         *)
(* A request reads and decides first and writes later, with one UPDATE,    *)
(* INSERT or DELETE by primary key; other requests run in between.  The    *)
(* unique indexes and foreign keys check every write again.                *)
(***************************************************************************)
EXTENDS Integers, FiniteSets

CONSTANTS
    Req,           \* the requests the server processes at the same time
    HostReq,       \* those of them that may be a host's
    Member,        \* the members who play
    Nobody,        \* the member of a host's request
    MaxSessions,   \* bound: how many sessions are ever opened
    MaxQuestions,  \* bound: how many questions are ever created
    InitBank,      \* how many of them there are at the start
    Limits,        \* bound: the limits of an answer's time, grace included, in ticks
    Positions,     \* bound: the sort orders that a host enters
    MaxTime,       \* bound: when the clock stops
    Ops            \* the operations a run exercises

\* "edit": a question's text, options, points and limit; "editOrder": its sort order.
AllOps == {"create", "next", "reveal", "end", "answer",
           "addQuestion", "edit", "editOrder", "delete", "reorder"}

ASSUME ConstantsAssumption ==
    /\ HostReq \subseteq Req
    /\ Nobody \notin Member
    /\ MaxSessions \in Nat /\ MaxQuestions \in Nat
    /\ InitBank \in 0..MaxQuestions
    /\ MaxTime \in Nat /\ Limits \subseteq Nat /\ Positions \subseteq Int
    /\ Ops \subseteq AllOps

Session == 1..MaxSessions
Question == 1..MaxQuestions     \* numbered in the order of creation
Time == 0..MaxTime
NoQuestion == 0
Never == -1

\* The statuses of a session ("none": not opened yet), and QUIZ_TRANSITIONS.
Status == {"none", "pending", "active", "reveal", "ended"}

QuizTransitions ==
    [none |-> {"pending"}, pending |-> {"active", "ended"},
     active |-> {"reveal", "ended"}, reveal |-> {"active", "ended"}, ended |-> {}]

CanTransition(from, to) == to \in QuizTransitions[from]

VARIABLES
    sess,     \* sess[s]: the row of session s
    bank,     \* the questions of the event
    created,  \* how many questions were ever created
    sort,     \* sort[q]: the sort order of question q
    limit,    \* limit[q]: how long q may be answered
    answers,  \* the rows of quiz_answer
    now,      \* the server's clock
    req,      \* req[r]: where request r is and what it has read so far
    openings  \* history: when which question was opened

vars == <<sess, bank, created, sort, limit, answers, now, req, openings>>

SessionRow == [status : Status, current : Question \cup {NoQuestion},
               openedAt : Time \cup {Never}]

\* limit, closed: history, see ScoreAnswer.
Answer == [session : Session, question : Question, member : Member,
           at : Time, limit : Nat, closed : BOOLEAN]

Opening == [session : Session, question : Question, at : Time, limit : Nat]

PCs == {"idle", "insertSession", "pick", "open", "reveal", "endLoad", "end",
        "score", "record", "insertQuestion", "edit", "count", "delete", "reorder"}

Request == [pc : PCs, s : Session \cup {0}, seen : Status,
            q : Question \cup {NoQuestion},
            member : Member \cup {Nobody}, openedAt : Time \cup {Never},
            at : Time, limit : Nat, closed : BOOLEAN, pos : Int,
            order : [Question -> 0..MaxQuestions]]

Idle == [pc |-> "idle", s |-> 0, seen |-> "none", q |-> NoQuestion, member |-> Nobody,
         openedAt |-> Never, at |-> 0, limit |-> 0, closed |-> FALSE, pos |-> 0,
         order |-> [q \in Question |-> 0]]

Init ==
    /\ sess = [s \in Session |->
                 [status |-> "none", current |-> NoQuestion, openedAt |-> Never]]
    /\ bank = 1..InitBank
    /\ created = InitBank
    /\ sort = [q \in Question |-> q - 1]
    /\ limit \in [Question -> Limits]
    /\ answers = {}
    /\ now = 0
    /\ req = [r \in Req |-> Idle]
    /\ openings = {}

-----------------------------------------------------------------------------
(* Helpers *)

At(r, pc) == req[r].pc = pc
Begin(r, values) == req' = [req EXCEPT ![r] = values]
Done(r) == req' = [req EXCEPT ![r] = Idle]

Live(s) == sess[s].status \in {"pending", "active", "reveal"}

\* The order of the bank: by sort order, then by creation.
Before(p, q) == sort[p] < sort[q] \/ (sort[p] = sort[q] /\ p < q)

\* Mutant: the current question counts as one after itself.
AfterOrSame(c) == IF c \in bank THEN {p \in bank : ~Before(p, c)} ELSE bank

\* The questions after c.  A question that is not in the bank has index -1 in
\* the code, so that everything comes after it.
After(c) == IF c \in bank THEN {p \in bank : Before(c, p)} ELSE bank

\* Mutant: no such index.
AnySession(s) == s \in Session

\* quiz_session_one_live_uq: session s may be written with a live status.
IndexAllows(s) == \A t \in Session \ {s} : ~Live(t)

\* The current question of a session that runs.
LiveCurrent(q) == \E s \in Session : Live(s) /\ sess[s].current = q

\* Question q is open in session s since t.
OpenAt(s, q, t) == sess[s] = [status |-> "active", current |-> q, openedAt |-> t]

\* quiz_answer_session_question_user_uq.
Answered(s, q, m) ==
    \E a \in answers : a.session = s /\ a.question = q /\ a.member = m

-----------------------------------------------------------------------------
(* The host's session *)

\* createSession: a running session is returned, and a bank is required.
CreateSession(r) ==
    /\ "create" \in Ops
    /\ \A s \in Session : ~Live(s)
    /\ bank # {}
    /\ Begin(r, [Idle EXCEPT !.pc = "insertSession"])
    /\ UNCHANGED <<sess, bank, created, sort, limit, answers, now, openings>>

InsertSession(r) ==
    /\ At(r, "insertSession")
    /\ IF \E s \in Session : sess[s].status = "none" /\ IndexAllows(s)
       THEN \E s \in Session :
              /\ sess[s].status = "none"
              /\ \A t \in 1..(s - 1) : sess[t].status # "none"
              /\ sess' = [sess EXCEPT ![s].status = "pending"]
       ELSE UNCHANGED sess
    /\ Done(r)
    /\ UNCHANGED <<bank, created, sort, limit, answers, now, openings>>

\* nextQuestion: only from the lobby or a revealed question.
NextQuestion(r, s) ==
    /\ "next" \in Ops
    /\ sess[s].status # "active"
    /\ CanTransition(sess[s].status, "active")
    /\ Begin(r, [Idle EXCEPT !.pc = "pick", !.s = s, !.seen = sess[s].status,
                             !.q = sess[s].current])
    /\ UNCHANGED <<sess, bank, created, sort, limit, answers, now, openings>>

\* The question after the current one, and the time it opens; after the last
\* question the session ends.
PickNext(r) ==
    LET rest == After(req[r].q)
    IN  /\ At(r, "pick")
        /\ \/ /\ rest = {}
              /\ req' = [req EXCEPT ![r].pc = "endLoad"]
           \/ \E next \in rest :
                /\ \A p \in rest \ {next} : Before(next, p)
                /\ req' = [req EXCEPT ![r] = [@ EXCEPT !.pc = "open",
                                                       !.q = next,
                                                       !.at = now]]
        /\ UNCHANGED <<sess, bank, created, sort, limit, answers, now, openings>>

OpenQuestion(r) ==
    LET s == req[r].s
        q == req[r].q
    IN  /\ At(r, "open")
        /\ IF q \in bank /\ (Live(s) \/ IndexAllows(s))
           THEN /\ sess' = [sess EXCEPT ![s] =
                              [status |-> "active", current |-> q, openedAt |-> req[r].at]]
                /\ openings' = openings \cup
                     {[session |-> s, question |-> q, at |-> req[r].at,
                       limit |-> limit[q]]}
           ELSE UNCHANGED <<sess, openings>>
        /\ Done(r)
        /\ UNCHANGED <<bank, created, sort, limit, answers, now>>

\* Mutant: any session is revealed.
RevealAnySession(r, s) ==
    /\ "reveal" \in Ops
    /\ sess[s].status # "none"
    /\ Begin(r, [Idle EXCEPT !.pc = "reveal", !.s = s, !.seen = sess[s].status])
    /\ UNCHANGED <<sess, bank, created, sort, limit, answers, now, openings>>

\* revealQuestion: only the question that is open.
RevealQuestion(r, s) ==
    /\ "reveal" \in Ops
    /\ CanTransition(sess[s].status, "reveal")
    /\ Begin(r, [Idle EXCEPT !.pc = "reveal", !.s = s, !.seen = sess[s].status])
    /\ UNCHANGED <<sess, bank, created, sort, limit, answers, now, openings>>

WriteReveal(r) ==
    LET s == req[r].s
    IN  /\ At(r, "reveal")
        /\ IF Live(s) \/ IndexAllows(s)
           THEN sess' = [sess EXCEPT ![s].status = "reveal"]
           ELSE UNCHANGED sess
        /\ Done(r)
        /\ UNCHANGED <<bank, created, sort, limit, answers, now, openings>>

\* endSession: nothing to do once the session has ended.
EndSession(r, s) ==
    /\ "end" \in Ops
    /\ Live(s)
    /\ Begin(r, [Idle EXCEPT !.pc = "end", !.s = s, !.seen = sess[s].status])
    /\ UNCHANGED <<sess, bank, created, sort, limit, answers, now, openings>>

\* endSession, called by nextQuestion.
LoadEnd(r) ==
    /\ At(r, "endLoad")
    /\ IF Live(req[r].s)
       THEN req' = [req EXCEPT ![r] = [@ EXCEPT !.pc = "end",
                                                !.seen = sess[req[r].s].status]]
       ELSE Done(r)
    /\ UNCHANGED <<sess, bank, created, sort, limit, answers, now, openings>>

WriteEnd(r) ==
    /\ At(r, "end")
    /\ sess' = [sess EXCEPT ![req[r].s] = [@ EXCEPT !.status = "ended",
                                                    !.current = NoQuestion]]
    /\ Done(r)
    /\ UNCHANGED <<bank, created, sort, limit, answers, now, openings>>

-----------------------------------------------------------------------------
(* Answers *)

\* submitAnswer: the question must be the one the session has open.
SubmitAnswer(r, m, s, q) ==
    /\ "answer" \in Ops
    /\ sess[s].status = "active"
    /\ sess[s].current = q
    /\ Begin(r, [Idle EXCEPT !.pc = "score", !.s = s, !.q = q, !.member = m,
                             !.openedAt = sess[s].openedAt])
    /\ UNCHANGED <<sess, bank, created, sort, limit, answers, now, openings>>

\* The question is read, an earlier answer looked up, and the time taken and held
\* against the limit the question has by now.  closed: the session has moved on.
ScoreAnswer(r) ==
    LET s == req[r].s
        q == req[r].q
    IN  /\ At(r, "score")
        /\ IF /\ q \in bank
              /\ ~Answered(s, q, req[r].member)
              /\ now - req[r].openedAt <= limit[q]
           THEN req' = [req EXCEPT ![r] = [@ EXCEPT !.pc = "record",
                                                    !.limit = limit[q],
                                                    !.closed = ~OpenAt(s, q, req[r].openedAt),
                                                    !.at = now]]
           ELSE Done(r)
        /\ UNCHANGED <<sess, bank, created, sort, limit, answers, now, openings>>

\* The unique index turns a second answer into "already answered"; the foreign
\* key rejects an answer to a deleted question.
RecordAnswer(r) ==
    LET s == req[r].s
        q == req[r].q
        m == req[r].member
    IN  /\ At(r, "record")
        /\ answers' =
             IF q \in bank /\ ~Answered(s, q, m)
             THEN answers \cup {[session |-> s, question |-> q, member |-> m,
                                 at |-> req[r].at, limit |-> req[r].limit,
                                 closed |-> req[r].closed]}
             ELSE answers
        /\ Done(r)
        /\ UNCHANGED <<sess, bank, created, sort, limit, now, openings>>

-----------------------------------------------------------------------------
(* The question bank *)

\* createQuestion: at the end of the bank, as it was read, or where the host says.
\* limit already has the limit that the question comes with.
CreateQuestion(r) ==
    LET last == {q \in bank : \A p \in bank : sort[p] <= sort[q]}
        atEnd == IF bank = {} THEN {0} ELSE {sort[q] + 1 : q \in last}
    IN  /\ "addQuestion" \in Ops
        /\ \E pos \in Positions \cup atEnd :
              Begin(r, [Idle EXCEPT !.pc = "insertQuestion", !.pos = pos])
        /\ UNCHANGED <<sess, bank, created, sort, limit, answers, now, openings>>

InsertQuestion(r) ==
    /\ At(r, "insertQuestion")
    /\ IF created < MaxQuestions
       THEN /\ created' = created + 1
            /\ bank' = bank \cup {created + 1}
            /\ sort' = [sort EXCEPT ![created + 1] = req[r].pos]
       ELSE UNCHANGED <<created, bank, sort>>
    /\ Done(r)
    /\ UNCHANGED <<sess, limit, answers, now, openings>>

\* Mutant: the current question of a running session is edited.
EditAnyQuestion(r, q) ==
    /\ "edit" \in Ops
    /\ q \in bank
    /\ Begin(r, [Idle EXCEPT !.pc = "edit", !.q = q])
    /\ UNCHANGED <<sess, bank, created, sort, limit, answers, now, openings>>

\* editQuestion: refused for the current question of a running session.
EditQuestion(r, q) ==
    /\ "edit" \in Ops
    /\ q \in bank
    /\ ~LiveCurrent(q)
    /\ Begin(r, [Idle EXCEPT !.pc = "edit", !.q = q])
    /\ UNCHANGED <<sess, bank, created, sort, limit, answers, now, openings>>

\* What the patch does not name stays; a sort order in it reorders the bank.
WriteEdit(r) ==
    LET q == req[r].q
        Orders == {sort[q]} \cup IF "editOrder" \in Ops THEN Positions ELSE {}
    IN  /\ At(r, "edit")
        /\ IF q \in bank
           THEN \E order \in Orders, ticks \in Limits :
                  /\ sort' = [sort EXCEPT ![q] = order]
                  /\ limit' = [limit EXCEPT ![q] = ticks]
           ELSE UNCHANGED <<sort, limit>>
        /\ Done(r)
        /\ UNCHANGED <<sess, bank, created, answers, now, openings>>

\* deleteQuestion: refused for the current question of a running session ...
DeleteQuestion(r, q) ==
    /\ "delete" \in Ops
    /\ q \in bank
    /\ ~LiveCurrent(q)
    /\ Begin(r, [Idle EXCEPT !.pc = "count", !.q = q])
    /\ UNCHANGED <<sess, bank, created, sort, limit, answers, now, openings>>

\* ... and once it has answers.
CountAnswers(r) ==
    /\ At(r, "count")
    /\ IF \E a \in answers : a.question = req[r].q
       THEN Done(r)
       ELSE req' = [req EXCEPT ![r].pc = "delete"]
    /\ UNCHANGED <<sess, bank, created, sort, limit, answers, now, openings>>

\* The foreign keys delete its answers and clear the pointers to it.
WriteDelete(r) ==
    LET q == req[r].q
    IN  /\ At(r, "delete")
        /\ bank' = bank \ {q}
        /\ answers' = {a \in answers : a.question # q}
        /\ sess' = [s \in Session |-> IF sess[s].current = q
                                      THEN [sess[s] EXCEPT !.current = NoQuestion]
                                      ELSE sess[s]]
        /\ Done(r)
        /\ UNCHANGED <<created, sort, limit, now, openings>>

\* reorderQuestions: the host's order of the questions there were.
ReorderQuestions(r) ==
    /\ "reorder" \in Ops
    /\ \E order \in [Question -> 0..MaxQuestions] :
         /\ \A q \in Question \ bank : order[q] = MaxQuestions
         /\ {order[q] : q \in bank} = 0..(Cardinality(bank) - 1)
         /\ Begin(r, [Idle EXCEPT !.pc = "reorder", !.order = order])
    /\ UNCHANGED <<sess, bank, created, sort, limit, answers, now, openings>>

\* One transaction; it fails when a question is gone.
WriteReorder(r) ==
    LET order == req[r].order
        named == {q \in Question : order[q] < MaxQuestions}
    IN  /\ At(r, "reorder")
        /\ IF named \subseteq bank
           THEN sort' = [q \in Question |-> IF q \in named THEN order[q] ELSE sort[q]]
           ELSE UNCHANGED sort
        /\ Done(r)
        /\ UNCHANGED <<sess, bank, created, limit, answers, now, openings>>

-----------------------------------------------------------------------------

\* A request of a host or of a member reaches the server.
Arrive(r) ==
    /\ At(r, "idle")
    /\ \/ \E m \in Member, s \in Session, q \in Question : SubmitAnswer(r, m, s, q)
       \/ /\ r \in HostReq
          /\ \/ CreateSession(r)
             \/ \E s \in Session :
                  NextQuestion(r, s) \/ RevealQuestion(r, s) \/ EndSession(r, s)
             \/ CreateQuestion(r)
             \/ \E q \in Question : EditQuestion(r, q) \/ DeleteQuestion(r, q)
             \/ ReorderQuestions(r)

\* The next statement of a request in progress.
Step(r) ==
    \/ InsertSession(r)
    \/ PickNext(r)
    \/ OpenQuestion(r)
    \/ WriteReveal(r)
    \/ LoadEnd(r)
    \/ WriteEnd(r)
    \/ ScoreAnswer(r)
    \/ RecordAnswer(r)
    \/ InsertQuestion(r)
    \/ WriteEdit(r)
    \/ CountAnswers(r)
    \/ WriteDelete(r)
    \/ WriteReorder(r)

Tick ==
    /\ now < MaxTime
    /\ now' = now + 1
    /\ UNCHANGED <<sess, bank, created, sort, limit, answers, req, openings>>

Next == Tick \/ \E r \in Req : Arrive(r) \/ Step(r)

Spec == Init /\ [][Next]_vars

-----------------------------------------------------------------------------
(* Properties *)

\* The rows keep their types: a bank of created questions with sort orders,
\* answers and openings of sessions and questions that exist.
TypeOK ==
    /\ sess \in [Session -> SessionRow]
    /\ bank \subseteq 1..created
    /\ created \in 0..MaxQuestions
    /\ sort \in [Question -> Int]
    /\ limit \in [Question -> Limits]
    /\ answers \subseteq Answer
    /\ now \in Time
    /\ req \in [Req -> Request]
    /\ openings \subseteq Opening

\* An event never runs two sessions, although createSession looks for one
\* before its transaction, and a stale write may bring an ended one back.
OneLiveSession == \A s, t \in Session : Live(s) /\ Live(t) => s = t

\* A member has one answer to a question of a session, however often it is
\* submitted and however the submissions interleave.
OneAnswer ==
    \A a, b \in answers :
        a.session = b.session /\ a.question = b.question /\ a.member = b.member
        => a = b

\* Every answer in the table was timed from an opening of its question in its
\* session and within the limit that the question was opened with, although a host
\* may edit the limit: an edit never moves the window of a question while it is
\* open.  An answer that is scored after its question was closed, and only such a
\* one, may be held against a limit edited since.
TimedFrom(a, o) ==
    /\ o.session = a.session
    /\ o.question = a.question
    /\ a.at - o.at \in 0..a.limit

AnsweredInAWindow ==
    \A a \in answers : \E o \in openings :
        TimedFrom(a, o) /\ (a.closed \/ a.limit = o.limit)

\* A status that does not follow is written by a request that decided on another.
LawfulOrOvertaken ==
    \A s \in Session :
      /\ sess'[s].status # sess[s].status
      /\ ~CanTransition(sess[s].status, sess'[s].status)
      => \E r \in Req : /\ req[r].pc # "idle" /\ req'[r].pc = "idle"
                        /\ req[r].s = s /\ req[r].seen # sess[s].status

\* A session moves as QUIZ_TRANSITIONS says, never backwards, never skipping, and
\* never again once it has ended, unless the request that writes has decided on
\* a status another request has changed since.
FollowsTransitionsByRaceOnly == [][LawfulOrOvertaken]_vars

\* A question is opened once in a session, so that its clock starts once and
\* its answers are given before they are revealed.
NeverAskedTwice ==
    [][ \A o \in openings' \ openings :
          \A p \in openings : p.session = o.session => p.question # o.question ]_vars

-----------------------------------------------------------------------------
(* The inductive invariant *)

\* A request that is past its first read works on a session that it found.
FoundSession ==
    \A r \in Req :
        req[r].pc \in {"pick", "open", "reveal", "endLoad", "end", "score", "record"}
        => req[r].s \in Session

\* What a request is about to write follows from the status it has seen.
Decided ==
    \A r \in Req :
        /\ req[r].pc \in {"pick", "open"} => CanTransition(req[r].seen, "active")
        /\ At(r, "reveal") => CanTransition(req[r].seen, "reveal")
        /\ At(r, "end") => CanTransition(req[r].seen, "ended")

\* No question opens in the future.
StampedBefore ==
    /\ \A o \in openings : o.at <= now
    /\ \A r \in Req : At(r, "open") => req[r].at <= now

\* Question q was opened in session s at t.
OpenedAt(o, s, q, t) == o.session = s /\ o.question = q /\ o.at = t

ActiveWasOpened ==
    \A s \in Session :
        sess[s].status = "active" /\ sess[s].current # NoQuestion
        => \E o \in openings : OpenedAt(o, s, sess[s].current, sess[s].openedAt)

\* An answer in progress measures its time from an opening of its question, and
\* so was every answer in the table.
AnswersAnOpening ==
    \A r \in Req : req[r].pc \in {"score", "record"} =>
        /\ req[r].member \in Member
        /\ \E o \in openings : OpenedAt(o, req[r].s, req[r].q, req[r].openedAt)
        /\ At(r, "record") => req[r].at - req[r].openedAt \in 0..req[r].limit

AnsweredInTime == \A a \in answers : \E o \in openings : TimedFrom(a, o)

\* Together with the types and the two indexes, what every step keeps:
\* a request carries facts about rows it does not hold.
IInv ==
    /\ TypeOK
    /\ FoundSession
    /\ Decided
    /\ OneLiveSession
    /\ OneAnswer
    /\ StampedBefore
    /\ ActiveWasOpened
    /\ AnswersAnOpening
    /\ AnsweredInTime

-----------------------------------------------------------------------------
(* With one host at a time *)

\* A member's request does nothing but answer, a question that is about to be edited
\* is not open, and one that is open has the limit that it was opened with.  So has
\* an answer that was scored while it was open.
LimitHeld ==
    /\ \A r \in Req \ HostReq : req[r].pc \in {"idle", "score", "record"}
    /\ \A r \in Req : At(r, "edit") => ~LiveCurrent(req[r].q)
    /\ \A s \in Session :
         sess[s].status = "active" /\ sess[s].current # NoQuestion
         => \E o \in openings : /\ OpenedAt(o, s, sess[s].current, sess[s].openedAt)
                               /\ o.limit = limit[sess[s].current]
    /\ \A r \in Req :
         At(r, "record") /\ ~req[r].closed
         => \E o \in openings : /\ OpenedAt(o, req[r].s, req[r].q, req[r].openedAt)
                               /\ o.limit = req[r].limit
    /\ AnsweredInAWindow

-----------------------------------------------------------------------------
(* With one host at a time, who never reorders the bank, by an edit neither *)

\* A session has asked what comes before its current question, and nothing
\* before it begins.  A new question is not one of those asked.
AskedInOrder ==
    \A o \in openings :
        /\ o.question <= created
        /\ sess[o.session].status \notin {"none", "pending"}
        /\ sess[o.session].status # "ended" =>
             /\ sess[o.session].current \in bank
             /\ o.question \in bank \ {sess[o.session].current}
                => Before(o.question, sess[o.session].current)

\* What the host's request has read is still so, and a member's request does
\* nothing but answer.
HostReads(r) ==
    /\ r \in HostReq \/ req[r].pc \in {"idle", "score", "record"}
    /\ ~At(r, "reorder")
    /\ req[r].pc \in {"pick", "open", "reveal"} => sess[req[r].s].status = req[r].seen
    /\ At(r, "pick") => req[r].q = sess[req[r].s].current
    /\ At(r, "open") =>
         \A o \in openings : o.session = req[r].s /\ o.question \in bank
                             => Before(o.question, req[r].q)
    /\ req[r].pc \in {"count", "delete"} => ~LiveCurrent(req[r].q)

OneHostInv == AskedInOrder /\ \A r \in Req : HostReads(r)
=============================================================================
