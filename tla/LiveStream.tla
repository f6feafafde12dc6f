----------------------------- MODULE LiveStream -----------------------------
(***************************************************************************)
(* How the viewers of one live quiz follow it (lib/quiz/sessions.mjs,      *)
(* lib/realtime/broadcast.mjs and sse.mjs, app/components/LiveQuiz*.jsx).  *)
(*                                                                         *)
(* A transition of the session is committed first and published later, as  *)
(* a snapshot that is read in several queries.  Each server process hands  *)
(* a publication to the streams it holds and, through Redis, to the other  *)
(* processes.  A stream subscribes, then sends an opening snapshot.  The   *)
(* client merges whatever arrives and drops snapshots of an older revision.*)
(* Processes die, connections drop or are refused, reads fail and are only  *)
(* logged, publications and requests get lost.                             *)
(***************************************************************************)
EXTENDS Integers, FiniteSets, Sequences, Functions

CONSTANTS
    Host,        \* the hosts' requests that are processed at the same time
    Viewer,      \* the members who watch and play
    Process,     \* the server's processes
    NoProcess,   \* the process of what runs nowhere
    Questions,   \* how many questions the quiz has
    MaxWrites,   \* bound: how many transitions the hosts ask for
    MaxTrouble,  \* bound: how many crashes and losses there are
    Scenes       \* bound: who takes part, see Scene

ASSUME LiveAssumption ==
    /\ IsFiniteSet(Viewer)
    /\ NoProcess \notin Process
    /\ Questions \in Nat /\ MaxWrites \in Nat /\ MaxTrouble \in Nat
    /\ Scenes \subseteq [hosts : SUBSET Host, viewers : SUBSET Viewer,
                         players : SUBSET Viewer, processes : SUBSET Process,
                         writes : 0..MaxWrites, trouble : 0..MaxTrouble]

Question == 1..Questions
NoQuestion == 0
\* A revision is the updated_at of a session row, in milliseconds.
Rev == 0..MaxWrites
NoRev == -1

Status == {"pending", "active", "reveal", "ended"}
NoStatus == "none"      \* of a message that is no snapshot

VARIABLES
    scene,    \* who takes part, and how many transitions and faults there may be
    row,      \* the session's row: status, current question, revision
    answers,  \* the rows of quiz_answer: who answered what
    now,      \* the clock that stamps revisions
    host,     \* host[r]: where a host's request is, and the snapshot it reads
    post,     \* post[v]: where the answer is that v's client sent
    stream,   \* stream[v]: where v's event stream is, and its opening snapshot
    queue,    \* queue[v]: what v's stream has sent and v has not received
    wired,    \* wired[p]: process p listens to Redis
    relay,    \* relay[p]: what Redis has for process p
    view,     \* view[v]: what v's page shows
    lock,     \* lock[v]: the questions v's page takes to be answered
    writes,   \* how many transitions were asked for
    trouble,  \* how many faults there were
    past,     \* history: every committed row
    flags,    \* history: what has gone wrong with the session's writes
    missed,   \* history: streams that lost a snapshot and got no newest one since
    outdated, \* history: streams whose last message was lost or overtaken
    unheard   \* history: answers refused as late, and answers lost

db == <<scene, row, answers, now, past>>
pages == <<view, lock>>
wires == <<queue, relay, wired>>
history == <<flags, missed, outdated, unheard>>
vars == <<scene, row, answers, now, past, host, post, stream, queue, relay, wired,
          view, lock, writes, trouble, flags, missed, outdated, unheard>>

Row == [status : Status, q : Question \cup {NoQuestion}, rev : Rev]

\* A snapshot, or a tick that carries only a count.  key: the correct options
\* are in it; count: the answers to its question; board: those that score.
Message == [status : Status \cup {NoStatus}, q : Question \cup {NoQuestion},
            rev : Rev \cup {NoRev}, key : BOOLEAN, count : Nat, board : Nat]

Blank == [status |-> "pending", q |-> NoQuestion, rev |-> NoRev,
          key |-> FALSE, count |-> 0, board |-> 0]

HostPCs == {"idle", "next", "reveal", "end", "nextCommit", "revealCommit",
            "endCommit", "readRow", "readRest", "publish"}
HostRequest == [pc : HostPCs, at : Process \cup {NoProcess},
                q : Question \cup {NoQuestion}, rev : Rev, msg : Message]
HostIdle == [pc |-> "idle", at |-> NoProcess, q |-> NoQuestion, rev |-> 0, msg |-> Blank]

PostPCs == {"idle", "sent", "insert", "count", "publish"}
Post == [pc : PostPCs, at : Process \cup {NoProcess},
         q : Question \cup {NoQuestion}, n : Nat]
PostIdle == [pc |-> "idle", at |-> NoProcess, q |-> NoQuestion, n |-> 0]

\* "closed": the page has given up and does not connect again.
StreamPCs == {"off", "row", "rest", "send", "open", "closed"}
Stream == [pc : StreamPCs, at : Process \cup {NoProcess}, msg : Message]
StreamOff == [pc |-> "off", at |-> NoProcess, msg |-> Blank]

Init ==
    /\ scene \in Scenes
    /\ row = [status |-> "pending", q |-> NoQuestion, rev |-> 0]
    /\ answers = {}
    /\ now = 0
    /\ past = {row}
    /\ host = [r \in Host |-> HostIdle]
    /\ post = [v \in Viewer |-> PostIdle]
    /\ stream = [v \in Viewer |-> StreamOff]
    /\ queue = [v \in Viewer |-> <<>>]
    /\ relay = [p \in Process |-> <<>>]
    /\ wired = [p \in Process |-> FALSE]
    /\ view = [v \in Viewer |-> Blank]
    /\ lock = [v \in Viewer |-> {}]
    /\ writes = 0
    /\ trouble = 0
    /\ flags = {}
    /\ missed = {}
    /\ outdated = {}
    /\ unheard = {}

-----------------------------------------------------------------------------
(* Snapshots and how they travel *)

Answered(v, q) == <<v, q>> \in answers
CountOf(q) == Cardinality({v \in Viewer : Answered(v, q)})
Revealed(status) == status \in {"reveal", "ended"}

\* getSessionState: the session's row ...
RowRead == [Blank EXCEPT !.status = row.status, !.q = row.q, !.rev = row.rev]

\* Mutant: the correct options are in every snapshot.
RestReadForHost(m) ==
    [m EXCEPT !.key = m.q # NoQuestion, !.count = CountOf(m.q),
              !.board = IF Revealed(m.status) THEN Cardinality(answers) ELSE 0]

\* Mutant: the leaderboard belongs to a revealed question only.
RestReadNoFinal(m) ==
    [m EXCEPT !.key = Revealed(m.status) /\ m.q # NoQuestion, !.count = CountOf(m.q),
              !.board = IF m.status = "reveal" THEN Cardinality(answers) ELSE 0]

\* ... and then what belongs to it: the correct options and the leaderboard of a
\* revealed question, and the number of answers.
RestRead(m) ==
    [m EXCEPT !.key = Revealed(m.status) /\ m.q # NoQuestion,
              !.count = CountOf(m.q),
              !.board = IF Revealed(m.status) THEN Cardinality(answers) ELSE 0]

\* submitAnswer's progress tick.
Tick(q, n) == [Blank EXCEPT !.status = NoStatus, !.q = q, !.count = n]

\* Mutant: the newest arrival wins.
MergeAnything(shown, m) ==
    IF m.status = NoStatus THEN [shown EXCEPT !.count = m.count] ELSE m

\* Mutant: a snapshot must be newer than what is shown.
MergeNewer(shown, m) ==
    CASE m.status = NoStatus -> [shown EXCEPT !.count = m.count]
      [] m.status # NoStatus /\ m.rev <= shown.rev -> shown
      [] OTHER -> m

\* The page's reducer: a tick is merged, a snapshot of an older revision dropped.
Merge(shown, m) ==
    CASE m.status = NoStatus -> [shown EXCEPT !.count = m.count]
      [] m.status # NoStatus /\ m.rev < shown.rev -> shown
      [] OTHER -> m

\* Mutant: a stream is subscribed after its opening snapshot.
ListeningOpen(p) == {v \in Viewer : stream[v].at = p /\ stream[v].pc = "open"}

\* The streams that a process has subscribed.
Listening(p) == {v \in Viewer : stream[v].at = p}

\* The message says what holds as it is sent.
UpToDate(m) == m.count = CountOf(row.q) /\ (m.status # NoStatus => m.rev = row.rev)

\* A snapshot of the newest row.
Current(m) == m.status # NoStatus /\ m.rev = row.rev

\* m is sent to the streams vs and lost to the streams us.
Send(vs, us, m) ==
    /\ queue' = [v \in Viewer |-> IF v \in vs THEN Append(queue[v], m) ELSE queue[v]]
    /\ outdated' = us \cup IF UpToDate(m) THEN outdated \ vs ELSE outdated \cup vs
    /\ missed' = {u \in us : m.status # NoStatus}
                    \cup IF Current(m) THEN missed \ vs ELSE missed

\* m is lost to the streams us.
Lose(us, m) == Send({}, us, m)

\* The streams that are connected, whichever process holds them.
Connected == {v \in Viewer : stream[v].at \in Process}

\* The processes that hear of a publication of p through Redis.
Hearing(p) == {o \in Process \ {p} : wired[o]}

\* publish: to the listeners of this process, and through Redis to the others.
Publish(p, m) ==
    /\ Send(Listening(p), {v \in Connected : stream[v].at \notin {p} \cup Hearing(p)}, m)
    /\ relay' = [o \in Process |-> IF o \in Hearing(p) THEN Append(relay[o], m)
                                                       ELSE relay[o]]

-----------------------------------------------------------------------------
(* The host *)

HostAt(r, pc) == host[r].pc = pc
HostStep(r, pc) == host' = [host EXCEPT ![r].pc = pc]

\* A host's request is loaded and decided on.
Ask(r, p, pc, q) ==
    /\ HostAt(r, "idle")
    /\ r \in scene.hosts /\ p \in scene.processes /\ writes < scene.writes
    /\ writes' = writes + 1
    /\ host' = [host EXCEPT ![r] = [HostIdle EXCEPT !.pc = pc, !.at = p, !.q = q]]
    /\ UNCHANGED <<db, post, stream, wires, pages, trouble, history>>

\* nextQuestion: from the lobby or a revealed question to the one after it.  After
\* the last question it becomes an endSession that loads the session anew.
NextQuestion(r, p) ==
    /\ row.status \in {"pending", "reveal"}
    /\ row.q < Questions
    /\ Ask(r, p, "next", row.q + 1)

\* revealQuestion.
RevealQuestion(r, p) == row.status = "active" /\ Ask(r, p, "reveal", NoQuestion)

\* endSession.
EndSession(r, p) == row.status # "ended" /\ Ask(r, p, "end", NoQuestion)

\* The UPDATE is stamped with the clock before it reaches the database.
Stamp(r) ==
    /\ host[r].pc \in {"next", "reveal", "end"}
    /\ \E t \in {now, now + 1} \cap Rev :
         /\ now' = t
         /\ host' = [host EXCEPT ![r] =
                        [@ EXCEPT !.rev = t,
                                  !.pc = CASE host[r].pc = "next"   -> "nextCommit"
                                           [] host[r].pc = "reveal" -> "revealCommit"
                                           [] host[r].pc = "end"    -> "endCommit"]]
    /\ UNCHANGED <<scene, row, answers, past, post, stream, wires, pages, writes, trouble, history>>

\* Each transition writes its own columns.
Written(r) ==
    CASE HostAt(r, "nextCommit") ->
           [status |-> "active", q |-> host[r].q, rev |-> host[r].rev]
      [] HostAt(r, "revealCommit") ->
           [row EXCEPT !.status = "reveal", !.rev = host[r].rev]
      [] HostAt(r, "endCommit") ->
           [status |-> "ended", q |-> NoQuestion, rev |-> host[r].rev]

\* "collided": a revision is not later than the one before it.
\* "reopened": a question is opened once more.
Commit(r) ==
    /\ host[r].pc \in {"nextCommit", "revealCommit", "endCommit"}
    /\ row' = Written(r)
    /\ past' = past \cup {row'}
    /\ flags' = flags
         \cup {f \in {"collided"} : row'.rev <= row.rev}
         \cup {f \in {"reopened"} : /\ row'.status = "active"
                                    /\ \E old \in past : old.q = row'.q}
    /\ HostStep(r, "readRow")
    /\ UNCHANGED <<scene, answers, now, post, stream, wires, pages, writes, trouble,
                   missed, outdated, unheard>>

\* broadcastState, after the commit: the snapshot is read and published.
ReadRow(r) ==
    /\ HostAt(r, "readRow")
    /\ host' = [host EXCEPT ![r] = [@ EXCEPT !.pc = "readRest",
                                             !.msg = RowRead]]
    /\ UNCHANGED <<db, post, stream, wires, pages, writes, trouble, history>>

ReadRest(r) ==
    /\ HostAt(r, "readRest")
    /\ host' = [host EXCEPT ![r] = [@ EXCEPT !.pc = "publish",
                                             !.msg = RestRead(host[r].msg)]]
    /\ UNCHANGED <<db, post, stream, wires, pages, writes, trouble, history>>

PublishState(r) ==
    /\ HostAt(r, "publish")
    /\ Publish(host[r].at, host[r].msg)
    /\ host' = [host EXCEPT ![r] = HostIdle]
    /\ UNCHANGED <<db, post, stream, wired, pages, writes, trouble, flags, unheard>>

-----------------------------------------------------------------------------
(* The streams *)

\* Mutant: a page does not connect again.
ConnectOnce(v, p) ==
    /\ stream[v].pc = "off" /\ view[v] = Blank
    /\ v \in scene.viewers /\ p \in scene.processes
    /\ stream' = [stream EXCEPT ![v] = [StreamOff EXCEPT !.pc = "row", !.at = p]]
    /\ UNCHANGED <<db, host, post, wires, pages, writes, trouble, history>>

\* The page's EventSource connects, at first and again after every drop; the
\* stream is subscribed before the opening snapshot is read.
Connect(v, p) ==
    /\ stream[v].pc = "off"
    /\ v \in scene.viewers /\ p \in scene.processes
    /\ stream' = [stream EXCEPT ![v] = [StreamOff EXCEPT !.pc = "row", !.at = p]]
    /\ UNCHANGED <<db, host, post, wires, pages, writes, trouble, history>>

\* The route refuses the page: too many connections, signed out, no such session, a
\* read that fails.  An EventSource gives up on such an answer.
RefuseConnect(v) ==
    /\ stream[v].pc = "off" /\ v \in scene.viewers
    /\ stream' = [stream EXCEPT ![v].pc = "closed"]
    /\ UNCHANGED <<db, host, post, wires, pages, writes, trouble, history>>

\* onOpen: the snapshot is read ...
ReadOpeningRow(v) ==
    /\ stream[v].pc = "row"
    /\ stream' = [stream EXCEPT ![v] = [@ EXCEPT !.pc = "rest",
                                                 !.msg = RowRead]]
    /\ missed' = missed \ {v}
    /\ UNCHANGED <<db, host, post, wires, pages, writes, trouble, flags, outdated, unheard>>

ReadOpeningRest(v) ==
    /\ stream[v].pc = "rest"
    /\ stream' = [stream EXCEPT ![v] = [@ EXCEPT !.pc = "send",
                                                 !.msg = RestRead(stream[v].msg)]]
    /\ UNCHANGED <<db, host, post, wires, pages, writes, trouble, history>>

\* ... and sent, behind what was published in the meantime.
SendOpening(v) ==
    /\ stream[v].pc = "send"
    /\ Send({v}, {}, stream[v].msg)
    /\ stream' = [stream EXCEPT ![v] = [@ EXCEPT !.pc = "open", !.msg = Blank]]
    /\ UNCHANGED <<db, host, post, relay, wired, pages, writes, trouble, flags, unheard>>

\* ensureRedisWired: with the first subscription, but not waited for.
Wire(p) ==
    /\ ~wired[p]
    /\ Listening(p) # {}
    /\ wired' = [wired EXCEPT ![p] = TRUE]
    /\ UNCHANGED <<db, host, post, stream, queue, relay, pages, writes, trouble, history>>

\* A message of another process is handed to the listeners.
Receive(p) ==
    /\ relay[p] # <<>>
    /\ Send(Listening(p), {}, Head(relay[p]))
    /\ relay' = [relay EXCEPT ![p] = Tail(@)]
    /\ UNCHANGED <<db, host, post, stream, wired, pages, writes, trouble, flags, unheard>>

\* The page receives the next event.
Deliver(v) ==
    /\ queue[v] # <<>>
    /\ view' = [view EXCEPT ![v] = Merge(@, Head(queue[v]))]
    /\ queue' = [queue EXCEPT ![v] = Tail(@)]
    /\ UNCHANGED <<db, host, post, stream, relay, wired, lock, writes, trouble, history>>

-----------------------------------------------------------------------------
(* Answers *)

PostAt(v, pc) == post[v].pc = pc
PostStep(v, pc) == post' = [post EXCEPT ![v].pc = pc]

\* submit: the page takes the question to be answered before the server knows.
Submit(v) ==
    LET q == view[v].q
    IN  /\ PostAt(v, "idle") /\ v \in scene.players
        /\ view[v].status = "active"
        /\ q # NoQuestion /\ q \notin lock[v]
        /\ lock' = [lock EXCEPT ![v] = @ \cup {q}]
        /\ post' = [post EXCEPT ![v] = [PostIdle EXCEPT !.pc = "sent", !.q = q]]
        /\ UNCHANGED <<db, host, stream, wires, view, writes, trouble, history>>

\* submitAnswer: the question must be open and its window not over; an earlier
\* answer counts.
CheckAnswer(v, p) ==
    LET q == post[v].q
    IN  /\ PostAt(v, "sent") /\ p \in scene.processes
        /\ \/ /\ row.status = "active" /\ row.q = q
              /\ post' = [post EXCEPT ![v] = IF Answered(v, q) THEN PostIdle
                                             ELSE [@ EXCEPT !.pc = "insert", !.at = p]]
              /\ UNCHANGED unheard
           \/ /\ post' = [post EXCEPT ![v] = PostIdle]
              /\ unheard' = unheard \cup {<<"late", v, q>>}
        /\ UNCHANGED <<db, host, stream, wires, pages, writes, trouble,
                       flags, missed, outdated>>

\* What the page takes back when it hears of a failure.
TakenBack(v) == {post[v].q}

\* The request is refused for another reason, such as too many of them.
RefuseAnswer(v) ==
    /\ PostAt(v, "sent")
    /\ lock' = [lock EXCEPT ![v] = @ \ TakenBack(v)]
    /\ post' = [post EXCEPT ![v] = PostIdle]
    /\ UNCHANGED <<db, host, stream, wires, view, writes, trouble, history>>

\* "afterEnd": the session had ended by the time the answer was recorded.
InsertAnswer(v) ==
    /\ PostAt(v, "insert")
    /\ answers' = answers \cup {<<v, post[v].q>>}
    /\ flags' = flags \cup {f \in {"afterEnd"} : row.status = "ended"}
    /\ PostStep(v, "count")
    /\ UNCHANGED <<scene, row, now, past, host, stream, wires, pages, writes, trouble,
                   missed, outdated, unheard>>

CountAnswers(v) ==
    /\ PostAt(v, "count")
    /\ post' = [post EXCEPT ![v] = [@ EXCEPT !.pc = "publish",
                                             !.n = CountOf(post[v].q)]]
    /\ UNCHANGED <<db, host, stream, wires, pages, writes, trouble, history>>

PublishTick(v) ==
    /\ PostAt(v, "publish")
    /\ Publish(post[v].at, Tick(post[v].q, post[v].n))
    /\ post' = [post EXCEPT ![v] = PostIdle]
    /\ UNCHANGED <<db, host, stream, wired, pages, writes, trouble, flags, unheard>>

-----------------------------------------------------------------------------
(* Faults *)

Fault == trouble < scene.trouble /\ trouble' = trouble + 1

\* Process p has committed a transition, or an answer, that it has not published.
Unpublished(p) ==
    \E r \in Host : host[r].at = p /\ host[r].pc \in {"readRow", "readRest", "publish"}
Untold(p) == \E v \in Viewer : post[v].at = p /\ post[v].pc \in {"count", "publish"}

\* The connection of a page drops; what was under way on it is lost.
Drop(v) ==
    /\ Fault
    /\ v \in Connected
    /\ stream' = [stream EXCEPT ![v] = StreamOff]
    /\ queue' = [queue EXCEPT ![v] = <<>>]
    /\ UNCHANGED <<db, host, post, relay, wired, pages, writes, history>>

\* A process dies and is started again: its streams close, its requests are cut.
Crash(p) ==
    /\ Fault
    /\ host' = [r \in Host |-> IF host[r].at = p THEN HostIdle ELSE host[r]]
    /\ post' = [v \in Viewer |-> IF post[v].at = p THEN PostIdle ELSE post[v]]
    /\ stream' = [v \in Viewer |-> IF stream[v].at = p THEN StreamOff ELSE stream[v]]
    /\ queue' = [v \in Viewer |-> IF stream[v].at = p THEN <<>> ELSE queue[v]]
    /\ relay' = [relay EXCEPT ![p] = <<>>]
    /\ wired' = [wired EXCEPT ![p] = FALSE]
    /\ missed' = missed \cup {v \in Connected : Unpublished(p)}
    /\ outdated' = outdated \cup {v \in Connected : Unpublished(p) \/ Untold(p)}
    /\ unheard' = unheard \cup {<<"lost", v, post[v].q>> :
                                  v \in {w \in Viewer : PostAt(w, "insert") /\ post[w].at = p}}
    /\ UNCHANGED <<db, pages, writes, flags>>

\* broadcastState fails to read and only logs it, or the commit's answer is lost and
\* the request never comes to it.
FailBroadcast(r) ==
    /\ Fault
    /\ host[r].pc \in {"readRow", "readRest"}
    /\ Lose(Connected, Blank)
    /\ host' = [host EXCEPT ![r] = HostIdle]
    /\ UNCHANGED <<db, post, stream, relay, wired, pages, writes, flags, unheard>>

\* onOpen fails to read; the stream only logs it, and stays open.
FailOpening(v) ==
    /\ Fault
    /\ stream[v].pc \in {"row", "rest"}
    /\ Lose({v}, Blank)
    /\ stream' = [stream EXCEPT ![v] = [@ EXCEPT !.pc = "open", !.msg = Blank]]
    /\ UNCHANGED <<db, host, post, relay, wired, pages, writes, flags, unheard>>

\* The answers cannot be counted; submitAnswer only logs it.
FailTick(v) ==
    /\ Fault
    /\ PostAt(v, "count")
    /\ Lose(Connected, Tick(post[v].q, 0))
    /\ post' = [post EXCEPT ![v] = PostIdle]
    /\ UNCHANGED <<db, host, stream, relay, wired, pages, writes, flags, unheard>>

\* The answer of the INSERT is lost.  The retry finds the row and takes it for an earlier
\* answer, or gives up with an error and the page takes the question back: no tick.
LoseInsert(v) ==
    /\ Fault
    /\ PostAt(v, "insert")
    /\ Lose(Connected, Tick(post[v].q, 0))
    /\ answers' = answers \cup {<<v, post[v].q>>}
    /\ flags' = flags \cup {f \in {"afterEnd"} : row.status = "ended"}
    /\ lock' \in {lock, [lock EXCEPT ![v] = @ \ TakenBack(v)]}
    /\ post' = [post EXCEPT ![v] = PostIdle]
    /\ UNCHANGED <<scene, row, now, past, host, stream, relay, wired, view, writes, unheard>>

\* Redis loses what process p should hear of.
LoseRelay(p) ==
    /\ Fault
    /\ relay[p] # <<>>
    /\ Lose(Listening(p), Head(relay[p]))
    /\ relay' = [relay EXCEPT ![p] = Tail(@)]
    /\ UNCHANGED <<db, host, post, stream, wired, pages, writes, flags, unheard>>

\* The page's request, or the refusal of it, is lost: fetch rejects, and the page
\* reports an error but keeps the question locked.
LosePost(v) ==
    /\ Fault
    /\ PostAt(v, "sent")
    /\ post' = [post EXCEPT ![v] = PostIdle]
    /\ unheard' = unheard \cup {<<"lost", v, post[v].q>>}
    /\ UNCHANGED <<db, host, stream, wires, pages, writes, flags, missed, outdated>>

-----------------------------------------------------------------------------

HostAsks(r) ==
    \E p \in Process : NextQuestion(r, p) \/ RevealQuestion(r, p) \/ EndSession(r, p)

HostRuns(r) ==
    Stamp(r) \/ Commit(r) \/ ReadRow(r) \/ ReadRest(r) \/ PublishState(r)

StreamGoesOn(v) ==
    \/ \E p \in Process : Connect(v, p)
    \/ ReadOpeningRow(v)
    \/ ReadOpeningRest(v)
    \/ SendOpening(v)

StreamRuns(v) == StreamGoesOn(v) \/ RefuseConnect(v)

AnswerRuns(v) ==
    \/ \E p \in Process : CheckAnswer(v, p)
    \/ RefuseAnswer(v)
    \/ InsertAnswer(v)
    \/ CountAnswers(v)
    \/ PublishTick(v)

Trouble ==
    \/ \E v \in Viewer : \/ Drop(v) \/ FailOpening(v)
                       \/ FailTick(v) \/ LoseInsert(v) \/ LosePost(v)
    \/ \E p \in Process : Crash(p) \/ LoseRelay(p)
    \/ \E r \in Host : FailBroadcast(r)

Next ==
    \/ \E r \in Host : HostAsks(r) \/ HostRuns(r)
    \/ \E v \in Viewer : StreamRuns(v) \/ Submit(v) \/ AnswerRuns(v) \/ Deliver(v)
    \/ \E p \in Process : Wire(p) \/ Receive(p)
    \/ Trouble

Spec == Init /\ [][Next]_vars

\* The server goes on with what it has begun, the network delivers, and a page
\* that lost its stream connects again or is refused.  Nobody has to act, and nothing
\* has to listen to Redis.
Fairness ==
    /\ \A r \in Host : WF_vars(HostRuns(r))
    /\ \A v \in Viewer : WF_vars(StreamGoesOn(v)) /\ WF_vars(AnswerRuns(v)) /\ WF_vars(Deliver(v))
    /\ \A p \in Process : WF_vars(Receive(p))

FairSpec == Spec /\ Fairness
-----------------------------------------------------------------------------
(* Properties *)

\* Every table, request, message and page keeps its type.
TypeOK ==
    /\ scene \in Scenes
    /\ row \in Row /\ past \subseteq Row
    /\ answers \subseteq Viewer \X Question
    /\ now \in Rev
    /\ host \in [Host -> HostRequest]
    /\ post \in [Viewer -> Post]
    /\ stream \in [Viewer -> Stream]
    /\ queue \in [Viewer -> Seq(Message)]
    /\ relay \in [Process -> Seq(Message)]
    /\ wired \in [Process -> BOOLEAN]
    /\ view \in [Viewer -> Message]
    /\ lock \in [Viewer -> SUBSET Question]
    /\ writes \in 0..MaxWrites /\ trouble \in 0..MaxTrouble
    /\ flags \subseteq {"collided", "reopened", "afterEnd"}
    /\ missed \subseteq Viewer /\ outdated \subseteq Viewer
    /\ unheard \subseteq {"late", "lost"} \X Viewer \X Question

\* A page shows a state of the session that was committed, and the correct
\* options of a question only after a host revealed that question, although a
\* snapshot is put together from several reads of a session that goes on.
Committed(m) == \E old \in past : old.status = m.status /\ old.q = m.q /\ old.rev = m.rev
Disclosed(q) == \E old \in past : old.status = "reveal" /\ old.q = q
ShowsCommittedOnly ==
    \A v \in Viewer :
        /\ view[v].rev # NoRev => Committed(view[v])
        /\ view[v].key => Disclosed(view[v].q)

\* A page that has shown the correct options of a question does not show it
\* open for answers again, whatever is still on its way to it, unless a host
\* reopened a question or two revisions collided.
RevealStaysByRaceOnly ==
    [][ \A v \in Viewer :
          /\ view[v].key
          /\ view'[v].q = view[v].q /\ view'[v].status = "active"
          => flags' \cap {"collided", "reopened"} # {} ]_vars

\* Nothing is under way that could still change a page.
Quiet ==
    /\ \A r \in Host : HostAt(r, "idle")
    /\ \A v \in Viewer :
         /\ post[v].pc \notin {"insert", "count", "publish"}
         /\ stream[v].pc \in {"off", "open", "closed"}
         /\ queue[v] = <<>>
    /\ \A p \in Process : relay[p] = <<>>

Shows(v) == view[v].status = row.status /\ view[v].q = row.q
Excused(v) == v \in missed \/ "collided" \in flags

\* Once all is quiet, a connected page shows where the session is: drops and
\* crashes are made good by the opening snapshot, stale snapshots by the
\* revision, lost ones by the next.  Only a snapshot that was lost to its stream
\* with no newest one sent since, published or opening, or revisions that are not
\* monotonic, leave a page behind.
BehindByLossOnly ==
    Quiet => \A v \in Viewer : stream[v].pc = "open" => Shows(v) \/ Excused(v)

\* Once all is quiet, a page shows how many answered the question it shows,
\* unless its last message was lost, or overtaken by another (ticks carry no
\* revision), or revisions collided.
CountOffByLastMessageOnly ==
    Quiet => \A v \in Viewer :
        stream[v].pc = "open" /\ v \notin outdated /\ "collided" \notin flags
        => view[v].count = CountOf(row.q)

\* The final leaderboard that a page is left with scores every recorded answer,
\* unless one was recorded after the session had ended.
FinalBoardComplete ==
    Quiet /\ row.status = "ended" => \A v \in Viewer :
        stream[v].pc = "open" /\ ~Excused(v) /\ "afterEnd" \notin flags
        => view[v].board = Cardinality(answers)

\* A page that takes a question to be answered is right once it has heard from
\* the server, unless the answer came too late or got lost on the way: a lost
\* request is reported, but the question stays locked.
LockedByLossOnly ==
    \A v \in Viewer : \A q \in lock[v] :
        \/ Answered(v, q)
        \/ post[v].pc # "idle" /\ post[v].q = q
        \/ <<"late", v, q>> \in unheard
        \/ <<"lost", v, q>> \in unheard

\* Every page catches up with the session for good, as the hosts come to an end,
\* unless it was refused a connection and has given up.
EveryPageCatchesUp ==
    \A v \in Viewer : <>[](v \in scene.viewers => \/ Shows(v) \/ Excused(v)
                                                  \/ stream[v].pc = "closed")

-----------------------------------------------------------------------------
(* The inductive invariant *)

\* What runs, runs on a process, and what is answered is a question.
RunsSomewhere ==
    /\ \A v \in Viewer :
         /\ post[v].pc # "idle" => post[v].q \in Question
         /\ post[v].pc \in {"insert", "count", "publish"} => post[v].at \in Process
    /\ \A r \in Host : host[r].pc # "idle" => host[r].at \in Process
    /\ \A v \in Viewer : stream[v].pc \notin {"off", "closed"} <=> stream[v].at \in Process

\* The committed rows: an ended session shows no question, and without collisions
\* the newest row has the newest revision and nobody else has it.
PastInOrder ==
    /\ row \in past
    /\ \A old \in past : old.status = "ended" => old.q = NoQuestion
    /\ "collided" \notin flags =>
         \A old \in past : old.rev <= row.rev /\ (old.rev = row.rev => old = row)

\* Unless a question was reopened, it was open before it was revealed.
OpenBeforeReveal ==
    flags \cap {"collided", "reopened"} = {} =>
        \A open, shown \in past :
            /\ open.status = "active" /\ shown.status = "reveal"
            /\ open.q = shown.q /\ open.q # NoQuestion
            => open.rev < shown.rev

\* A snapshot is of a committed row, and keeps the secret of an open question.
Sound(m) ==
    /\ Committed(m) \/ (m.status \in {"pending", NoStatus} /\ m.rev = NoRev)
    /\ m.key => m.status = "reveal" /\ m.q # NoQuestion
SoundEverywhere ==
    /\ \A r \in Host : Sound(host[r].msg)
    /\ \A v \in Viewer : Sound(stream[v].msg) /\ Sound(view[v])
    /\ \A v \in Viewer : \A m \in Range(queue[v]) : Sound(m)
    /\ \A p \in Process : \A m \in Range(relay[p]) : Sound(m)
    /\ \A v \in Viewer : view[v].status # NoStatus

\* A snapshot of the newest row is on its way to v, or shown to it.
SomeCurrent(s) == \E m \in Range(s) : Current(m)
Owed(v) ==
    \/ Current(view[v])
    \/ SomeCurrent(queue[v])
    \/ stream[v].pc \in {"rest", "send"} /\ Current(stream[v].msg)
    \/ SomeCurrent(relay[stream[v].at])
    \/ \E r \in Host :
         \/ HostAt(r, "readRow")
         \/ host[r].pc \in {"readRest", "publish"} /\ Current(host[r].msg)
NobodyForgotten ==
    \A v \in Viewer : stream[v].pc \in {"rest", "send", "open"} => Owed(v) \/ Excused(v)

\* An answer that is counted is recorded; one that has not arrived runs nowhere.
AnswersRecorded ==
    \A v \in Viewer :
        /\ post[v].pc \in {"count", "publish"} => Answered(v, post[v].q)
        /\ post[v].pc \in {"idle", "sent"} => post[v].at = NoProcess

\* After the end, a snapshot of the last row scores every answer there is, unless
\* one was recorded after the end: where it has been read, on its way and shown.
Scored(m) == Current(m) => m.board = Cardinality(answers)
FinalScores ==
    row.status = "ended" /\ flags \cap {"collided", "afterEnd"} = {} =>
        /\ \A v \in Viewer :
             /\ Scored(view[v])
             /\ stream[v].pc = "send" => Scored(stream[v].msg)
             /\ \A m \in Range(queue[v]) : Scored(m)
        /\ \A r \in Host : HostAt(r, "publish") => Scored(host[r].msg)
        /\ \A p \in Process : \A m \in Range(relay[p]) : Scored(m)

\* Something is under way that v's stream will be sent.
PendingFor(v) ==
    \/ relay[stream[v].at] # <<>>
    \/ \E r \in Host : host[r].pc \in {"readRow", "readRest", "publish"}
    \/ \E w \in Viewer : post[w].pc \in {"count", "publish"}

\* The last that v's page will hear of is the number of answers there are, and
\* nothing that comes before it makes the page drop it.
Settled(v) ==
    IF queue[v] = <<>> THEN view[v].count = CountOf(row.q)
    ELSE LET last == queue[v][Len(queue[v])]
         IN  /\ last.count = CountOf(row.q)
             /\ last.status # NoStatus =>
                  /\ view[v].rev <= last.rev
                  /\ \A m \in Range(queue[v]) : m.rev <= last.rev

CountsFollow ==
    \A v \in Viewer :
        stream[v].pc = "open" /\ v \notin outdated /\ "collided" \notin flags
        => PendingFor(v) \/ Settled(v)

\* What keeps the pages on the session's track.
StreamInv ==
    /\ TypeOK
    /\ RunsSomewhere
    /\ PastInOrder
    /\ OpenBeforeReveal
    /\ SoundEverywhere
    /\ NobodyForgotten
    /\ AnswersRecorded
    /\ LockedByLossOnly

\* Together with the types, what every step keeps.
IInv == StreamInv /\ FinalScores /\ CountsFollow
=============================================================================
