-------------------------- MODULE LiveStreamProofs --------------------------
(***************************************************************************)
(* Proofs about LiveStream, for every number of hosts, viewers, processes  *)
(* and questions, and any number of transitions and faults.                *)
(***************************************************************************)
EXTENDS LiveStream, FiniteSetTheorems, SequenceTheorems, TLAPS

-----------------------------------------------------------------------------
(* Sequences of messages *)

\* A publication adds one message to what is on its way.
LEMMA RangeAppend ==
    ASSUME NEW s \in Seq(Message), NEW m \in Message
    PROVE  Append(s, m) \in Seq(Message) /\ Range(Append(s, m)) = Range(s) \cup {m}
<1>1. /\ Append(s, m) \in Seq(Message) /\ Len(s) \in Nat
      /\ Len(Append(s, m)) = Len(s) + 1
      /\ \A i \in 1..Len(s) : Append(s, m)[i] = s[i]
      /\ Append(s, m)[Len(s) + 1] = m
  OBVIOUS
<1>2. Range(Append(s, m)) = {Append(s, m)[i] : i \in 1..(Len(s) + 1)}
  BY <1>1 DEF Range
<1>3. Range(s) = {s[i] : i \in 1..Len(s)}
  BY DEF Range
<1>4. 1..(Len(s) + 1) = 1..Len(s) \cup {Len(s) + 1}
  BY <1>1
<1> QED
  BY <1>1, <1>2, <1>3, <1>4

\* A delivery takes one message from it.
LEMMA RangeTail ==
    ASSUME NEW s \in Seq(Message), s # <<>>
    PROVE  /\ Head(s) \in Message /\ Tail(s) \in Seq(Message)
           /\ Range(s) = {Head(s)} \cup Range(Tail(s))
<1>1. /\ Head(s) \in Message /\ Tail(s) \in Seq(Message)
      /\ Len(s) \in Nat \ {0} /\ Len(Tail(s)) = Len(s) - 1
      /\ Head(s) = s[1]
      /\ \A i \in 1..(Len(s) - 1) : Tail(s)[i] = s[i + 1]
  BY EmptySeq, HeadTailProperties
<1>2. Range(Tail(s)) = {s[i + 1] : i \in 1..(Len(s) - 1)}
  <2>1. DOMAIN Tail(s) = 1..(Len(s) - 1)
    BY <1>1, LenProperties
  <2>2. Range(Tail(s)) = {Tail(s)[i] : i \in 1..(Len(s) - 1)}
    BY <2>1 DEF Range
  <2> QED
    BY <1>1, <2>2
<1>3. Range(s) = {s[i] : i \in 1..Len(s)}
  BY DEF Range
<1>4. ASSUME NEW i \in 1..Len(s), i # 1
      PROVE  \E j \in 1..(Len(s) - 1) : s[i] = s[j + 1]
  <2>1. i - 1 \in 1..(Len(s) - 1) /\ (i - 1) + 1 = i
    BY <1>1, <1>4
  <2> QED
    BY <2>1
<1>5. 1 \in 1..Len(s) /\ \A j \in 1..(Len(s) - 1) : j + 1 \in 1..Len(s)
  BY <1>1
<1>6. ASSUME NEW m \in Range(s)
      PROVE  m \in {Head(s)} \cup Range(Tail(s))
  <2>1. PICK i \in 1..Len(s) : m = s[i]
    BY <1>3, <1>6
  <2>2. CASE i = 1
    BY <1>1, <2>1, <2>2
  <2>3. CASE i # 1
    BY <1>2, <1>4, <2>1, <2>3
  <2> QED
    BY <2>2, <2>3
<1>7. Head(s) \in Range(s)
  BY <1>1, <1>3, <1>5
<1>8. Range(Tail(s)) \subseteq Range(s)
  BY <1>2, <1>3, <1>5
<1> QED
  BY <1>1, <1>6, <1>7, <1>8

\* What is in a sequence of messages is one.
LEMMA RangeIn == \A s \in Seq(Message) : Range(s) \subseteq Message
  BY DEF Range

LEMMA RangeEmpty == <<>> \in Seq(Message) /\ Range(<<>>) = {}
  BY DEF Range

-----------------------------------------------------------------------------
(* Types *)

LEMMA BlankType ==
    /\ Blank \in Message /\ Blank.status # NoStatus /\ Blank.rev = NoRev /\ Blank.key = FALSE
    /\ Blank.status = "pending"
  BY DEF Blank, Message, Status, NoStatus, NoRev, NoQuestion

LEMMA CountType ==
    ASSUME TypeOK
    PROVE  /\ \A q : CountOf(q) \in Nat
           /\ Cardinality(answers) \in Nat
<1>1. IsFiniteSet(Viewer) /\ IsFiniteSet(Question)
  BY LiveAssumption, FS_Interval DEF Question
<1>2. ASSUME NEW q PROVE CountOf(q) \in Nat
  <2>1. {v \in Viewer : Answered(v, q)} \subseteq Viewer
    OBVIOUS
  <2>2. IsFiniteSet({v \in Viewer : Answered(v, q)})
    BY <1>1, <2>1, FS_Subset
  <2> QED
    BY <2>2, FS_CardinalityType DEF CountOf
<1>3. IsFiniteSet(Viewer \X Question)
  BY <1>1, FS_Product
<1>4. IsFiniteSet(answers)
  BY <1>3, FS_Subset DEF TypeOK
<1> QED
  BY <1>2, <1>4, FS_CardinalityType

\* What a snapshot is when its row, and when the rest of it, has been read.
LEMMA RowReadType ==
    ASSUME TypeOK
    PROVE  /\ RowRead \in Message /\ RowRead.status = row.status /\ RowRead.q = row.q
           /\ RowRead.rev = row.rev /\ RowRead.key = FALSE
  BY DEF TypeOK, RowRead, Blank, Message, Row, NoQuestion

LEMMA RestReadType ==
    ASSUME TypeOK, NEW m \in Message
    PROVE  /\ RestRead(m) \in Message /\ RestRead(m).status = m.status
           /\ RestRead(m).q = m.q /\ RestRead(m).rev = m.rev
           /\ RestRead(m).key <=> Revealed(m.status) /\ m.q # NoQuestion
<1>1. CountOf(m.q) \in Nat /\ Cardinality(answers) \in Nat
  BY CountType
<1>2. (Revealed(m.status) /\ m.q # NoQuestion) \in BOOLEAN
  OBVIOUS
<1> QED
  BY <1>1, <1>2 DEF RestRead, Message, Revealed

LEMMA TickType ==
    ASSUME NEW q \in Question, NEW n \in Nat
    PROVE  Tick(q, n) \in Message /\ Tick(q, n).status = NoStatus /\ Tick(q, n).key = FALSE
  BY DEF Tick, Blank, Message, NoStatus, NoRev, NoQuestion

LEMMA MergeType ==
    ASSUME NEW s \in Message, NEW m \in Message
    PROVE  /\ Merge(s, m) \in Message
           /\ m.status = NoStatus =>
                /\ Merge(s, m).status = s.status /\ Merge(s, m).q = s.q
                /\ Merge(s, m).rev = s.rev /\ Merge(s, m).key = s.key
                /\ Merge(s, m).board = s.board /\ Merge(s, m).count = m.count
           /\ m.status # NoStatus =>
                IF m.rev < s.rev THEN Merge(s, m) = s ELSE Merge(s, m) = m
<1>1. CASE m.status = NoStatus
  BY <1>1 DEF Merge, Message
<1>2. CASE m.status # NoStatus /\ m.rev < s.rev
  BY <1>2 DEF Merge
<1>3. CASE m.status # NoStatus /\ ~(m.rev < s.rev)
  BY <1>3 DEF Merge
<1> QED
  BY <1>1, <1>2, <1>3

LEMMA IdleTypes ==
    /\ HostIdle \in HostRequest /\ HostIdle.pc = "idle" /\ HostIdle.msg = Blank
    /\ HostIdle.at = NoProcess
    /\ PostIdle \in Post
    /\ StreamOff \in Stream /\ StreamOff.pc = "off" /\ StreamOff.msg = Blank
    /\ StreamOff.at = NoProcess
  BY BlankType, LiveAssumption
  DEF HostIdle, HostRequest, HostPCs, PostIdle, Post, PostPCs, StreamOff, Stream,
      StreamPCs, NoQuestion, Rev

\* What a publication does to the queues and to Redis.
LEMMA SendType ==
    ASSUME TypeOK, NEW vs, NEW us, NEW m \in Message, Send(vs, us, m)
    PROVE  /\ queue' \in [Viewer -> Seq(Message)]
           /\ us \subseteq Viewer => missed' \subseteq Viewer
           /\ us \subseteq Viewer /\ vs \subseteq Viewer => outdated' \subseteq Viewer
           /\ \A v \in Viewer :
                Range(queue'[v]) = IF v \in vs THEN Range(queue[v]) \cup {m}
                                               ELSE Range(queue[v])
<1>1. \A v \in Viewer : queue[v] \in Seq(Message)
  BY DEF TypeOK
<1>2. \A v \in Viewer : /\ Append(queue[v], m) \in Seq(Message)
                        /\ Range(Append(queue[v], m)) = Range(queue[v]) \cup {m}
  BY <1>1, RangeAppend
<1>3. queue' = [v \in Viewer |-> IF v \in vs THEN Append(queue[v], m) ELSE queue[v]]
  BY DEF Send
<1>4. /\ us \subseteq Viewer => missed' \subseteq Viewer
      /\ us \subseteq Viewer /\ vs \subseteq Viewer => outdated' \subseteq Viewer
  BY DEF Send, TypeOK
<1> QED
  BY <1>1, <1>2, <1>3, <1>4

\* A loss leaves what is on its way alone, and is remembered.
LEMMA LoseType ==
    ASSUME TypeOK, NEW us \in SUBSET Viewer, NEW m, Lose(us, m)
    PROVE  /\ queue' = queue /\ missed' \subseteq Viewer /\ outdated' \subseteq Viewer
           /\ missed \subseteq missed' /\ outdated \subseteq outdated'
           /\ us \subseteq outdated' /\ (m.status # NoStatus => us \subseteq missed')
<1>1. queue' = [v \in Viewer |-> queue[v]]
  BY DEF Lose, Send
<1>2. queue' = queue
  BY <1>1 DEF TypeOK
<1> QED
  BY <1>2 DEF Lose, Send, TypeOK

\* A stream misses no snapshot anymore only if it is sent the newest one.
LEMMA SendMisses ==
    ASSUME TypeOK, NEW vs, NEW us, NEW m \in Message, Send(vs, us, m),
           NEW v \in Viewer, v \notin missed'
    PROVE  /\ v \in missed => Current(m) /\ m \in Range(queue'[v])
           /\ v \in us => m.status = NoStatus
<1>1. v \in missed => v \in vs /\ Current(m)
  BY DEF Send
<1>2. v \in us => m.status = NoStatus
  BY DEF Send
<1>3. v \in vs => m \in Range(queue'[v])
  <2>1. Range(queue'[v]) = IF v \in vs THEN Range(queue[v]) \cup {m} ELSE Range(queue[v])
    BY SendType
  <2> QED
    BY <2>1
<1> QED
  BY <1>1, <1>2, <1>3

LEMMA ConnectedType == Connected \subseteq Viewer /\ \A p : Listening(p) \subseteq Viewer
  BY DEF Connected, Listening

LEMMA PublishType ==
    ASSUME TypeOK, NEW p \in Process, NEW m \in Message, Publish(p, m)
    PROVE  /\ queue' \in [Viewer -> Seq(Message)] /\ outdated' \subseteq Viewer
           /\ \A v \in Viewer :
                Range(queue'[v]) = IF stream[v].at = p THEN Range(queue[v]) \cup {m}
                                                       ELSE Range(queue[v])
           /\ relay' \in [Process -> Seq(Message)] /\ missed' \subseteq Viewer
           /\ \A o \in Process :
                Range(relay'[o]) = IF o # p /\ wired[o] THEN Range(relay[o]) \cup {m}
                                                        ELSE Range(relay[o])
           /\ \A v \in Viewer :
                stream[v].at \in Process /\ stream[v].at # p /\ ~wired[stream[v].at]
                => v \in outdated' /\ (m.status # NoStatus => v \in missed')
<1> DEFINE unreached == {v \in Connected : stream[v].at \notin {p} \cup Hearing(p)}
<1>1. \A o \in Process : relay[o] \in Seq(Message)
  BY DEF TypeOK
<1>2. \A o \in Process : /\ Append(relay[o], m) \in Seq(Message)
                         /\ Range(Append(relay[o], m)) = Range(relay[o]) \cup {m}
  BY <1>1, RangeAppend
<1>3. relay' = [o \in Process |-> IF o \in Hearing(p) THEN Append(relay[o], m)
                                                     ELSE relay[o]]
  BY DEF Publish
<1>4. \A o \in Process : o \in Hearing(p) <=> o # p /\ wired[o]
  BY DEF Hearing
<1>5. Send(Listening(p), unreached, m)
  BY DEF Publish
<1>6. /\ Listening(p) \subseteq Viewer /\ unreached \subseteq Viewer
      /\ \A v \in Viewer : v \in Listening(p) <=> stream[v].at = p
  BY DEF Listening, Connected
<1>a. \A v \in Viewer :
        stream[v].at \in Process /\ stream[v].at # p /\ ~wired[stream[v].at] => v \in unreached
  BY <1>4 DEF Connected
<1> HIDE DEF unreached
<1>7. /\ queue' \in [Viewer -> Seq(Message)] /\ outdated' \subseteq Viewer
      /\ \A v \in Viewer :
                Range(queue'[v]) = IF stream[v].at = p THEN Range(queue[v]) \cup {m}
                                                       ELSE Range(queue[v])
  BY <1>5, <1>6, SendType
<1>8. /\ missed' \subseteq Viewer
      /\ \A v \in Viewer :
            stream[v].at \in Process /\ stream[v].at # p /\ ~wired[stream[v].at]
            => v \in outdated' /\ (m.status # NoStatus => v \in missed')
  <2>1. missed' \subseteq Viewer
    BY <1>5, <1>6, SendType
  <2>2. unreached \subseteq outdated' /\ (m.status # NoStatus => unreached \subseteq missed')
    BY <1>5 DEF Send
  <2> QED
    BY <1>a, <2>1, <2>2
<1>9. /\ relay' \in [Process -> Seq(Message)]
      /\ \A o \in Process :
                Range(relay'[o]) = IF o # p /\ wired[o] THEN Range(relay[o]) \cup {m}
                                                        ELSE Range(relay[o])
  BY <1>1, <1>2, <1>3, <1>4
<1> QED
  BY <1>7, <1>8, <1>9

\* Nothing that is on its way gets lost as something else is sent or published,
\* and an open stream either gets what is published or misses it.
LEMMA SendKeeps ==
    ASSUME TypeOK, NEW vs, NEW us, NEW m \in Message, Send(vs, us, m), NEW v \in Viewer
    PROVE  /\ \A x \in Range(queue[v]) : x \in Range(queue'[v])
           /\ v \in vs => m \in Range(queue'[v])
<1>1. CASE v \in vs
  <2>1. Range(queue'[v]) = Range(queue[v]) \cup {m}
    BY <1>1, SendType
  <2> QED
    BY <2>1
<1>2. CASE v \notin vs
  <2>1. Range(queue'[v]) = Range(queue[v])
    BY <1>2, SendType
  <2> QED
    BY <1>2, <2>1
<1> QED
  BY <1>1, <1>2

LEMMA PublishKeeps ==
    ASSUME TypeOK, NEW p \in Process, NEW m \in Message, Publish(p, m),
           NEW v \in Viewer, stream[v].at \in Process
    PROVE  /\ \A x \in Range(queue[v]) : x \in Range(queue'[v])
           /\ \A x \in Range(relay[stream[v].at]) : x \in Range(relay'[stream[v].at])
           /\ \/ m \in Range(queue'[v])
              \/ m \in Range(relay'[stream[v].at])
              \/ v \in missed' \/ m.status = NoStatus
<1>1. CASE stream[v].at = p
  <2>1. /\ Range(queue'[v]) = Range(queue[v]) \cup {m}
        /\ Range(relay'[stream[v].at]) = Range(relay[stream[v].at])
    BY <1>1, PublishType
  <2> QED
    BY <2>1
<1>2. CASE stream[v].at # p /\ wired[stream[v].at]
  <2>1. /\ Range(queue'[v]) = Range(queue[v])
        /\ Range(relay'[stream[v].at]) = Range(relay[stream[v].at]) \cup {m}
    BY <1>2, PublishType
  <2> QED
    BY <2>1
<1>3. CASE stream[v].at # p /\ ~wired[stream[v].at]
  <2>1. /\ Range(queue'[v]) = Range(queue[v])
        /\ Range(relay'[stream[v].at]) = Range(relay[stream[v].at])
        /\ v \in missed' \/ m.status = NoStatus
    BY <1>3, PublishType
  <2> QED
    BY <2>1
<1> QED
  BY <1>1, <1>2, <1>3

LEMMA Initially == Init => TypeOK
<1> SUFFICES ASSUME Init PROVE TypeOK
  OBVIOUS
<1>1. row \in Row /\ past \subseteq Row /\ now \in Rev /\ scene \in Scenes
  BY LiveAssumption DEF Init, Row, Rev, Status, NoQuestion
<1>2. /\ host \in [Host -> HostRequest] /\ post \in [Viewer -> Post]
      /\ stream \in [Viewer -> Stream] /\ view \in [Viewer -> Message]
  BY IdleTypes, BlankType DEF Init
<1>3. queue \in [Viewer -> Seq(Message)] /\ relay \in [Process -> Seq(Message)]
  BY RangeEmpty DEF Init
<1> QED
  BY <1>1, <1>2, <1>3, LiveAssumption DEF Init, TypeOK

LEMMA TypeNext == TypeOK /\ RunsSomewhere /\ [Next]_vars => TypeOK'
<1> SUFFICES ASSUME TypeOK, RunsSomewhere, [Next]_vars PROVE TypeOK'
  OBVIOUS
<1> USE DEF db, pages, wires, history
<1>1. ASSUME NEW r \in Host, HostAsks(r)
      PROVE  TypeOK'
  <2>1. ASSUME NEW o \in Process, NEW pc \in HostPCs,
               NEW q \in Question \cup {NoQuestion}, Ask(r, o, pc, q)
        PROVE  TypeOK'
    <3>1. [HostIdle EXCEPT !.pc = pc, !.at = o, !.q = q] \in HostRequest
      BY IdleTypes DEF HostRequest
    <3>2. host' \in [Host -> HostRequest]
      BY <2>1, <3>1 DEF Ask, TypeOK
    <3>3. writes' \in 0..MaxWrites
      <4>1. scene.writes \in 0..MaxWrites
        BY LiveAssumption DEF TypeOK
      <4> QED
        BY <2>1, <4>1, LiveAssumption DEF Ask, TypeOK
    <3> QED
      BY <2>1, <3>2, <3>3 DEF Ask, TypeOK
  <2>2. ASSUME NEW o \in Process, NextQuestion(r, o)
        PROVE  TypeOK'
    <3>1. row.q + 1 \in Question /\ "next" \in HostPCs
      BY <2>2, LiveAssumption DEF NextQuestion, TypeOK, Row, Question, NoQuestion, HostPCs
    <3> QED
      BY <2>1, <2>2, <3>1 DEF NextQuestion
  <2>3. ASSUME NEW o \in Process, RevealQuestion(r, o) \/ EndSession(r, o)
        PROVE  TypeOK'
    BY <2>1, <2>3 DEF RevealQuestion, EndSession, HostPCs
  <2> QED
    BY <1>1, <2>2, <2>3 DEF HostAsks
<1>2. ASSUME NEW r \in Host, Stamp(r)
      PROVE  TypeOK'
  <2>1. PICK t \in {now, now + 1} \cap Rev :
          /\ now' = t
          /\ host' = [host EXCEPT ![r] =
                         [@ EXCEPT !.rev = t,
                                   !.pc = CASE host[r].pc = "next"   -> "nextCommit"
                                            [] host[r].pc = "reveal" -> "revealCommit"
                                            [] host[r].pc = "end"    -> "endCommit"]]
    BY <1>2 DEF Stamp
  <2>2. host[r].pc \in {"next", "reveal", "end"} /\ host[r] \in HostRequest
    BY <1>2 DEF Stamp, TypeOK
  <2>3. host'[r] \in HostRequest
    BY <2>1, <2>2 DEF HostRequest, HostPCs, TypeOK
  <2>4. host' \in [Host -> HostRequest]
    BY <2>1, <2>3 DEF TypeOK
  <2> QED
    BY <1>2, <2>1, <2>4 DEF Stamp, TypeOK
<1>3. ASSUME NEW r \in Host, Commit(r)
      PROVE  TypeOK'
  <2>1. host[r] \in HostRequest /\ host[r].pc \in {"nextCommit", "revealCommit", "endCommit"}
    BY <1>3 DEF Commit, TypeOK
  <2>2. row' \in Row
    <3>1. CASE host[r].pc = "nextCommit"
      BY <1>3, <2>1, <3>1 DEF Commit, Written, HostAt, Row, HostRequest, Status
    <3>2. CASE host[r].pc = "revealCommit"
      BY <1>3, <2>1, <3>2 DEF Commit, Written, HostAt, Row, HostRequest, Status, TypeOK
    <3>3. CASE host[r].pc = "endCommit"
      BY <1>3, <2>1, <3>3 DEF Commit, Written, HostAt, Row, HostRequest, Status
    <3> QED
      BY <2>1, <3>1, <3>2, <3>3
  <2>3. host' \in [Host -> HostRequest]
    BY <1>3, <2>1 DEF Commit, HostStep, HostRequest, HostPCs, TypeOK
  <2>4. flags' \subseteq {"collided", "reopened", "afterEnd"}
    BY <1>3 DEF Commit, TypeOK
  <2>5. past' \subseteq Row
    BY <1>3, <2>2 DEF Commit, TypeOK
  <2> QED
    BY <1>3, <2>2, <2>3, <2>4, <2>5 DEF Commit, TypeOK
<1>4. ASSUME NEW r \in Host, ReadRow(r)
      PROVE  TypeOK'
  <2>1. host[r] \in HostRequest /\ RowRead \in Message
    BY RowReadType DEF TypeOK
  <2>2. host' = [host EXCEPT ![r] = [@ EXCEPT !.pc = "readRest",
                                              !.msg = RowRead]]
    BY <1>4 DEF ReadRow
  <2>3. host' \in [Host -> HostRequest]
    BY <2>1, <2>2 DEF HostRequest, HostPCs, TypeOK
  <2> QED
    BY <1>4, <2>3 DEF ReadRow, TypeOK
<1>5. ASSUME NEW r \in Host, ReadRest(r)
      PROVE  TypeOK'
  <2>1. host[r] \in HostRequest /\ host[r].msg \in Message
    BY DEF TypeOK, HostRequest
  <2>2. RestRead(host[r].msg) \in Message
    BY <2>1, RestReadType
  <2> DEFINE then == [host[r] EXCEPT !.pc = "publish", !.msg = RestRead(host[r].msg)]
  <2>3. host' = [host EXCEPT ![r] = then]
    BY <1>5 DEF ReadRest, TypeOK
  <2>4. then \in HostRequest
    BY <2>1, <2>2 DEF HostRequest, HostPCs
  <2> HIDE DEF then
  <2>5. host' \in [Host -> HostRequest]
    BY <2>3, <2>4 DEF TypeOK
  <2> QED
    BY <1>5, <2>5 DEF ReadRest, TypeOK
<1>6. ASSUME NEW r \in Host, PublishState(r)
      PROVE  TypeOK'
  <2>1. host[r].at \in Process /\ host[r].msg \in Message
    BY <1>6 DEF PublishState, RunsSomewhere, HostAt, TypeOK, HostRequest
  <2>2. /\ queue' \in [Viewer -> Seq(Message)] /\ outdated' \subseteq Viewer
        /\ relay' \in [Process -> Seq(Message)] /\ missed' \subseteq Viewer
    BY <1>6, <2>1, PublishType DEF PublishState
  <2>3. host' \in [Host -> HostRequest]
    BY <1>6, IdleTypes DEF PublishState, TypeOK
  <2> QED
    BY <1>6, <2>2, <2>3 DEF PublishState, TypeOK
<1>7. ASSUME NEW v \in Viewer, NEW p \in Process, Connect(v, p)
      PROVE  TypeOK'
  <2>1. [StreamOff EXCEPT !.pc = "row", !.at = p] \in Stream
    BY IdleTypes DEF Stream, StreamPCs
  <2>2. stream' \in [Viewer -> Stream]
    BY <1>7, <2>1 DEF Connect, TypeOK
  <2> QED
    BY <1>7, <2>2 DEF Connect, TypeOK
<1>22. ASSUME NEW v \in Viewer, RefuseConnect(v)
       PROVE  TypeOK'
  <2>0. [stream[v] EXCEPT !.pc = "closed"] \in Stream
    BY DEF Stream, StreamPCs, TypeOK
  <2>1. stream' \in [Viewer -> Stream]
    BY <1>22, <2>0 DEF RefuseConnect, TypeOK
  <2> QED
    BY <1>22, <2>1 DEF RefuseConnect, TypeOK
<1>8. ASSUME NEW v \in Viewer, ReadOpeningRow(v)
      PROVE  TypeOK'
  <2>1. stream[v] \in Stream /\ RowRead \in Message
    BY RowReadType DEF TypeOK
  <2>2. stream' = [stream EXCEPT ![v] = [@ EXCEPT !.pc = "rest",
                                                  !.msg = RowRead]]
    BY <1>8 DEF ReadOpeningRow
  <2>3. stream' \in [Viewer -> Stream]
    BY <2>1, <2>2 DEF Stream, StreamPCs, TypeOK
  <2> QED
    BY <1>8, <2>3 DEF ReadOpeningRow, TypeOK
<1>9. ASSUME NEW v \in Viewer, ReadOpeningRest(v)
      PROVE  TypeOK'
  <2>1. stream[v] \in Stream /\ stream[v].msg \in Message
    BY DEF TypeOK, Stream
  <2>2. RestRead(stream[v].msg) \in Message
    BY <2>1, RestReadType
  <2> DEFINE then == [stream[v] EXCEPT !.pc = "send", !.msg = RestRead(stream[v].msg)]
  <2>3. stream' = [stream EXCEPT ![v] = then]
    BY <1>9 DEF ReadOpeningRest, TypeOK
  <2>4. then \in Stream
    BY <2>1, <2>2 DEF Stream, StreamPCs
  <2> HIDE DEF then
  <2>5. stream' \in [Viewer -> Stream]
    BY <2>3, <2>4 DEF TypeOK
  <2> QED
    BY <1>9, <2>5 DEF ReadOpeningRest, TypeOK
<1>10. ASSUME NEW v \in Viewer, SendOpening(v)
       PROVE  TypeOK'
  <2>1. stream[v] \in Stream /\ stream[v].msg \in Message
    BY DEF TypeOK, Stream
  <2>2. /\ queue' \in [Viewer -> Seq(Message)]
        /\ outdated' \subseteq Viewer /\ missed' \subseteq Viewer
    BY <1>10, <2>1, SendType DEF SendOpening
  <2>3. stream' \in [Viewer -> Stream]
    BY <1>10, <2>1, BlankType DEF SendOpening, Stream, StreamPCs, TypeOK
  <2> QED
    BY <1>10, <2>2, <2>3 DEF SendOpening, TypeOK
<1>11. ASSUME NEW p \in Process, Wire(p)
       PROVE  TypeOK'
  BY <1>11 DEF Wire, TypeOK
<1>12. ASSUME NEW p \in Process, Receive(p)
       PROVE  TypeOK'
  <2>1. /\ Head(relay[p]) \in Message /\ Tail(relay[p]) \in Seq(Message)
    BY <1>12, RangeTail DEF Receive, TypeOK
  <2>2. /\ queue' \in [Viewer -> Seq(Message)]
        /\ outdated' \subseteq Viewer /\ missed' \subseteq Viewer
    BY <1>12, <2>1, SendType DEF Receive, Listening
  <2>3. relay' \in [Process -> Seq(Message)]
    BY <1>12, <2>1 DEF Receive, TypeOK
  <2> QED
    BY <1>12, <2>2, <2>3 DEF Receive, TypeOK
<1>13. ASSUME NEW v \in Viewer, Deliver(v)
       PROVE  TypeOK'
  <2>1. /\ Head(queue[v]) \in Message /\ Tail(queue[v]) \in Seq(Message)
        /\ view[v] \in Message
    BY <1>13, RangeTail DEF Deliver, TypeOK
  <2>2. Merge(view[v], Head(queue[v])) \in Message
    BY <2>1, MergeType
  <2>3. /\ view' = [view EXCEPT ![v] = Merge(view[v], Head(queue[v]))]
        /\ queue' = [queue EXCEPT ![v] = Tail(queue[v])]
    BY <1>13 DEF Deliver, TypeOK
  <2>4. view' \in [Viewer -> Message] /\ queue' \in [Viewer -> Seq(Message)]
    BY <2>1, <2>2, <2>3 DEF TypeOK
  <2> QED
    BY <1>13, <2>4 DEF Deliver, TypeOK
<1>14. ASSUME NEW v \in Viewer, Submit(v)
       PROVE  TypeOK'
  <2>1. view[v].q \in Question
    BY <1>14 DEF Submit, TypeOK, Message
  <2>2. [PostIdle EXCEPT !.pc = "sent", !.q = view[v].q] \in Post
    BY <2>1, IdleTypes DEF Post, PostPCs
  <2>3. post' \in [Viewer -> Post] /\ lock' \in [Viewer -> SUBSET Question]
    BY <1>14, <2>1, <2>2 DEF Submit, TypeOK
  <2> QED
    BY <1>14, <2>3 DEF Submit, TypeOK
<1>15. ASSUME NEW v \in Viewer, NEW p \in Process, CheckAnswer(v, p)
       PROVE  TypeOK'
  <2>1. post[v] \in Post /\ post[v].q \in Question
    BY <1>15 DEF CheckAnswer, PostAt, RunsSomewhere, TypeOK
  <2>2. /\ [post[v] EXCEPT !.pc = "insert", !.at = p] \in Post
        /\ PostIdle \in Post
    BY <2>1, IdleTypes DEF Post, PostPCs
  <2>3. post' \in [Viewer -> Post]
    BY <1>15, <2>2 DEF CheckAnswer, TypeOK
  <2>4. unheard' \subseteq {"late", "lost"} \X Viewer \X Question
    BY <1>15, <2>1 DEF CheckAnswer, TypeOK
  <2> QED
    BY <1>15, <2>3, <2>4 DEF CheckAnswer, TypeOK
<1>16. ASSUME NEW v \in Viewer, RefuseAnswer(v)
       PROVE  TypeOK'
  <2>1. post' \in [Viewer -> Post] /\ lock' \in [Viewer -> SUBSET Question]
    BY <1>16, IdleTypes DEF RefuseAnswer, TypeOK
  <2> QED
    BY <1>16, <2>1 DEF RefuseAnswer, TypeOK
<1>17. ASSUME NEW v \in Viewer, InsertAnswer(v)
       PROVE  TypeOK'
  <2>1. post[v] \in Post /\ post[v].q \in Question
    BY <1>17 DEF InsertAnswer, PostAt, RunsSomewhere, TypeOK
  <2>2. post' \in [Viewer -> Post]
    BY <1>17, <2>1 DEF InsertAnswer, PostStep, Post, PostPCs, TypeOK
  <2>4. answers' \subseteq Viewer \X Question
    BY <1>17, <2>1 DEF InsertAnswer, TypeOK
  <2>3. flags' \subseteq {"collided", "reopened", "afterEnd"}
    BY <1>17 DEF InsertAnswer, TypeOK
  <2> QED
    BY <1>17, <2>2, <2>3, <2>4 DEF InsertAnswer, TypeOK
<1>18. ASSUME NEW v \in Viewer, CountAnswers(v)
       PROVE  TypeOK'
  <2>1. post[v] \in Post /\ CountOf(post[v].q) \in Nat
    BY CountType DEF TypeOK
  <2>2. post' \in [Viewer -> Post]
    BY <1>18, <2>1 DEF CountAnswers, Post, PostPCs, TypeOK
  <2> QED
    BY <1>18, <2>2 DEF CountAnswers, TypeOK
<1>19. ASSUME NEW v \in Viewer, PublishTick(v)
       PROVE  TypeOK'
  <2>1. /\ post[v].at \in Process /\ post[v].q \in Question /\ post[v].n \in Nat
    BY <1>19 DEF PublishTick, PostAt, RunsSomewhere, TypeOK, Post
  <2>2. Tick(post[v].q, post[v].n) \in Message
    BY <2>1, TickType
  <2>3. /\ queue' \in [Viewer -> Seq(Message)] /\ outdated' \subseteq Viewer
        /\ relay' \in [Process -> Seq(Message)] /\ missed' \subseteq Viewer
    BY <1>19, <2>1, <2>2, PublishType DEF PublishTick
  <2>4. post' \in [Viewer -> Post]
    BY <1>19, IdleTypes DEF PublishTick, TypeOK
  <2> QED
    BY <1>19, <2>3, <2>4 DEF PublishTick, TypeOK
<1>20. ASSUME Trouble
       PROVE  TypeOK'
  <2>1. Fault => trouble' \in 0..MaxTrouble
    <3>1. scene.trouble \in 0..MaxTrouble
      BY LiveAssumption DEF TypeOK
    <3> QED
      BY <3>1, LiveAssumption DEF Fault, TypeOK
  <2>2. ASSUME NEW v \in Viewer, Drop(v)
        PROVE  TypeOK'
    BY <2>1, <2>2, IdleTypes, RangeEmpty DEF Drop, TypeOK
  <2>3. ASSUME NEW v \in Viewer, LosePost(v)
        PROVE  TypeOK'
    <3>1. post[v].q \in Question
      BY <2>3 DEF LosePost, PostAt, RunsSomewhere
    <3>2. unheard' \subseteq {"late", "lost"} \X Viewer \X Question
      BY <2>3, <3>1 DEF LosePost, TypeOK
    <3> QED
      BY <2>1, <2>3, <3>2, IdleTypes DEF LosePost, TypeOK
  <2>4. ASSUME NEW p \in Process, Crash(p)
        PROVE  TypeOK'
    <3>1. /\ host' \in [Host -> HostRequest] /\ post' \in [Viewer -> Post]
          /\ stream' \in [Viewer -> Stream]
      BY <2>4, IdleTypes DEF Crash, TypeOK
    <3>2. queue' \in [Viewer -> Seq(Message)] /\ relay' \in [Process -> Seq(Message)]
      BY <2>4, RangeEmpty DEF Crash, TypeOK
    <3>3. /\ missed' \subseteq Viewer /\ outdated' \subseteq Viewer
          /\ wired' \in [Process -> BOOLEAN]
      BY <2>4 DEF Crash, Connected, TypeOK
    <3>4. unheard' \subseteq {"late", "lost"} \X Viewer \X Question
      BY <2>4 DEF Crash, TypeOK, RunsSomewhere, PostAt
    <3> QED
      BY <2>1, <2>4, <3>1, <3>2, <3>3, <3>4 DEF Crash, TypeOK
  <2>5. ASSUME NEW p \in Process, LoseRelay(p)
        PROVE  TypeOK'
    <3>1. Tail(relay[p]) \in Seq(Message)
      BY <2>5, RangeTail DEF LoseRelay, TypeOK
    <3>2. relay' \in [Process -> Seq(Message)]
      BY <2>5, <3>1 DEF LoseRelay, TypeOK
    <3>3. queue' = queue /\ missed' \subseteq Viewer /\ outdated' \subseteq Viewer
      BY <2>5, ConnectedType, LoseType DEF LoseRelay
    <3> QED
      BY <2>1, <2>5, <3>2, <3>3 DEF LoseRelay, TypeOK
  <2>6. ASSUME NEW r \in Host, FailBroadcast(r)
        PROVE  TypeOK'
    <3>1. queue' = queue /\ missed' \subseteq Viewer /\ outdated' \subseteq Viewer
      BY <2>6, ConnectedType, LoseType DEF FailBroadcast
    <3> QED
      BY <2>1, <2>6, <3>1, IdleTypes DEF FailBroadcast, TypeOK
  <2>7. ASSUME NEW v \in Viewer, FailOpening(v)
        PROVE  TypeOK'
    <3>1. queue' = queue /\ missed' \subseteq Viewer /\ outdated' \subseteq Viewer
      BY <2>7, LoseType DEF FailOpening
    <3>2. stream' \in [Viewer -> Stream]
      <4>1. stream[v] \in Stream
        BY DEF TypeOK
      <4> QED
        BY <2>7, <4>1, BlankType DEF FailOpening, Stream, StreamPCs, TypeOK
    <3> QED
      BY <2>1, <2>7, <3>1, <3>2 DEF FailOpening, TypeOK
  <2>8. ASSUME NEW v \in Viewer, FailTick(v)
        PROVE  TypeOK'
    <3>1. queue' = queue /\ missed' \subseteq Viewer /\ outdated' \subseteq Viewer
      BY <2>8, ConnectedType, LoseType DEF FailTick
    <3> QED
      BY <2>1, <2>8, <3>1, IdleTypes DEF FailTick, TypeOK
  <2>9. ASSUME NEW v \in Viewer, LoseInsert(v)
        PROVE  TypeOK'
    <3>1. queue' = queue /\ missed' \subseteq Viewer /\ outdated' \subseteq Viewer
      BY <2>9, ConnectedType, LoseType DEF LoseInsert
    <3>2. post[v].q \in Question
      BY <2>9 DEF LoseInsert, PostAt, RunsSomewhere
    <3>3. answers' \subseteq Viewer \X Question
      BY <2>9, <3>2 DEF LoseInsert, TypeOK
    <3>4. flags' \subseteq {"collided", "reopened", "afterEnd"}
      BY <2>9 DEF LoseInsert, TypeOK
    <3>5. lock' \in [Viewer -> SUBSET Question] /\ post' \in [Viewer -> Post]
      BY <2>9, IdleTypes DEF LoseInsert, TypeOK
    <3> QED
      BY <2>1, <2>9, <3>1, <3>3, <3>4, <3>5 DEF LoseInsert, TypeOK
  <2> QED
    BY <1>20, <2>2, <2>3, <2>4, <2>5, <2>6, <2>7, <2>8, <2>9 DEF Trouble
<1>21. ASSUME UNCHANGED vars
       PROVE  TypeOK'
  BY <1>21 DEF vars, TypeOK
<1> QED
  BY <1>1, <1>2, <1>3, <1>4, <1>5, <1>6, <1>7, <1>8, <1>9, <1>10, <1>11, <1>12, <1>13,
     <1>14, <1>15, <1>16, <1>17, <1>18, <1>19, <1>20, <1>21, <1>22
  DEF Next, HostRuns, StreamRuns, StreamGoesOn, AnswerRuns

-----------------------------------------------------------------------------
(* Where requests and streams run, and the committed rows *)

LEMMA RunsNext == TypeOK /\ RunsSomewhere /\ [Next]_vars => RunsSomewhere'
<1> SUFFICES ASSUME TypeOK, RunsSomewhere, [Next]_vars PROVE RunsSomewhere'
  OBVIOUS
<1> DEFINE HostRunsAt(x) == x.pc # "idle" => x.at \in Process
           StreamRunsAt(x) == x.pc \notin {"off", "closed"} <=> x.at \in Process
           PostRunsAt(x) == /\ x.pc # "idle" => x.q \in Question
                            /\ x.pc \in {"insert", "count", "publish"} => x.at \in Process
<1>1. /\ \A r \in Host : HostRunsAt(host[r])
      /\ \A v \in Viewer : StreamRunsAt(stream[v]) /\ PostRunsAt(post[v])
  BY DEF RunsSomewhere
<1>2. SUFFICES /\ \A r \in Host : HostRunsAt(host'[r])
               /\ \A v \in Viewer : StreamRunsAt(stream'[v]) /\ PostRunsAt(post'[v])
  BY DEF RunsSomewhere
<1>3. \A r \in Host : HostRunsAt(HostIdle)
  BY IdleTypes
<1>4. StreamRunsAt(StreamOff)
  BY IdleTypes, LiveAssumption
<1>5. PostRunsAt(PostIdle)
  BY DEF PostIdle
<1>6. /\ host \in [Host -> HostRequest] /\ stream \in [Viewer -> Stream]
      /\ post \in [Viewer -> Post] /\ view \in [Viewer -> Message]
  BY DEF TypeOK
<1>7. ASSUME NEW r \in Host, HostAsks(r)
      PROVE  \A d \in Host : HostRunsAt(host'[d])
  <2>1. PICK p \in Process, pc \in {"next", "reveal", "end"} : \E q : Ask(r, p, pc, q)
    BY <1>7 DEF HostAsks, NextQuestion, RevealQuestion, EndSession
  <2>q. PICK q : Ask(r, p, pc, q)
    BY <2>1
  <2>2. HostRunsAt([HostIdle EXCEPT !.pc = pc, !.at = p, !.q = q])
    BY DEF HostIdle
  <2>3. host' = [host EXCEPT ![r] = [HostIdle EXCEPT !.pc = pc, !.at = p, !.q = q]]
    BY <2>q DEF Ask
  <2> QED
    BY <1>1, <1>6, <2>2, <2>3
<1>8. ASSUME NEW r \in Host, HostRuns(r)
      PROVE  \A d \in Host : HostRunsAt(host'[d])
  <2>1. CASE Stamp(r)
    BY <1>1, <1>6, <2>1 DEF Stamp, HostRequest
  <2>2. CASE Commit(r) \/ ReadRow(r) \/ ReadRest(r)
    BY <1>1, <1>6, <2>2, ZenonT(60) DEF Commit, ReadRow, ReadRest, HostStep, HostAt, HostRequest
  <2>3. CASE PublishState(r)
    BY <1>1, <1>3, <1>6, <2>3 DEF PublishState
  <2> QED
    BY <1>8, <2>1, <2>2, <2>3 DEF HostRuns
<1>9. ASSUME NEW v \in Viewer, StreamRuns(v)
      PROVE  \A w \in Viewer : StreamRunsAt(stream'[w])
  <2>1. ASSUME NEW p \in Process, Connect(v, p)
        PROVE  \A w \in Viewer : StreamRunsAt(stream'[w])
    <3>1. stream' = [stream EXCEPT ![v] = [StreamOff EXCEPT !.pc = "row", !.at = p]]
      BY <2>1 DEF Connect
    <3>2. StreamRunsAt([StreamOff EXCEPT !.pc = "row", !.at = p])
      BY DEF StreamOff
    <3> QED
      BY <1>1, <1>6, <3>1, <3>2
  <2>2. CASE ReadOpeningRow(v) \/ ReadOpeningRest(v) \/ SendOpening(v)
    BY <1>1, <1>6, <2>2, ZenonT(60) DEF ReadOpeningRow, ReadOpeningRest, SendOpening, Stream
  <2>3. CASE RefuseConnect(v)
    BY <1>1, <1>6, <2>3 DEF RefuseConnect, Stream
  <2> QED
    BY <1>9, <2>1, <2>2, <2>3 DEF StreamRuns, StreamGoesOn
<1>10. ASSUME NEW v \in Viewer, Submit(v) \/ AnswerRuns(v)
       PROVE  \A w \in Viewer : PostRunsAt(post'[w])
  <2>1. CASE Submit(v)
    BY <1>1, <1>6, <2>1 DEF Submit, PostIdle, Message
  <2>2. ASSUME NEW p \in Process, CheckAnswer(v, p)
        PROVE  \A w \in Viewer : PostRunsAt(post'[w])
    <3>1. \/ post' = [post EXCEPT ![v] = PostIdle]
          \/ post' = [post EXCEPT ![v] = [@ EXCEPT !.pc = "insert", !.at = p]]
      BY <2>2 DEF CheckAnswer
    <3>2. PostRunsAt([post[v] EXCEPT !.pc = "insert", !.at = p])
      BY <1>1, <1>6, <2>2 DEF CheckAnswer, PostAt, Post
    <3> QED
      BY <1>1, <1>5, <1>6, <3>1, <3>2
  <2>3. CASE RefuseAnswer(v) \/ PublishTick(v)
    BY <1>1, <1>5, <1>6, <2>3 DEF RefuseAnswer, PublishTick
  <2>4. CASE InsertAnswer(v)
    BY <1>1, <1>6, <2>4 DEF InsertAnswer, PostStep, PostAt, Post
  <2>5. CASE CountAnswers(v)
    BY <1>1, <1>6, <2>5 DEF CountAnswers, PostStep, PostAt, Post
  <2> QED
    BY <1>10, <2>1, <2>2, <2>3, <2>4, <2>5 DEF AnswerRuns
<1>11. ASSUME Trouble
       PROVE  /\ \A r \in Host : HostRunsAt(host'[r])
              /\ \A v \in Viewer : StreamRunsAt(stream'[v]) /\ PostRunsAt(post'[v])
  <2>5. ASSUME NEW v \in Viewer, FailOpening(v)
        PROVE  UNCHANGED <<host, post>> /\ \A w \in Viewer : StreamRunsAt(stream'[w])
    BY <1>1, <1>6, <2>5 DEF FailOpening, Stream
  <2> HIDE DEF HostRunsAt, StreamRunsAt, PostRunsAt
  <2>1. ASSUME NEW v \in Viewer, Drop(v) \/ LosePost(v) \/ FailTick(v) \/ LoseInsert(v)
        PROVE  /\ UNCHANGED host
               /\ \A w \in Viewer : StreamRunsAt(stream'[w]) /\ PostRunsAt(post'[w])
    BY <1>1, <1>4, <1>5, <1>6, <2>1 DEF Drop, LosePost, FailTick, LoseInsert
  <2>2. ASSUME NEW p \in Process, Crash(p)
        PROVE  /\ \A r \in Host : HostRunsAt(host'[r])
               /\ \A v \in Viewer : StreamRunsAt(stream'[v]) /\ PostRunsAt(post'[v])
    BY <1>1, <1>3, <1>4, <1>5, <1>6, <2>2 DEF Crash
  <2>3. ASSUME NEW p \in Process, LoseRelay(p)
        PROVE  UNCHANGED <<host, stream, post>>
    BY <2>3 DEF LoseRelay
  <2>4. ASSUME NEW r \in Host, FailBroadcast(r)
        PROVE  UNCHANGED <<stream, post>> /\ \A d \in Host : HostRunsAt(host'[d])
    BY <1>1, <1>3, <1>6, <2>4 DEF FailBroadcast
  <2> QED
    BY <1>1, <1>11, <2>1, <2>2, <2>3, <2>4, <2>5 DEF Trouble
<1>12. (UNCHANGED host \/ Trouble \/ \E r \in Host : HostAsks(r) \/ HostRuns(r))
       /\ (UNCHANGED stream \/ Trouble \/ \E v \in Viewer : StreamRuns(v))
       /\ (UNCHANGED post \/ Trouble \/ \E v \in Viewer : Submit(v) \/ AnswerRuns(v))
  <2>1. ASSUME NEW r \in Host, HostAsks(r) \/ HostRuns(r)
        PROVE  UNCHANGED <<stream, post>>
    BY <2>1 DEF HostAsks, NextQuestion, RevealQuestion, EndSession, Ask,
                HostRuns, Stamp, Commit, ReadRow, ReadRest, PublishState
  <2>2. ASSUME NEW v \in Viewer, StreamRuns(v)
        PROVE  UNCHANGED <<host, post>>
    BY <2>2 DEF StreamRuns, StreamGoesOn, Connect, RefuseConnect, ReadOpeningRow, ReadOpeningRest, SendOpening
  <2>3. ASSUME NEW v \in Viewer, Submit(v) \/ AnswerRuns(v)
        PROVE  UNCHANGED <<host, stream>>
    BY <2>3 DEF Submit, AnswerRuns, CheckAnswer, RefuseAnswer, InsertAnswer, CountAnswers,
                PublishTick
  <2>4. ASSUME (\E v \in Viewer : Deliver(v)) \/ (\E p \in Process : Wire(p) \/ Receive(p))
        PROVE  UNCHANGED <<host, stream, post>>
    BY <2>4 DEF Deliver, Wire, Receive
  <2>5. UNCHANGED vars => UNCHANGED <<host, stream, post>>
    BY DEF vars
  <2> QED
    BY <2>1, <2>2, <2>3, <2>4, <2>5 DEF Next
<1> HIDE DEF HostRunsAt, StreamRunsAt, PostRunsAt
<1> QED
  BY <1>1, <1>7, <1>8, <1>9, <1>10, <1>11, <1>12

\* Only a commit writes the session's row.
LEMMA RowsKept ==
    ASSUME Next, \A r \in Host : ~Commit(r)
    PROVE  /\ UNCHANGED <<row, past>> /\ flags \subseteq flags'
           /\ flags' \subseteq flags \cup {"afterEnd"}
  BY ZenonT(60) DEF Next, HostAsks, NextQuestion, RevealQuestion, EndSession, Ask, db, history,
         HostRuns, Stamp, ReadRow, ReadRest, PublishState,
         StreamRuns, StreamGoesOn, Connect, RefuseConnect, ReadOpeningRow, ReadOpeningRest, SendOpening,
         Submit, AnswerRuns, CheckAnswer, RefuseAnswer, InsertAnswer, CountAnswers,
         PublishTick, Deliver, Wire, Receive,
         Trouble, Drop, LosePost, Crash, LoseRelay, FailBroadcast,
         FailOpening, FailTick, LoseInsert

\* Only an answer that is inserted is recorded.
LEMMA AnswersKept ==
    ASSUME Next, \A v \in Viewer : ~InsertAnswer(v) /\ ~LoseInsert(v)
    PROVE  answers' = answers
  BY ZenonT(60) DEF Next, HostAsks, NextQuestion, RevealQuestion, EndSession, Ask, db, history,
         HostRuns, Stamp, Commit, ReadRow, ReadRest, PublishState,
         StreamRuns, StreamGoesOn, Connect, RefuseConnect, ReadOpeningRow, ReadOpeningRest, SendOpening,
         Submit, AnswerRuns, CheckAnswer, RefuseAnswer, CountAnswers,
         PublishTick, Deliver, Wire, Receive,
         Trouble, Drop, LosePost, Crash, LoseRelay, FailBroadcast,
         FailOpening, FailTick

LEMMA PastNext ==
    TypeOK /\ TypeOK' /\ PastInOrder /\ OpenBeforeReveal /\ [Next]_vars
    => PastInOrder' /\ OpenBeforeReveal' /\ past \subseteq past' /\ flags \subseteq flags'
<1> SUFFICES ASSUME TypeOK, TypeOK', PastInOrder, OpenBeforeReveal, [Next]_vars
             PROVE  /\ PastInOrder' /\ OpenBeforeReveal'
                    /\ past \subseteq past' /\ flags \subseteq flags'
  OBVIOUS
<1>1. CASE UNCHANGED <<row, past>> /\ flags \subseteq flags' /\ flags' \subseteq flags \cup {"afterEnd"}
  BY <1>1 DEF PastInOrder, OpenBeforeReveal
<1>2. ASSUME NEW r \in Host, Commit(r)
      PROVE  /\ PastInOrder' /\ OpenBeforeReveal'
             /\ past \subseteq past' /\ flags \subseteq flags'
  <2>1. /\ past' = past \cup {row'} /\ row' = Written(r) /\ flags \subseteq flags'
        /\ "collided" \notin flags' => "collided" \notin flags /\ row.rev < row'.rev
        /\ "reopened" \notin flags' =>
              /\ "reopened" \notin flags
              /\ row'.status = "active" => \A old \in past : old.q # row'.q
    <3>1. row.rev \in Int /\ row'.rev \in Int
      BY DEF TypeOK, Row, Rev
    <3> QED
      BY <1>2, <3>1 DEF Commit
  <2>2. row \in Row /\ row' \in Row /\ past \subseteq Row
    BY DEF TypeOK
  <2>3. row'.status = "ended" => row'.q = NoQuestion
    BY <1>2, <2>1, <2>2 DEF Commit, Written, HostAt, Row
  <2>4. ASSUME "collided" \notin flags', NEW old \in past'
        PROVE  old.rev <= row'.rev /\ (old.rev = row'.rev => old = row')
    BY <2>1, <2>2, <2>4 DEF PastInOrder, Row, Rev
  <2>5. PastInOrder'
    BY <2>1, <2>3, <2>4 DEF PastInOrder
  <2>6. ASSUME flags' \cap {"collided", "reopened"} = {},
               NEW open \in past', NEW shown \in past',
               open.status = "active", shown.status = "reveal",
               open.q = shown.q, open.q # NoQuestion
        PROVE  open.rev < shown.rev
    <3>1. flags \cap {"collided", "reopened"} = {}
      BY <2>1, <2>6
    <3>2. CASE open \in past /\ shown \in past
      BY <2>6, <3>1, <3>2 DEF OpenBeforeReveal
    <3>3. CASE open = row' /\ shown \in past
      BY <2>1, <2>6, <3>3
    <3>4. CASE shown = row' /\ open \in past
      BY <2>1, <2>2, <2>6, <3>1, <3>4 DEF PastInOrder, Row, Rev
    <3> QED
      BY <2>1, <2>6, <3>2, <3>3, <3>4
  <2>7. OpenBeforeReveal'
    BY <2>6 DEF OpenBeforeReveal
  <2> QED
    BY <2>1, <2>5, <2>7
<1>3. CASE UNCHANGED vars
  BY <1>1, <1>3 DEF vars
<1> QED
  BY <1>1, <1>2, <1>3, RowsKept

-----------------------------------------------------------------------------
(* Snapshots are sound *)

\* What the second read of a host's request does, to be cited without the record.
LEMMA ReadRestEffect ==
    ASSUME TypeOK, NEW r \in Host, ReadRest(r)
    PROVE  /\ host[r].pc = "readRest" /\ host'[r].pc = "publish"
           /\ host'[r].at = host[r].at
           /\ host'[r].msg = RestRead(host[r].msg)
           /\ \A d \in Host \ {r} : host'[d] = host[d]
           /\ UNCHANGED <<view, queue, relay, stream>>
<1> DEFINE then == [host[r] EXCEPT !.pc = "publish", !.msg = RestRead(host[r].msg)]
<1>1. /\ host' = [host EXCEPT ![r] = then] /\ host[r].pc = "readRest"
      /\ UNCHANGED <<view, queue, relay, stream>>
  BY DEF ReadRest, HostAt, TypeOK, pages, wires
<1>2. host \in [Host -> HostRequest] /\ host[r] \in HostRequest
  BY DEF TypeOK
<1>3. then.pc = "publish" /\ then.at = host[r].at
  BY <1>2 DEF HostRequest
<1>4. then.msg = RestRead(host[r].msg)
  BY <1>2 DEF HostRequest
<1> HIDE DEF then
<1> QED
  BY <1>1, <1>2, <1>3, <1>4

\* ... and of a stream that opens.
LEMMA ReadOpeningRestEffect ==
    ASSUME TypeOK, NEW v \in Viewer, ReadOpeningRest(v)
    PROVE  /\ stream'[v].pc = "send" /\ stream'[v].at = stream[v].at
           /\ stream'[v].msg = RestRead(stream[v].msg)
           /\ \A w \in Viewer \ {v} : stream'[w] = stream[w]
           /\ UNCHANGED <<view, queue, relay, host>>
<1> DEFINE then == [stream[v] EXCEPT !.pc = "send", !.msg = RestRead(stream[v].msg)]
<1>1. /\ stream' = [stream EXCEPT ![v] = then]
      /\ UNCHANGED <<view, queue, relay, host>>
  BY DEF ReadOpeningRest, TypeOK, pages, wires
<1>2. stream \in [Viewer -> Stream] /\ stream[v] \in Stream
  BY DEF TypeOK
<1>3. then.pc = "send" /\ then.at = stream[v].at
  BY <1>2 DEF Stream
<1>4. then.msg = RestRead(stream[v].msg)
  BY <1>2 DEF Stream
<1> HIDE DEF then
<1> QED
  BY <1>1, <1>2, <1>3, <1>4

\* The steps that touch a message, or what carries one ...
LEMMA Carriers ==
    ASSUME [Next]_vars
    PROVE  \/ \E r \in Host : HostAsks(r) \/ HostRuns(r)
           \/ \E v \in Viewer : StreamRuns(v) \/ PublishTick(v) \/ Deliver(v)
           \/ \E p \in Process : Receive(p)
           \/ Trouble
           \/ UNCHANGED <<host, stream, view, queue, relay>>
  BY ZenonT(60) DEF Next, vars, Submit, AnswerRuns, CheckAnswer, RefuseAnswer, InsertAnswer,
         CountAnswers, Wire, db, pages, wires, history

\* ... and what they leave alone.
LEMMA CarriersLeave ==
    /\ \A r \in Host :
         /\ HostAsks(r) => UNCHANGED <<stream, view, queue, relay>>
         /\ HostRuns(r) => UNCHANGED <<stream, view>>
    /\ \A v \in Viewer :
         /\ StreamRuns(v) => UNCHANGED <<host, view, relay>>
         /\ PublishTick(v) => UNCHANGED <<host, stream, view>>
         /\ Deliver(v) => UNCHANGED <<host, stream, relay>>
    /\ \A p \in Process : Receive(p) => UNCHANGED <<host, stream, view>>
    /\ Trouble => UNCHANGED view
  BY ZenonT(60) DEF HostAsks, NextQuestion, RevealQuestion, EndSession, Ask,
         HostRuns, Stamp, Commit, ReadRow, ReadRest, PublishState,
         StreamRuns, StreamGoesOn, Connect, RefuseConnect, ReadOpeningRow, ReadOpeningRest, SendOpening,
         PublishTick, Deliver, Receive,
         Trouble, Drop, LosePost, Crash, LoseRelay, FailBroadcast,
         FailOpening, FailTick, LoseInsert,
         db, pages, wires, history

\* A host's request and a stream before they have anything to send.
LEMMA HostBegins ==
    ASSUME TypeOK, NEW r \in Host, HostAsks(r) \/ Stamp(r) \/ ReadRow(r)
    PROVE  /\ host'[r].pc # "publish" /\ \A d \in Host \ {r} : host'[d] = host[d]
           /\ UNCHANGED <<queue, relay, stream, view>>
<1>1. host \in [Host -> HostRequest] /\ host[r] \in HostRequest
  BY DEF TypeOK
<1> USE DEF db, pages, wires, history
<1>2. ASSUME NEW p \in Process, NEW pc \in {"next", "reveal", "end"}, NEW q, Ask(r, p, pc, q)
      PROVE  /\ host'[r].pc # "publish" /\ \A d \in Host \ {r} : host'[d] = host[d]
             /\ UNCHANGED <<queue, relay, stream, view>>
  <2>1. [HostIdle EXCEPT !.pc = pc, !.at = p, !.q = q].pc = pc
    BY DEF HostIdle
  <2> QED
    BY <1>1, <1>2, <2>1 DEF Ask
<1>3. CASE HostAsks(r)
  BY <1>2, <1>3 DEF HostAsks, NextQuestion, RevealQuestion, EndSession
<1>4. CASE Stamp(r)
  <2>1. PICK t \in Rev :
          host' = [host EXCEPT ![r] =
                     [@ EXCEPT !.rev = t,
                               !.pc = CASE host[r].pc = "next"   -> "nextCommit"
                                        [] host[r].pc = "reveal" -> "revealCommit"
                                        [] host[r].pc = "end"    -> "endCommit"]]
    BY <1>4 DEF Stamp
  <2>2. host[r].pc \in {"next", "reveal", "end"} /\ UNCHANGED <<queue, relay, stream, view>>
    BY <1>4 DEF Stamp
  <2>3. host'[r].pc # "publish"
    BY <1>1, <2>1, <2>2 DEF HostRequest
  <2> QED
    BY <1>1, <2>1, <2>2, <2>3
<1>5. CASE ReadRow(r)
  BY <1>1, <1>5 DEF ReadRow, HostRequest
<1> QED
  BY <1>3, <1>4, <1>5

LEMMA StreamBegins ==
    ASSUME TypeOK, NEW v \in Viewer, ReadOpeningRow(v) \/ \E p \in Process : Connect(v, p)
    PROVE  /\ stream'[v].pc \in {"row", "rest"}
           /\ \A w \in Viewer \ {v} : stream'[w] = stream[w]
           /\ UNCHANGED <<queue, relay, host, view>>
<1>1. stream \in [Viewer -> Stream] /\ stream[v] \in Stream
  BY DEF TypeOK
<1> USE DEF db, pages, wires, history
<1>2. ASSUME NEW p \in Process, Connect(v, p)
      PROVE  /\ stream'[v].pc = "row" /\ \A w \in Viewer \ {v} : stream'[w] = stream[w]
             /\ UNCHANGED <<queue, relay, host, view>>
  <2>1. [StreamOff EXCEPT !.pc = "row", !.at = p].pc = "row"
    BY DEF StreamOff
  <2> QED
    BY <1>1, <1>2, <2>1 DEF Connect
<1>3. CASE ReadOpeningRow(v)
  BY <1>1, <1>3 DEF ReadOpeningRow, Stream
<1> QED
  BY <1>2, <1>3

LEMMA SoundKept ==
    ASSUME past \subseteq past'
    PROVE  \A m : Sound(m) => Sound(m)'
  BY DEF Sound, Committed

LEMMA BlankSound == Sound(Blank)
  BY BlankType DEF Sound

LEMMA TickSound == \A q \in Question, n \in Nat : Sound(Tick(q, n))
  BY DEF Sound, Tick, Blank, NoStatus

LEMMA RowSound ==
    ASSUME TypeOK, PastInOrder
    PROVE  Sound(RowRead)
  BY RowReadType DEF Sound, Committed, PastInOrder

\* The rest of a snapshot discloses nothing but what its row revealed.
LEMMA RestSound ==
    ASSUME TypeOK, PastInOrder, NEW m \in Message, Sound(m)
    PROVE  Sound(RestRead(m))
<1>1. Committed(m) => Committed(RestRead(m))
  BY RestReadType DEF Committed
<1>2. ASSUME RestRead(m).key
      PROVE  m.status = "reveal" /\ m.q # NoQuestion
  <2>1. Revealed(m.status) /\ m.q # NoQuestion
    BY <1>2, RestReadType
  <2>2. Committed(m)
    BY <2>1 DEF Sound, Revealed, NoStatus
  <2> QED
    BY <2>1, <2>2 DEF Revealed, Committed, PastInOrder
<1> QED
  BY <1>1, <1>2, RestReadType DEF Sound

\* Without a collision, no snapshot is newer than the row.
LEMMA NoneNewer ==
    ASSUME TypeOK, PastInOrder, "collided" \notin flags, NEW m \in Message, Sound(m)
    PROVE  m.rev \in Int /\ row.rev \in Nat /\ m.rev <= row.rev
<1>1. row.rev \in Nat /\ \A old \in past : old.rev <= row.rev
  BY DEF PastInOrder, TypeOK, Row, Rev
<1>2. m.rev \in Int
  BY DEF Message, Rev, NoRev
<1>3. CASE Committed(m)
  BY <1>1, <1>2, <1>3 DEF Committed
<1>4. CASE m.rev = NoRev
  BY <1>1, <1>4 DEF NoRev
<1> QED
  BY <1>1, <1>2, <1>3, <1>4 DEF Sound

LEMMA MergeSound ==
    ASSUME NEW s \in Message, NEW m \in Message, Sound(s), Sound(m), s.status # NoStatus
    PROVE  Sound(Merge(s, m)) /\ Merge(s, m).status # NoStatus
<1>1. CASE m.status = NoStatus
  BY <1>1, MergeType DEF Sound, Committed
<1>2. CASE m.status # NoStatus
  BY <1>2, MergeType
<1> QED
  BY <1>1, <1>2

\* A sound message that is sent or published leaves what is on its way sound.
LEMMA SentSound ==
    ASSUME TypeOK, SoundEverywhere, NEW vs, NEW us, NEW m \in Message, Sound(m), Send(vs, us, m)
    PROVE  \A v \in Viewer : \A x \in Range(queue'[v]) : Sound(x)
<1>1. \A v \in Viewer : Range(queue'[v]) \subseteq Range(queue[v]) \cup {m}
  <2>1. \A v \in Viewer :
          Range(queue'[v]) = IF v \in vs THEN Range(queue[v]) \cup {m} ELSE Range(queue[v])
    BY SendType
  <2> QED
    BY <2>1
<1>2. \A v \in Viewer : \A x \in Range(queue[v]) : Sound(x)
  BY DEF SoundEverywhere
<1> QED
  BY <1>1, <1>2

LEMMA PublishedSound ==
    ASSUME TypeOK, SoundEverywhere, NEW p \in Process, NEW m \in Message, Sound(m),
           Publish(p, m)
    PROVE  /\ \A v \in Viewer : \A x \in Range(queue'[v]) : Sound(x)
           /\ \A o \in Process : \A x \in Range(relay'[o]) : Sound(x)
<1>1. \A v \in Viewer : Range(queue'[v]) \subseteq Range(queue[v]) \cup {m}
  BY PublishType
<1>2. \A o \in Process : Range(relay'[o]) \subseteq Range(relay[o]) \cup {m}
  BY PublishType
<1>3. /\ \A v \in Viewer : \A x \in Range(queue[v]) : Sound(x)
      /\ \A o \in Process : \A x \in Range(relay[o]) : Sound(x)
  BY DEF SoundEverywhere
<1> QED
  BY <1>1, <1>2, <1>3

LEMMA SoundNext ==
    ASSUME TypeOK, RunsSomewhere, PastInOrder, SoundEverywhere, past \subseteq past', [Next]_vars
    PROVE  SoundEverywhere'
<1> DEFINE HostsSound == \A r \in Host : Sound(host'[r].msg)
           StreamsSound == \A v \in Viewer : Sound(stream'[v].msg)
           ViewsSound == \A v \in Viewer : Sound(view'[v]) /\ view'[v].status # NoStatus
           QueuesSound == \A v \in Viewer : \A m \in Range(queue'[v]) : Sound(m)
           RelaysSound == \A p \in Process : \A m \in Range(relay'[p]) : Sound(m)
<1>1. SUFFICES HostsSound /\ StreamsSound /\ ViewsSound /\ QueuesSound /\ RelaysSound
  BY SoundKept DEF SoundEverywhere
<1>2. /\ \A r \in Host : Sound(host[r].msg) /\ host[r] \in HostRequest
      /\ \A v \in Viewer : Sound(stream[v].msg) /\ stream[v] \in Stream
      /\ host \in [Host -> HostRequest] /\ stream \in [Viewer -> Stream]
      /\ Sound(Blank) /\ Sound(RowRead) /\ RowRead \in Message
      /\ HostIdle.msg = Blank /\ StreamOff.msg = Blank
  BY BlankSound, RowSound, RowReadType, IdleTypes DEF SoundEverywhere, TypeOK
<1>3. (UNCHANGED host => HostsSound) /\ (UNCHANGED stream => StreamsSound)
      /\ (UNCHANGED view => ViewsSound) /\ (UNCHANGED queue => QueuesSound)
      /\ (UNCHANGED relay => RelaysSound)
  BY DEF SoundEverywhere
<1> USE DEF db, pages, wires, history
<1>4. ASSUME NEW r \in Host, HostAsks(r)
      PROVE  HostsSound
  <2>1. ASSUME NEW o \in Process, NEW pc, NEW q, Ask(r, o, pc, q)
        PROVE  HostsSound
    <3>1. host' = [host EXCEPT ![r] = [HostIdle EXCEPT !.pc = pc, !.at = o, !.q = q]]
      BY <2>1 DEF Ask
    <3>2. [HostIdle EXCEPT !.pc = pc, !.at = o, !.q = q].msg = Blank
      BY DEF HostIdle
    <3> QED
      BY <1>2, <3>1, <3>2
  <2> QED
    BY <1>4, <2>1 DEF HostAsks, NextQuestion, RevealQuestion, EndSession
<1>5. ASSUME NEW r \in Host, HostRuns(r)
      PROVE  HostsSound /\ QueuesSound /\ RelaysSound
  <2>1. CASE Stamp(r)
    <3>1. host'[r].msg = host[r].msg /\ \A d \in Host \ {r} : host'[d] = host[d]
      BY <1>2, <2>1 DEF Stamp, HostRequest
    <3> QED
      BY <1>2, <1>3, <2>1, <3>1 DEF Stamp
  <2>2. CASE Commit(r)
    <3>1. host'[r].msg = host[r].msg /\ \A d \in Host \ {r} : host'[d] = host[d]
      BY <1>2, <2>2 DEF Commit, HostStep, HostRequest
    <3> QED
      BY <1>2, <1>3, <2>2, <3>1 DEF Commit
  <2>3. CASE ReadRow(r)
    <3>1. host'[r].msg = RowRead /\ \A d \in Host \ {r} : host'[d] = host[d]
      BY <1>2, <2>3 DEF ReadRow, HostRequest
    <3> QED
      BY <1>2, <1>3, <2>3, <3>1 DEF ReadRow
  <2>4. CASE ReadRest(r)
    <3>1. host'[r].msg = RestRead(host[r].msg) /\ \A d \in Host \ {r} : host'[d] = host[d]
      BY <1>2, <2>4, ReadRestEffect
    <3>2. Sound(RestRead(host[r].msg))
      BY <1>2, RestSound DEF HostRequest
    <3> QED
      BY <1>2, <1>3, <2>4, <3>1, <3>2 DEF ReadRest
  <2>5. CASE PublishState(r)
    <3>1. host[r].at \in Process /\ host[r].msg \in Message
      BY <1>2, <2>5 DEF PublishState, HostAt, RunsSomewhere, HostRequest
    <3>2. QueuesSound /\ RelaysSound
      BY <1>2, <2>5, <3>1, PublishedSound DEF PublishState
    <3>3. HostsSound
      BY <1>2, <2>5 DEF PublishState
    <3> QED
      BY <3>2, <3>3
  <2> QED
    BY <1>5, <2>1, <2>2, <2>3, <2>4, <2>5 DEF HostRuns
<1>6. ASSUME NEW v \in Viewer, StreamRuns(v)
      PROVE  StreamsSound /\ QueuesSound
  <2>1. ASSUME NEW p \in Process, Connect(v, p)
        PROVE  StreamsSound /\ QueuesSound
    <3>1. stream' = [stream EXCEPT ![v] = [StreamOff EXCEPT !.pc = "row", !.at = p]]
      BY <2>1 DEF Connect
    <3>2. [StreamOff EXCEPT !.pc = "row", !.at = p].msg = Blank
      BY DEF StreamOff
    <3> QED
      BY <1>2, <1>3, <2>1, <3>1, <3>2 DEF Connect
  <2>2. CASE ReadOpeningRow(v)
    <3>1. stream'[v].msg = RowRead /\ \A w \in Viewer \ {v} : stream'[w] = stream[w]
      BY <1>2, <2>2 DEF ReadOpeningRow, Stream
    <3> QED
      BY <1>2, <1>3, <2>2, <3>1 DEF ReadOpeningRow
  <2>3. CASE ReadOpeningRest(v)
    <3>1. stream'[v].msg = RestRead(stream[v].msg)
          /\ \A w \in Viewer \ {v} : stream'[w] = stream[w]
      BY <1>2, <2>3, ReadOpeningRestEffect
    <3>2. Sound(RestRead(stream[v].msg))
      BY <1>2, RestSound DEF Stream
    <3> QED
      BY <1>2, <1>3, <2>3, <3>1, <3>2 DEF ReadOpeningRest
  <2>5. CASE RefuseConnect(v)
    <3>1. stream'[v].msg = stream[v].msg /\ \A w \in Viewer \ {v} : stream'[w] = stream[w]
      BY <1>2, <2>5 DEF RefuseConnect, Stream
    <3> QED
      BY <1>2, <1>3, <2>5, <3>1 DEF RefuseConnect
  <2>4. CASE SendOpening(v)
    <3>1. stream'[v].msg = Blank /\ \A w \in Viewer \ {v} : stream'[w] = stream[w]
      BY <1>2, <2>4 DEF SendOpening, Stream
    <3>2. QueuesSound
      BY <1>2, <2>4, SentSound DEF SendOpening, Stream
    <3> QED
      BY <1>2, <3>1, <3>2
  <2> QED
    BY <1>6, <2>1, <2>2, <2>3, <2>4, <2>5 DEF StreamRuns, StreamGoesOn
<1>7. ASSUME NEW v \in Viewer, PublishTick(v)
      PROVE  QueuesSound /\ RelaysSound
  <2>1. post[v].at \in Process /\ post[v].q \in Question /\ post[v].n \in Nat
    BY <1>7 DEF PublishTick, PostAt, RunsSomewhere, TypeOK, Post
  <2> QED
    BY <1>7, <2>1, TickType, TickSound, PublishedSound DEF PublishTick
<1>8. ASSUME NEW p \in Process, Receive(p)
      PROVE  QueuesSound /\ RelaysSound
  <2>1. relay[p] \in Seq(Message) /\ relay[p] # <<>>
    BY <1>8 DEF Receive, TypeOK
  <2>2. /\ Head(relay[p]) \in Message /\ Sound(Head(relay[p]))
        /\ \A m \in Range(Tail(relay[p])) : Sound(m)
    BY <2>1, RangeTail DEF SoundEverywhere
  <2>3. QueuesSound
    BY <1>8, <2>2, SentSound DEF Receive
  <2>4. RelaysSound
    BY <1>8, <2>2 DEF Receive, SoundEverywhere, TypeOK
  <2> QED
    BY <2>3, <2>4
<1>9. ASSUME NEW v \in Viewer, Deliver(v)
      PROVE  QueuesSound /\ ViewsSound
  <2>1. queue[v] \in Seq(Message) /\ queue[v] # <<>> /\ view[v] \in Message
    BY <1>9 DEF Deliver, TypeOK
  <2>2. /\ Head(queue[v]) \in Message /\ Sound(Head(queue[v]))
        /\ \A m \in Range(Tail(queue[v])) : Sound(m)
    BY <2>1, RangeTail DEF SoundEverywhere
  <2>3. Sound(Merge(view[v], Head(queue[v]))) /\ Merge(view[v], Head(queue[v])).status # NoStatus
    BY <2>1, <2>2, MergeSound DEF SoundEverywhere
  <2>4. /\ view' = [view EXCEPT ![v] = Merge(view[v], Head(queue[v]))]
        /\ queue' = [queue EXCEPT ![v] = Tail(queue[v])]
    BY <1>9 DEF Deliver
  <2>5. QueuesSound
    BY <2>2, <2>4 DEF SoundEverywhere, TypeOK
  <2>6. ViewsSound
    BY <2>3, <2>4 DEF SoundEverywhere, TypeOK
  <2> QED
    BY <2>5, <2>6
<1>10. ASSUME Trouble
       PROVE  HostsSound /\ StreamsSound /\ QueuesSound /\ RelaysSound
  <2>1. ASSUME NEW v \in Viewer, Drop(v) \/ LosePost(v)
        PROVE  HostsSound /\ StreamsSound /\ QueuesSound /\ RelaysSound
    BY <1>2, <1>3, <2>1, RangeEmpty DEF Drop, LosePost, SoundEverywhere, TypeOK
  <2>2. ASSUME NEW p \in Process, Crash(p)
        PROVE  HostsSound /\ StreamsSound /\ QueuesSound /\ RelaysSound
    BY <1>2, <1>3, <2>2, RangeEmpty DEF Crash, SoundEverywhere, TypeOK
  <2>3. ASSUME NEW p \in Process, LoseRelay(p)
        PROVE  HostsSound /\ StreamsSound /\ QueuesSound /\ RelaysSound
    <3>1. \A m \in Range(Tail(relay[p])) : Sound(m)
      BY <2>3, RangeTail DEF LoseRelay, SoundEverywhere, TypeOK
    <3>2. queue' = queue
      BY <2>3, ConnectedType, LoseType DEF LoseRelay
    <3> QED
      BY <1>3, <2>3, <3>1, <3>2 DEF LoseRelay, SoundEverywhere, TypeOK
  <2>4. ASSUME NEW r \in Host, FailBroadcast(r)
        PROVE  HostsSound /\ StreamsSound /\ QueuesSound /\ RelaysSound
    <3>1. queue' = queue
      BY <2>4, ConnectedType, LoseType DEF FailBroadcast
    <3> QED
      BY <1>2, <1>3, <2>4, <3>1 DEF FailBroadcast
  <2>5. ASSUME NEW v \in Viewer, FailTick(v) \/ LoseInsert(v)
        PROVE  HostsSound /\ StreamsSound /\ QueuesSound /\ RelaysSound
    <3>1. queue' = queue
      BY <2>5, ConnectedType, LoseType DEF FailTick, LoseInsert
    <3> QED
      BY <1>3, <2>5, <3>1 DEF FailTick, LoseInsert
  <2>6. ASSUME NEW v \in Viewer, FailOpening(v)
        PROVE  HostsSound /\ StreamsSound /\ QueuesSound /\ RelaysSound
    <3>1. queue' = queue
      BY <2>6, LoseType DEF FailOpening
    <3>2. stream'[v].msg = Blank /\ \A w \in Viewer \ {v} : stream'[w] = stream[w]
      BY <1>2, <2>6 DEF FailOpening, Stream
    <3>3. StreamsSound
      BY <1>2, <3>2
    <3> QED
      BY <1>3, <2>6, <3>1, <3>3 DEF FailOpening
  <2> QED
    BY <1>10, <2>1, <2>2, <2>3, <2>4, <2>5, <2>6 DEF Trouble
<1> QED
  BY <1>3, <1>4, <1>5, <1>6, <1>7, <1>8, <1>9, <1>10, Carriers, CarriersLeave

-----------------------------------------------------------------------------
(* Nobody is forgotten *)

\* While the session stands still, what a step does to the snapshot owed to v.
LEMMA OwedStep ==
    ASSUME TypeOK, RunsSomewhere, PastInOrder, SoundEverywhere, NobodyForgotten,
           Next, UNCHANGED <<row, past>>, flags \subseteq flags',
           NEW v \in Viewer, stream'[v].pc \in {"rest", "send", "open"},
           v \notin missed', "collided" \notin flags'
    PROVE  Owed(v)'
<1> DEFINE Cur(m) == m.status # NoStatus /\ m.rev = row.rev
           InQueue == \E m \in Range(queue'[v]) : Cur(m)
           InRelay == \E m \in Range(relay'[stream'[v].at]) : Cur(m)
           InStream == stream'[v].pc \in {"rest", "send"} /\ Cur(stream'[v].msg)
           InHost == \E r \in Host :
                        \/ host'[r].pc = "readRow"
                        \/ host'[r].pc \in {"readRest", "publish"} /\ Cur(host'[r].msg)
<1>1. SUFFICES Cur(view'[v]) \/ InQueue \/ InStream \/ InRelay \/ InHost
  BY DEF Owed, SomeCurrent, Current, HostAt
<1>2. /\ host \in [Host -> HostRequest] /\ stream \in [Viewer -> Stream]
      /\ view \in [Viewer -> Message] /\ queue \in [Viewer -> Seq(Message)]
      /\ relay \in [Process -> Seq(Message)] /\ row \in Row
      /\ RowRead \in Message /\ Cur(RowRead)
  BY RowReadType DEF TypeOK, Row, Status, NoStatus
<1> USE DEF db, pages, wires, history
<1>3. CASE ReadOpeningRow(v)
  <2>1. stream'[v].msg = RowRead /\ stream'[v].pc = "rest"
    BY <1>2, <1>3 DEF ReadOpeningRow, Stream
  <2> QED
    BY <1>2, <2>1
<1>4. SUFFICES ASSUME ~ReadOpeningRow(v), ~InQueue
               PROVE  Cur(view'[v]) \/ InQueue \/ InStream \/ InRelay \/ InHost
  BY <1>3
\* v misses nothing now, as whatever repairs a loss is a newest snapshot in its queue.
<1>a. ASSUME NEW vs, NEW us, NEW m \in Message, Send(vs, us, m)
      PROVE  v \notin missed /\ (v \in us => m.status = NoStatus)
  BY <1>4, <1>a, SendMisses DEF Current
<1>b. ASSUME NEW r \in Host, PublishState(r)
      PROVE  v \notin missed
  <2>1. Publish(host[r].at, host[r].msg) /\ host[r].msg \in Message
    BY <1>2, <1>b DEF PublishState, HostRequest
  <2> QED
    BY <1>a, <2>1 DEF Publish
<1>c. ASSUME NEW w \in Viewer, PublishTick(w)
      PROVE  v \notin missed
  <2>1. post[w].q \in Question /\ post[w].n \in Nat
    BY <1>c DEF PublishTick, PostAt, RunsSomewhere, TypeOK, Post
  <2>2. /\ Publish(post[w].at, Tick(post[w].q, post[w].n))
        /\ Tick(post[w].q, post[w].n) \in Message
    BY <1>c, <2>1, TickType DEF PublishTick
  <2> QED
    BY <1>a, <2>2 DEF Publish
<1>d. ASSUME NEW w \in Viewer, Drop(w) \/ LosePost(w) \/ FailTick(w) \/ LoseInsert(w)
      PROVE  stream[v].pc \in {"rest", "send", "open"} /\ v \notin missed
  <2>1. CASE FailTick(w) \/ LoseInsert(w)
    BY <2>1, ConnectedType, LoseType DEF FailTick, LoseInsert
  <2>2. CASE Drop(w) \/ LosePost(w)
    BY <1>2, <2>2, IdleTypes DEF Drop, LosePost
  <2> QED
    BY <1>d, <2>1, <2>2
<1>e. ASSUME NEW r \in Host, FailBroadcast(r)
      PROVE  FALSE
  <2>1. Lose(Connected, Blank) /\ stream' = stream
    BY <1>e DEF FailBroadcast
  <2>2. v \in Connected
    BY <2>1 DEF Connected, RunsSomewhere
  <2> QED
    BY <2>1, <2>2, ConnectedType, LoseType, BlankType
<1>f. ASSUME NEW w \in Viewer, FailOpening(w)
      PROVE  w # v /\ stream[v].pc \in {"rest", "send", "open"} /\ v \notin missed
  <2>1. Lose({w}, Blank) /\ stream' = [stream EXCEPT ![w] = [@ EXCEPT !.pc = "open", !.msg = Blank]]
    BY <1>f DEF FailOpening
  <2>2. w \in missed' /\ missed \subseteq missed'
    BY <2>1, LoseType, BlankType
  <2> QED
    BY <1>2, <2>1, <2>2
<1>g. ASSUME NEW p \in Process, LoseRelay(p)
      PROVE  /\ stream[v].pc \in {"rest", "send", "open"} /\ v \notin missed
             /\ stream[v].at = p => Head(relay[p]).status = NoStatus
  <2>1. Lose(Listening(p), Head(relay[p])) /\ stream' = stream
    BY <1>g DEF LoseRelay
  <2>2. /\ missed \subseteq missed'
        /\ Head(relay[p]).status # NoStatus => Listening(p) \subseteq missed'
    BY <2>1, ConnectedType, LoseType
  <2> QED
    BY <2>1, <2>2 DEF Listening
<1>5. stream[v].pc \in {"rest", "send", "open"} /\ v \notin missed
  <2>1. ASSUME NEW r \in Host, HostAsks(r) \/ HostRuns(r)
        PROVE  stream' = stream /\ v \notin missed
    <3>1. CASE HostAsks(r)
      BY <3>1 DEF HostAsks, NextQuestion, RevealQuestion, EndSession, Ask
    <3>2. CASE Stamp(r) \/ Commit(r)
      BY <3>2 DEF Stamp, Commit
    <3>3. CASE ReadRow(r) \/ ReadRest(r)
      BY <3>3, ZenonT(60) DEF ReadRow, ReadRest
    <3>4. CASE PublishState(r)
      BY <1>b, <3>4 DEF PublishState
    <3> QED
      BY <2>1, <3>1, <3>2, <3>3, <3>4 DEF HostRuns
  <2>2. ASSUME NEW w \in Viewer, StreamRuns(w)
        PROVE  stream[v].pc \in {"rest", "send", "open"} /\ v \notin missed
    <3>1. ASSUME NEW p \in Process, Connect(w, p)
          PROVE  stream[v].pc \in {"rest", "send", "open"} /\ v \notin missed
      <4>1. /\ stream' = [stream EXCEPT ![w] = [StreamOff EXCEPT !.pc = "row", !.at = p]]
            /\ missed' = missed
        BY <3>1 DEF Connect
      <4>2. [StreamOff EXCEPT !.pc = "row", !.at = p].pc = "row"
        BY DEF StreamOff
      <4> QED
        BY <1>2, <4>1, <4>2
    <3>2. CASE ReadOpeningRow(w)
      BY <1>2, <1>4, <3>2 DEF ReadOpeningRow, Stream
    <3>3. CASE ReadOpeningRest(w) \/ RefuseConnect(w)
      BY <1>2, <3>3 DEF ReadOpeningRest, RefuseConnect, Stream
    <3>4. CASE SendOpening(w)
      <4>1. Send({w}, {}, stream[w].msg) /\ stream[w].msg \in Message
        BY <1>2, <3>4 DEF SendOpening, Stream
      <4>2. stream[v].pc \in {"rest", "send", "open"}
        BY <1>2, <3>4 DEF SendOpening, Stream
      <4> QED
        BY <1>a, <4>1, <4>2
    <3> QED
      BY <2>2, <3>1, <3>2, <3>3, <3>4 DEF StreamRuns, StreamGoesOn
  <2>3. ASSUME NEW w \in Viewer, Submit(w) \/ AnswerRuns(w) \/ Deliver(w)
        PROVE  stream' = stream /\ v \notin missed
    <3>1. CASE PublishTick(w)
      BY <1>c, <3>1 DEF PublishTick
    <3>2. CASE Submit(w) \/ Deliver(w) \/ RefuseAnswer(w) \/ InsertAnswer(w) \/ CountAnswers(w)
      BY <3>2, ZenonT(60) DEF Submit, Deliver, RefuseAnswer, InsertAnswer, CountAnswers
    <3>3. CASE \E p \in Process : CheckAnswer(w, p)
      BY <3>3 DEF CheckAnswer
    <3> QED
      BY <2>3, <3>1, <3>2, <3>3 DEF AnswerRuns
  <2>4. ASSUME NEW p \in Process, Wire(p) \/ Receive(p)
        PROVE  stream' = stream /\ v \notin missed
    <3>1. CASE Receive(p)
      <4>1. /\ Send(Listening(p), {}, Head(relay[p])) /\ stream' = stream
            /\ relay[p] # <<>>
        BY <3>1 DEF Receive
      <4>2. Head(relay[p]) \in Message
        BY <1>2, <4>1, RangeTail
      <4> QED
        BY <1>a, <4>1, <4>2
    <3>2. CASE Wire(p)
      BY <3>2 DEF Wire
    <3> QED
      BY <2>4, <3>1, <3>2
  <2>5. ASSUME NEW p \in Process, Crash(p)
        PROVE  stream[v].pc \in {"rest", "send", "open"} /\ v \notin missed
    BY <1>2, <2>5, IdleTypes DEF Crash
  <2> QED
    BY <1>d, <1>e, <1>f, <1>g, <2>1, <2>2, <2>3, <2>4, <2>5 DEF Next, Trouble
<1>6. /\ stream[v].at \in Process
      /\ \/ Cur(view[v])
         \/ \E m \in Range(queue[v]) : Cur(m)
         \/ stream[v].pc \in {"rest", "send"} /\ Cur(stream[v].msg)
         \/ \E m \in Range(relay[stream[v].at]) : Cur(m)
         \/ \E r \in Host :
              \/ host[r].pc = "readRow"
              \/ host[r].pc \in {"readRest", "publish"} /\ Cur(host[r].msg)
  BY <1>5 DEF NobodyForgotten, Excused, Owed, SomeCurrent, Current, HostAt, RunsSomewhere
<1>7. ASSUME NEW r \in Host, HostAsks(r) \/ HostRuns(r)
      PROVE  Cur(view'[v]) \/ InQueue \/ InStream \/ InRelay \/ InHost
  <2>1. CASE HostAsks(r)
    <3>1. /\ host[r].pc = "idle" /\ \A d \in Host \ {r} : host'[d] = host[d]
          /\ UNCHANGED <<view, queue, relay, stream>>
      BY <1>2, <2>1 DEF HostAsks, NextQuestion, RevealQuestion, EndSession, Ask, HostAt
    <3> QED
      BY <1>6, <3>1
  <2>2. CASE Stamp(r)
    <3>1. /\ host[r].pc \in {"next", "reveal", "end"}
          /\ \A d \in Host \ {r} : host'[d] = host[d]
          /\ UNCHANGED <<view, queue, relay, stream>>
      BY <1>2, <2>2 DEF Stamp
    <3> QED
      BY <1>6, <3>1
  <2>3. CASE Commit(r)
    BY <1>2, <2>3 DEF Commit, HostStep, HostRequest
  <2>4. CASE ReadRow(r)
    <3>1. /\ host'[r].pc = "readRest" /\ host'[r].msg = RowRead
      BY <1>2, <2>4 DEF ReadRow, HostRequest
    <3> QED
      BY <1>2, <3>1
  <2>5. CASE ReadRest(r)
    <3>1. /\ host[r].pc = "readRest" /\ host'[r].pc = "publish"
          /\ host'[r].msg = RestRead(host[r].msg)
          /\ \A d \in Host \ {r} : host'[d] = host[d]
          /\ UNCHANGED <<view, queue, relay, stream>>
      BY <1>2, <2>5, ReadRestEffect
    <3>2. Cur(host[r].msg) => Cur(host'[r].msg)
      BY <1>2, <3>1, RestReadType DEF HostRequest
    <3> QED
      BY <1>6, <3>1, <3>2
  <2>6. CASE PublishState(r)
    <3>1. /\ host[r].pc = "publish" /\ host[r].at \in Process /\ host[r].msg \in Message
          /\ Publish(host[r].at, host[r].msg)
          /\ \A d \in Host \ {r} : host'[d] = host[d]
          /\ UNCHANGED <<view, stream>>
      BY <1>2, <2>6 DEF PublishState, HostAt, RunsSomewhere, HostRequest
    <3>2. /\ \A x \in Range(queue[v]) : x \in Range(queue'[v])
          /\ \A x \in Range(relay[stream[v].at]) : x \in Range(relay'[stream[v].at])
          /\ \/ host[r].msg \in Range(queue'[v])
             \/ host[r].msg \in Range(relay'[stream[v].at])
             \/ host[r].msg.status = NoStatus
      BY <1>6, <3>1, PublishKeeps
    <3> QED
      BY <1>6, <3>1, <3>2
  <2> QED
    BY <1>7, <2>1, <2>2, <2>3, <2>4, <2>5, <2>6 DEF HostRuns
<1>8. ASSUME NEW w \in Viewer, StreamRuns(w)
      PROVE  Cur(view'[v]) \/ InQueue \/ InStream \/ InRelay \/ InHost
  <2>1. ASSUME w # v
        PROVE  UNCHANGED <<view, relay, host, stream[v], queue[v]>>
    BY <1>2, <1>8, <2>1
    DEF StreamRuns, StreamGoesOn, Connect, RefuseConnect, ReadOpeningRow, ReadOpeningRest, SendOpening, Send
  <2>6. ~RefuseConnect(v)
    BY <1>5 DEF RefuseConnect
  <2>2. CASE w # v
    BY <1>6, <2>1, <2>2
  <2>3. CASE ReadOpeningRest(v)
    <3>1. /\ stream'[v].msg = RestRead(stream[v].msg) /\ stream'[v].pc = "send"
          /\ stream'[v].at = stream[v].at
          /\ UNCHANGED <<view, relay, host, queue>>
      BY <1>2, <2>3, ReadOpeningRestEffect
    <3>2. Cur(stream[v].msg) => Cur(stream'[v].msg)
      BY <1>2, <3>1, RestReadType DEF Stream
    <3> QED
      BY <1>6, <3>1, <3>2
  <2>4. CASE SendOpening(v)
    <3>1. /\ stream[v].msg \in Message /\ Send({v}, {}, stream[v].msg)
          /\ stream'[v].at = stream[v].at
          /\ UNCHANGED <<view, relay, host>>
      BY <1>2, <2>4 DEF SendOpening, Stream
    <3>2. Range(queue'[v]) = Range(queue[v]) \cup {stream[v].msg}
      BY <3>1, SendType
    <3> QED
      BY <1>6, <3>1, <3>2
  <2>5. ASSUME NEW p \in Process, Connect(v, p)
        PROVE  FALSE
    BY <1>5, <2>5 DEF Connect
  <2> QED
    BY <1>4, <1>8, <2>2, <2>3, <2>4, <2>5, <2>6 DEF StreamRuns, StreamGoesOn
<1>9. ASSUME NEW w \in Viewer, PublishTick(w)
      PROVE  Cur(view'[v]) \/ InQueue \/ InStream \/ InRelay \/ InHost
  <2>1. post[w].at \in Process /\ post[w].q \in Question /\ post[w].n \in Nat
    BY <1>9 DEF PublishTick, PostAt, RunsSomewhere, TypeOK, Post
  <2>2. /\ Tick(post[w].q, post[w].n) \in Message
        /\ Publish(post[w].at, Tick(post[w].q, post[w].n))
        /\ UNCHANGED <<view, stream, host>>
    BY <1>9, <2>1, TickType DEF PublishTick
  <2>3. /\ \A x \in Range(queue[v]) : x \in Range(queue'[v])
        /\ \A x \in Range(relay[stream[v].at]) : x \in Range(relay'[stream[v].at])
    BY <1>6, <2>1, <2>2, PublishKeeps
  <2> QED
    BY <1>6, <2>2, <2>3
<1>10. ASSUME NEW p \in Process, Receive(p)
       PROVE  Cur(view'[v]) \/ InQueue \/ InStream \/ InRelay \/ InHost
  <2>1. /\ relay[p] \in Seq(Message) /\ relay[p] # <<>>
        /\ Send(Listening(p), {}, Head(relay[p]))
        /\ relay' = [relay EXCEPT ![p] = Tail(relay[p])]
        /\ UNCHANGED <<view, stream, host>>
    BY <1>2, <1>10 DEF Receive
  <2>2. /\ Head(relay[p]) \in Message
        /\ Range(relay[p]) = {Head(relay[p])} \cup Range(Tail(relay[p]))
    BY <2>1, RangeTail
  <2>3. /\ \A x \in Range(queue[v]) : x \in Range(queue'[v])
        /\ v \in Listening(p) => Head(relay[p]) \in Range(queue'[v])
    BY <2>1, <2>2, SendKeeps
  <2>4. CASE stream[v].at = p
    <3>1. v \in Listening(p) /\ relay'[stream'[v].at] = Tail(relay[p])
      BY <1>2, <1>6, <2>1, <2>4 DEF Listening
    <3> QED
      BY <1>6, <2>1, <2>2, <2>3, <2>4, <3>1
  <2>5. CASE stream[v].at # p
    <3>1. relay'[stream'[v].at] = relay[stream[v].at]
      BY <1>2, <1>6, <2>1, <2>5
    <3> QED
      BY <1>6, <2>1, <2>3, <3>1
  <2> QED
    BY <2>4, <2>5
<1>11. ASSUME NEW w \in Viewer, Deliver(w)
       PROVE  Cur(view'[v]) \/ InQueue \/ InStream \/ InRelay \/ InHost
  <2>1. UNCHANGED <<stream, relay, host>>
    BY <1>11 DEF Deliver
  <2>2. CASE w # v
    <3>1. view'[v] = view[v] /\ queue'[v] = queue[v]
      BY <1>2, <1>11, <2>2 DEF Deliver
    <3> QED
      BY <1>6, <2>1, <3>1
  <2>3. CASE w = v
    <3> DEFINE m == Head(queue[v])
    <3>1. /\ m \in Message /\ view[v] \in Message
          /\ Range(queue[v]) = {m} \cup Range(Tail(queue[v]))
          /\ view'[v] = Merge(view[v], m) /\ queue'[v] = Tail(queue[v])
      BY <1>2, <1>11, <2>3, RangeTail DEF Deliver
    <3>2. Sound(m) /\ Sound(view[v]) /\ view[v].status # NoStatus
      BY <3>1 DEF SoundEverywhere
    <3> HIDE DEF m
    <3>3. /\ m.rev <= row.rev /\ view[v].rev <= row.rev
          /\ m.rev \in Int /\ view[v].rev \in Int /\ row.rev \in Int
      BY <3>1, <3>2, NoneNewer
    <3>4. Cur(view[v]) \/ Cur(m) => Cur(view'[v])
      BY <3>1, <3>2, <3>3, MergeType
    <3> QED
      BY <1>6, <2>1, <3>1, <3>4
  <2> QED
    BY <2>2, <2>3
<1>12. CASE UNCHANGED <<host, stream, view, queue, relay>>
  BY <1>6, <1>12
<1>13. ASSUME Trouble
       PROVE  Cur(view'[v]) \/ InQueue \/ InStream \/ InRelay \/ InHost
  <2>1. ASSUME NEW w \in Viewer, Drop(w)
        PROVE  Cur(view'[v]) \/ InQueue \/ InStream \/ InRelay \/ InHost
    <3>1. w # v
      BY <1>2, <2>1, IdleTypes DEF Drop
    <3> QED
      BY <1>2, <1>6, <2>1, <3>1 DEF Drop
  <2>2. ASSUME NEW w \in Viewer, LosePost(w)
        PROVE  Cur(view'[v]) \/ InQueue \/ InStream \/ InRelay \/ InHost
    BY <1>6, <2>2 DEF LosePost
  <2>3. ASSUME NEW p \in Process, Crash(p)
        PROVE  Cur(view'[v]) \/ InQueue \/ InStream \/ InRelay \/ InHost
    <3>1. stream[v].at # p /\ stream'[v] = stream[v] /\ queue'[v] = queue[v]
      BY <1>2, <2>3, IdleTypes DEF Crash
    <3>2. relay'[stream'[v].at] = relay[stream[v].at] /\ view' = view
      BY <1>2, <1>6, <2>3, <3>1 DEF Crash
    <3>3. ~Unpublished(p)
      BY <1>6, <2>3, <3>1 DEF Crash, Connected
    <3>4. ASSUME NEW r \in Host, host[r].pc \in {"readRow", "readRest", "publish"}
          PROVE  host'[r] = host[r]
      BY <2>3, <3>3, <3>4 DEF Crash, Unpublished
    <3> QED
      BY <1>6, <3>1, <3>2, <3>4
  <2>4. ASSUME NEW p \in Process, LoseRelay(p)
        PROVE  Cur(view'[v]) \/ InQueue \/ InStream \/ InRelay \/ InHost
    <3>1. /\ queue' = queue /\ relay' = [relay EXCEPT ![p] = Tail(relay[p])]
          /\ relay[p] \in Seq(Message) /\ relay[p] # <<>>
          /\ UNCHANGED <<view, stream, host>>
      BY <1>2, <2>4, ConnectedType, LoseType DEF LoseRelay
    <3>2. CASE stream[v].at # p
      BY <1>2, <1>6, <3>1, <3>2
    <3>3. CASE stream[v].at = p
      <4>1. Range(relay[p]) = {Head(relay[p])} \cup Range(Tail(relay[p]))
        BY <3>1, RangeTail
      <4>2. ~Cur(Head(relay[p])) /\ relay'[stream'[v].at] = Tail(relay[p])
        BY <1>g, <1>2, <2>4, <3>1, <3>3
      <4> QED
        BY <1>6, <3>1, <3>3, <4>1, <4>2
    <3> QED
      BY <3>2, <3>3
  <2>5. ASSUME NEW w \in Viewer, FailTick(w) \/ LoseInsert(w)
        PROVE  Cur(view'[v]) \/ InQueue \/ InStream \/ InRelay \/ InHost
    <3>1. UNCHANGED <<host, stream, view, queue, relay>>
      BY <2>5, ConnectedType, LoseType DEF FailTick, LoseInsert
    <3> QED
      BY <1>12, <3>1
  <2>6. ASSUME NEW w \in Viewer, FailOpening(w)
        PROVE  Cur(view'[v]) \/ InQueue \/ InStream \/ InRelay \/ InHost
    <3>1. queue' = queue /\ UNCHANGED <<host, view, relay>>
      BY <2>6, LoseType DEF FailOpening
    <3>2. stream'[v] = stream[v]
      BY <1>2, <1>f, <2>6 DEF FailOpening
    <3> QED
      BY <1>6, <3>1, <3>2
  <2> QED
    BY <1>13, <1>e, <2>1, <2>2, <2>3, <2>4, <2>5, <2>6 DEF Trouble
<1> QED
  BY <1>7, <1>8, <1>9, <1>10, <1>11, <1>12, <1>13, Carriers

LEMMA OwedNext ==
    ASSUME TypeOK, RunsSomewhere, PastInOrder, SoundEverywhere, NobodyForgotten,
           flags \subseteq flags', [Next]_vars
    PROVE  NobodyForgotten'
<1>1. CASE UNCHANGED vars
  BY <1>1 DEF vars, NobodyForgotten, Owed, Excused, Current, SomeCurrent, HostAt
<1>2. ASSUME NEW r \in Host, Commit(r)
      PROVE  NobodyForgotten'
  <2>1. host'[r].pc = "readRow"
    BY <1>2 DEF Commit, HostStep, HostRequest, TypeOK
  <2> QED
    BY <2>1 DEF NobodyForgotten, Owed, HostAt
<1>3. CASE Next /\ \A r \in Host : ~Commit(r)
  <2>1. UNCHANGED <<row, past>>
    BY <1>3, RowsKept
  <2> QED
    BY <1>3, <2>1, OwedStep DEF NobodyForgotten, Excused
<1> QED
  BY <1>1, <1>2, <1>3

-----------------------------------------------------------------------------
(* Answers and locks *)

LEMMA LocksNext ==
    ASSUME TypeOK, AnswersRecorded, LockedByLossOnly, [Next]_vars
    PROVE  AnswersRecorded' /\ LockedByLossOnly'
<1> USE DEF db, pages, wires, history
<1> DEFINE RecordedAt(v) ==
             /\ post'[v].pc \in {"count", "publish"} => <<v, post'[v].q>> \in answers'
             /\ post'[v].pc \in {"idle", "sent"} => post'[v].at = NoProcess
           LockedAt(v) == \A q \in lock'[v] :
             \/ <<v, q>> \in answers'
             \/ post'[v].pc # "idle" /\ post'[v].q = q
             \/ <<"late", v, q>> \in unheard'
             \/ <<"lost", v, q>> \in unheard'
<1>1. SUFFICES ASSUME NEW v \in Viewer PROVE RecordedAt(v) /\ LockedAt(v)
  BY DEF AnswersRecorded, LockedByLossOnly, Answered
<1>2. /\ post[v].pc \in {"count", "publish"} => <<v, post[v].q>> \in answers
      /\ post[v].pc \in {"idle", "sent"} => post[v].at = NoProcess
      /\ \A q \in lock[v] :
             \/ <<v, q>> \in answers
             \/ post[v].pc # "idle" /\ post[v].q = q
             \/ <<"late", v, q>> \in unheard
             \/ <<"lost", v, q>> \in unheard
  BY DEF AnswersRecorded, LockedByLossOnly, Answered
<1>3. /\ post \in [Viewer -> Post] /\ lock \in [Viewer -> SUBSET Question]
      /\ PostIdle.pc = "idle" /\ PostIdle.at = NoProcess
  BY DEF TypeOK, PostIdle
<1>4. CASE UNCHANGED <<post[v], lock[v]>> /\ answers \subseteq answers' /\ unheard \subseteq unheard'
  BY <1>2, <1>4
<1>5. CASE Submit(v)
  <2>1. PICK q \in Question :
          /\ post'[v] = [PostIdle EXCEPT !.pc = "sent", !.q = q]
          /\ lock'[v] = lock[v] \cup {q} /\ post[v].pc = "idle"
          /\ UNCHANGED <<answers, unheard>>
    BY <1>3, <1>5 DEF Submit, PostAt, TypeOK, Message, NoQuestion
  <2>2. post'[v].pc = "sent" /\ post'[v].q = q /\ post'[v].at = NoProcess
    BY <2>1 DEF PostIdle
  <2> QED
    BY <1>2, <2>1, <2>2
<1>6. ASSUME NEW p \in Process, CheckAnswer(v, p)
      PROVE  RecordedAt(v) /\ LockedAt(v)
  <2>1. /\ post[v].pc = "sent" /\ UNCHANGED <<lock, answers>>
        /\ \/ <<v, post[v].q>> \in answers /\ post'[v] = PostIdle /\ unheard' = unheard
           \/ post'[v] = [post[v] EXCEPT !.pc = "insert", !.at = p] /\ unheard' = unheard
           \/ /\ post'[v] = PostIdle
              /\ unheard' = unheard \cup {<<"late", v, post[v].q>>}
    BY <1>3, <1>6 DEF CheckAnswer, PostAt, Answered
  <2>2. CASE <<v, post[v].q>> \in answers /\ post'[v] = PostIdle /\ unheard' = unheard
    BY <1>2, <1>3, <2>1, <2>2
  <2>3. CASE post'[v] = [post[v] EXCEPT !.pc = "insert", !.at = p] /\ unheard' = unheard
    <3>1. post'[v].pc = "insert" /\ post'[v].q = post[v].q
      BY <1>3, <2>3 DEF Post
    <3> QED
      BY <1>2, <2>1, <2>3, <3>1
  <2>4. CASE post'[v] = PostIdle /\ unheard' = unheard \cup {<<"late", v, post[v].q>>}
    BY <1>2, <1>3, <2>1, <2>4
  <2> QED
    BY <2>1, <2>2, <2>3, <2>4
<1>7. CASE RefuseAnswer(v)
  BY <1>2, <1>3, <1>7 DEF RefuseAnswer, PostAt, TakenBack
<1>8. CASE InsertAnswer(v)
  <2>1. /\ answers' = answers \cup {<<v, post[v].q>>} /\ UNCHANGED <<lock, unheard>>
        /\ post'[v].pc = "count" /\ post'[v].q = post[v].q
    BY <1>3, <1>8 DEF InsertAnswer, PostStep, Post
  <2> QED
    BY <1>2, <2>1
<1>9. CASE CountAnswers(v)
  <2>1. /\ UNCHANGED <<answers, lock, unheard>> /\ post[v].pc = "count"
        /\ post'[v].pc = "publish" /\ post'[v].q = post[v].q
    BY <1>3, <1>9 DEF CountAnswers, PostAt, Post
  <2> QED
    BY <1>2, <2>1
<1>10. CASE PublishTick(v)
  BY <1>2, <1>3, <1>10 DEF PublishTick, PostAt
<1>11. CASE LosePost(v)
  BY <1>2, <1>3, <1>11 DEF LosePost, PostAt
<1>14. CASE FailTick(v)
  BY <1>2, <1>3, <1>14 DEF FailTick, PostAt
<1>15. CASE LoseInsert(v)
  <2>1. /\ answers' = answers \cup {<<v, post[v].q>>} /\ unheard' = unheard
        /\ post'[v] = PostIdle /\ lock'[v] \subseteq lock[v]
    BY <1>3, <1>15 DEF LoseInsert
  <2> QED
    BY <1>2, <1>3, <2>1
<1>12. ASSUME NEW p \in Process, Crash(p)
       PROVE  RecordedAt(v) /\ LockedAt(v)
  <2>1. /\ UNCHANGED <<answers, lock>> /\ unheard \subseteq unheard'
        /\ post'[v] = IF post[v].at = p THEN PostIdle ELSE post[v]
        /\ post[v].pc = "insert" /\ post[v].at = p => <<"lost", v, post[v].q>> \in unheard'
    BY <1>12 DEF Crash, PostAt
  <2>2. CASE post[v].at # p
    BY <1>4, <2>1, <2>2
  <2>3. CASE post[v].at = p
    <3>1. post[v].pc \in {"insert", "count", "publish"}
      BY <1>2, <1>3, <2>3, LiveAssumption DEF Post, PostPCs
    <3> QED
      BY <1>2, <1>3, <2>1, <2>3, <3>1
  <2> QED
    BY <2>2, <2>3
<1>13. \/ UNCHANGED <<post[v], lock[v]>> /\ answers \subseteq answers' /\ unheard \subseteq unheard'
       \/ Submit(v) \/ AnswerRuns(v) \/ LosePost(v) \/ FailTick(v) \/ LoseInsert(v)
       \/ \E p \in Process : Crash(p)
  <2>1. CASE \E r \in Host : HostAsks(r) \/ HostRuns(r)
    <3>1. ASSUME NEW r \in Host, HostAsks(r)
          PROVE  UNCHANGED <<post, lock, answers, unheard>>
      BY <3>1 DEF HostAsks, NextQuestion, RevealQuestion, EndSession, Ask
    <3>2. ASSUME NEW r \in Host, Stamp(r) \/ Commit(r)
          PROVE  UNCHANGED <<post, lock, answers, unheard>>
      BY <3>2 DEF Stamp, Commit
    <3>3. ASSUME NEW r \in Host, ReadRow(r) \/ ReadRest(r)
          PROVE  UNCHANGED <<post, lock, answers, unheard>>
      BY <3>3, Zenon DEF ReadRow, ReadRest, db, pages, history
    <3>4. ASSUME NEW r \in Host, PublishState(r)
          PROVE  UNCHANGED <<post, lock, answers, unheard>>
      BY <3>4 DEF PublishState
    <3> QED
      BY <2>1, <3>1, <3>2, <3>3, <3>4 DEF HostRuns
  <2>2. CASE \E w \in Viewer : StreamRuns(w) \/ Deliver(w)
    BY <2>2 DEF StreamRuns, StreamGoesOn, Connect, RefuseConnect, ReadOpeningRow, ReadOpeningRest, SendOpening, Deliver
  <2>7. ASSUME NEW w \in Viewer, FailTick(w) \/ LoseInsert(w), w # v
        PROVE  UNCHANGED <<post[v], lock[v]>> /\ answers \subseteq answers' /\ unheard \subseteq unheard'
    BY <1>3, <2>7 DEF FailTick, LoseInsert
  <2>3. ASSUME NEW w \in Viewer, Submit(w) \/ AnswerRuns(w) \/ LosePost(w), w # v
        PROVE  UNCHANGED <<post[v], lock[v]>> /\ answers \subseteq answers' /\ unheard \subseteq unheard'
    BY <1>3, <2>3 DEF Submit, AnswerRuns, CheckAnswer, RefuseAnswer, InsertAnswer,
                      CountAnswers, PublishTick, PostStep, LosePost
  <2>4. CASE \E p \in Process : Wire(p) \/ Receive(p) \/ LoseRelay(p)
    BY <2>4 DEF Wire, Receive, LoseRelay
  <2>5. CASE \/ \E w \in Viewer : Drop(w) \/ FailOpening(w)
             \/ \E r \in Host : FailBroadcast(r)
    BY <2>5 DEF Drop, FailOpening, FailBroadcast
  <2>6. CASE UNCHANGED vars
    BY <2>6 DEF vars
  <2> QED
    BY <2>1, <2>2, <2>3, <2>4, <2>5, <2>6, <2>7 DEF Next, Trouble
<1> QED
  BY <1>4, <1>5, <1>6, <1>7, <1>8, <1>9, <1>10, <1>11, <1>12, <1>13, <1>14, <1>15
  DEF AnswerRuns

-----------------------------------------------------------------------------
(* The final leaderboard *)

\* A snapshot that is read after the end scores every answer.
LEMMA FinalRest ==
    ASSUME TypeOK, PastInOrder, "collided" \notin flags, row.status = "ended",
           NEW m \in Message, Sound(m)
    PROVE  Scored(RestRead(m))
<1> SUFFICES ASSUME m.status # NoStatus, m.rev = row.rev
             PROVE  RestRead(m).board = Cardinality(answers)
  BY RestReadType DEF Scored, Current
<1>1. row.rev # NoRev
  BY DEF TypeOK, Row, Rev, NoRev
<1>2. PICK old \in past : old.status = m.status /\ old.rev = m.rev
  BY <1>1 DEF Sound, Committed
<1>3. m.status = "ended"
  BY <1>2 DEF PastInOrder
<1> QED
  BY <1>3 DEF RestRead, Message, Revealed

LEMMA BlankScored ==
    ASSUME TypeOK
    PROVE  Scored(Blank) /\ \A q \in Question, n \in Nat : Scored(Tick(q, n))
<1>1. ~Current(Blank)
  BY BlankType DEF TypeOK, Row, Rev, NoRev, Current
<1>2. \A q \in Question, n \in Nat : ~Current(Tick(q, n))
  BY TickType DEF Current
<1> QED
  BY <1>1, <1>2 DEF Scored

LEMMA MergeScored ==
    ASSUME NEW s \in Message, NEW m \in Message, Scored(s), Scored(m)
    PROVE  Scored(Merge(s, m))
<1>1. CASE m.status = NoStatus
  BY <1>1, MergeType DEF Scored, Current
<1>2. CASE m.status # NoStatus
  BY <1>2, MergeType
<1> QED
  BY <1>1, <1>2

\* A transition makes every snapshot there is an old one.
LEMMA FinalCommit ==
    ASSUME TypeOK, PastInOrder, SoundEverywhere, NEW r \in Host, Commit(r)
    PROVE  FinalScores'
<1> SUFFICES ASSUME "collided" \notin flags'
             PROVE  /\ \A v \in Viewer :
                         /\ Scored(view[v])'
                         /\ Scored(stream[v].msg)'
                         /\ \A m \in Range(queue'[v]) : Scored(m)'
                    /\ \A d \in Host : HostAt(d, "publish")' => Scored(host[d].msg)'
                    /\ \A p \in Process : \A m \in Range(relay'[p]) : Scored(m)'
  BY DEF FinalScores
<1>1. "collided" \notin flags /\ ~(row'.rev <= row.rev)
  BY DEF Commit
<1>2. ASSUME NEW m \in Message, Sound(m)
      PROVE  Scored(m)'
  <2>1. m.rev <= row.rev
    BY <1>1, <1>2, NoneNewer
  <2>2. m.rev # row'.rev
    BY <1>1, <2>1
  <2> QED
    BY <2>2 DEF Scored, Current
<1>3. /\ UNCHANGED <<view, stream, queue, relay>>
      /\ \A d \in Host : host'[d].msg = host[d].msg
  BY DEF Commit, HostStep, pages, wires, TypeOK, HostRequest
<1>4. /\ \A v \in Viewer :
            /\ view[v] \in Message /\ Sound(view[v])
            /\ stream[v].msg \in Message /\ Sound(stream[v].msg)
            /\ \A m \in Range(queue[v]) : m \in Message /\ Sound(m)
      /\ \A d \in Host : host[d].msg \in Message /\ Sound(host[d].msg)
      /\ \A p \in Process : \A m \in Range(relay[p]) : m \in Message /\ Sound(m)
  BY RangeIn DEF SoundEverywhere, TypeOK, Stream, HostRequest
<1>5. \A m \in Message : Sound(m) => (m.status # NoStatus /\ m.rev = row'.rev
                                      => m.board = Cardinality(answers'))
  BY <1>2 DEF Scored, Current
<1> QED
  BY <1>3, <1>4, <1>5 DEF Scored, Current

LEMMA FinalNext ==
    ASSUME TypeOK, RunsSomewhere, PastInOrder, SoundEverywhere, FinalScores,
           flags \subseteq flags', [Next]_vars
    PROVE  FinalScores'
<1> USE DEF db, pages, wires, history
<1>1. CASE \E r \in Host : Commit(r)
  BY <1>1, FinalCommit
<1>2. SUFFICES ASSUME \A r \in Host : ~Commit(r),
                      row'.status = "ended", flags' \cap {"collided", "afterEnd"} = {}
               PROVE  FinalScores'
  BY <1>1 DEF FinalScores
<1>3. row' = row
  BY <1>2, RowsKept DEF vars
<1>4. row.status = "ended" /\ flags \cap {"collided", "afterEnd"} = {}
  BY <1>2, <1>3
<1>5. answers' = answers
  <2>1. ASSUME NEW v \in Viewer, InsertAnswer(v) \/ LoseInsert(v) PROVE FALSE
    BY <1>2, <1>4, <2>1 DEF InsertAnswer, LoseInsert
  <2> QED
    BY <2>1, <1>2, AnswersKept DEF vars
<1> DEFINE Ok(m) == m.status # NoStatus /\ m.rev = row.rev => m.board = Cardinality(answers)
           HostsScored == \A r \in Host : host'[r].pc = "publish" => Ok(host'[r].msg)
           StreamsScored == \A v \in Viewer : stream'[v].pc = "send" => Ok(stream'[v].msg)
           ViewsScored == \A v \in Viewer : Ok(view'[v])
           QueuesScored == \A v \in Viewer : \A m \in Range(queue'[v]) : Ok(m)
           RelaysScored == \A p \in Process : \A m \in Range(relay'[p]) : Ok(m)
<1>6. SUFFICES HostsScored /\ StreamsScored /\ ViewsScored /\ QueuesScored /\ RelaysScored
  BY <1>3, <1>5 DEF FinalScores, Scored, Current, HostAt
<1>7. /\ \A r \in Host : /\ host[r] \in HostRequest /\ Sound(host[r].msg)
                         /\ host[r].pc = "publish" => Ok(host[r].msg)
      /\ \A v \in Viewer :
            /\ stream[v] \in Stream /\ Sound(stream[v].msg)
            /\ stream[v].pc = "send" => Ok(stream[v].msg)
            /\ Ok(view[v]) /\ view[v] \in Message
            /\ \A m \in Range(queue[v]) : Ok(m)
      /\ \A p \in Process : \A m \in Range(relay[p]) : Ok(m)
      /\ host \in [Host -> HostRequest] /\ stream \in [Viewer -> Stream]
      /\ HostIdle.pc = "idle" /\ StreamOff.pc = "off"
  BY <1>4, IdleTypes DEF FinalScores, Scored, Current, HostAt, SoundEverywhere, TypeOK
<1>8. (UNCHANGED host => HostsScored) /\ (UNCHANGED stream => StreamsScored)
      /\ (UNCHANGED view => ViewsScored) /\ (UNCHANGED queue => QueuesScored)
      /\ (UNCHANGED relay => RelaysScored)
  BY <1>7
<1>9. \A m \in Message : Ok(m) <=> Scored(m)
  BY DEF Scored, Current
<1>10. ASSUME NEW m \in Message, Sound(m)
       PROVE  Ok(RestRead(m))
  BY <1>4, <1>10, FinalRest DEF Scored, Current
\* What is sent or published is scored if it says anything of the end.
<1>11. ASSUME NEW vs, NEW us, NEW m \in Message, Ok(m), Send(vs, us, m)
       PROVE  QueuesScored
  <2>0. \A v \in Viewer :
           Range(queue'[v]) = IF v \in vs THEN Range(queue[v]) \cup {m} ELSE Range(queue[v])
    BY <1>11, SendType, Zenon
  <2>1. \A v \in Viewer : Range(queue'[v]) \subseteq Range(queue[v]) \cup {m}
    BY <2>0
  <2> QED
    BY <1>7, <1>11, <2>1
<1>12. ASSUME NEW p \in Process, NEW m \in Message, Ok(m), Publish(p, m)
       PROVE  QueuesScored /\ RelaysScored
  <2>1. \A v \in Viewer : Range(queue'[v]) \subseteq Range(queue[v]) \cup {m}
    BY <1>12, PublishType
  <2>2. \A o \in Process : Range(relay'[o]) \subseteq Range(relay[o]) \cup {m}
    BY <1>12, PublishType
  <2> QED
    BY <1>7, <1>12, <2>1, <2>2
<1>13. ASSUME NEW r \in Host, HostAsks(r) \/ HostRuns(r)
       PROVE  HostsScored /\ QueuesScored /\ RelaysScored
  <2>1. CASE HostAsks(r) \/ Stamp(r) \/ ReadRow(r)
    <3>1. /\ host'[r].pc # "publish" /\ \A d \in Host \ {r} : host'[d] = host[d]
          /\ UNCHANGED <<queue, relay>>
      BY <1>7, <2>1, HostBegins
    <3> QED
      BY <1>7, <1>8, <3>1
  <2>2. CASE ReadRest(r)
    <3>1. /\ host'[r].msg = RestRead(host[r].msg)
          /\ \A d \in Host \ {r} : host'[d] = host[d]
          /\ UNCHANGED <<queue, relay>>
      BY <2>2, ReadRestEffect
    <3>2. Ok(RestRead(host[r].msg))
      BY <1>7, <1>10 DEF HostRequest
    <3> QED
      BY <1>7, <1>8, <3>1, <3>2
  <2>3. CASE PublishState(r)
    <3>1. /\ host[r].pc = "publish" /\ host[r].at \in Process /\ host[r].msg \in Message
          /\ Publish(host[r].at, host[r].msg)
          /\ host' = [host EXCEPT ![r] = HostIdle]
      BY <1>7, <2>3 DEF PublishState, HostAt, RunsSomewhere, HostRequest
    <3>2. QueuesScored /\ RelaysScored
      BY <1>7, <1>12, <3>1
    <3>3. HostsScored
      BY <1>7, <3>1
    <3> QED
      BY <3>2, <3>3
  <2> QED
    BY <1>2, <1>13, <2>1, <2>2, <2>3 DEF HostRuns
<1>14. ASSUME NEW v \in Viewer, StreamRuns(v)
       PROVE  StreamsScored /\ QueuesScored
  <2>1. CASE ReadOpeningRow(v) \/ \E p \in Process : Connect(v, p)
    <3>1. /\ stream'[v].pc # "send" /\ \A w \in Viewer \ {v} : stream'[w] = stream[w]
          /\ UNCHANGED queue
      BY <2>1, StreamBegins
    <3> QED
      BY <1>7, <1>8, <3>1
  <2>2. CASE ReadOpeningRest(v)
    <3>1. /\ stream'[v].msg = RestRead(stream[v].msg)
          /\ \A w \in Viewer \ {v} : stream'[w] = stream[w]
          /\ UNCHANGED queue
      BY <2>2, ReadOpeningRestEffect
    <3>2. Ok(RestRead(stream[v].msg))
      BY <1>7, <1>10 DEF Stream
    <3> QED
      BY <1>7, <1>8, <3>1, <3>2
  <2>3. CASE SendOpening(v)
    <3>1. /\ stream[v].pc = "send" /\ stream[v].msg \in Message
          /\ Send({v}, {}, stream[v].msg)
          /\ stream'[v].pc = "open" /\ \A w \in Viewer \ {v} : stream'[w] = stream[w]
      BY <1>7, <2>3 DEF SendOpening, Stream
    <3>2. QueuesScored
      BY <1>7, <1>11, <3>1
    <3> QED
      BY <1>7, <3>1, <3>2
  <2>4. CASE RefuseConnect(v)
    <3>1. /\ stream'[v].pc = "closed" /\ \A w \in Viewer \ {v} : stream'[w] = stream[w]
          /\ UNCHANGED queue
      BY <1>7, <2>4 DEF RefuseConnect, Stream
    <3> QED
      BY <1>7, <1>8, <3>1
  <2> QED
    BY <1>14, <2>1, <2>2, <2>3, <2>4 DEF StreamRuns, StreamGoesOn
<1>15. ASSUME NEW v \in Viewer, PublishTick(v)
       PROVE  QueuesScored /\ RelaysScored
  <2>1. post[v].at \in Process /\ post[v].q \in Question /\ post[v].n \in Nat
    BY <1>15 DEF PublishTick, PostAt, RunsSomewhere, TypeOK, Post
  <2>2. Tick(post[v].q, post[v].n) \in Message /\ Ok(Tick(post[v].q, post[v].n))
    BY <2>1, TickType
  <2> QED
    BY <1>12, <1>15, <2>1, <2>2 DEF PublishTick
<1>16. ASSUME NEW p \in Process, Receive(p)
       PROVE  QueuesScored /\ RelaysScored
  <2>1. relay[p] \in Seq(Message) /\ relay[p] # <<>>
    BY <1>16 DEF Receive, TypeOK
  <2>2. /\ Head(relay[p]) \in Message /\ Ok(Head(relay[p]))
        /\ \A m \in Range(Tail(relay[p])) : Ok(m)
    BY <1>7, <2>1, RangeTail
  <2>3. QueuesScored
    BY <1>11, <1>16, <2>2 DEF Receive
  <2>4. RelaysScored
    BY <1>7, <1>16, <2>2 DEF Receive, TypeOK
  <2> QED
    BY <2>3, <2>4
<1>17. ASSUME NEW v \in Viewer, Deliver(v)
       PROVE  QueuesScored /\ ViewsScored
  <2>1. queue[v] \in Seq(Message) /\ queue[v] # <<>>
    BY <1>17 DEF Deliver, TypeOK
  <2>2. /\ Head(queue[v]) \in Message /\ Ok(Head(queue[v]))
        /\ \A m \in Range(Tail(queue[v])) : Ok(m)
    BY <1>7, <2>1, RangeTail
  <2>3. Ok(Merge(view[v], Head(queue[v])))
    BY <1>7, <1>9, <2>2, MergeScored, MergeType
  <2>4. /\ view' = [view EXCEPT ![v] = Merge(view[v], Head(queue[v]))]
        /\ queue' = [queue EXCEPT ![v] = Tail(queue[v])]
    BY <1>17 DEF Deliver
  <2>5. QueuesScored
    BY <1>7, <2>2, <2>4 DEF TypeOK
  <2>6. ViewsScored
    BY <1>7, <2>3, <2>4 DEF TypeOK
  <2> QED
    BY <2>5, <2>6
<1>18. ASSUME Trouble
       PROVE  HostsScored /\ StreamsScored /\ QueuesScored /\ RelaysScored
  <2>1. ASSUME NEW v \in Viewer, Drop(v) \/ LosePost(v)
        PROVE  HostsScored /\ StreamsScored /\ QueuesScored /\ RelaysScored
    <3> HIDE DEF Ok
    <3>1. CASE Drop(v)
      <4>1. /\ stream' = [stream EXCEPT ![v] = StreamOff]
            /\ queue' = [queue EXCEPT ![v] = <<>>]
            /\ UNCHANGED <<host, relay>>
        BY <3>1 DEF Drop
      <4>2. StreamsScored
        BY <1>7, <4>1
      <4>3. QueuesScored
        BY <1>7, <4>1, RangeEmpty DEF TypeOK
      <4> QED
        BY <1>8, <4>1, <4>2, <4>3
    <3>2. CASE LosePost(v)
      BY <1>8, <3>2 DEF LosePost
    <3> QED
      BY <2>1, <3>1, <3>2
  <2>2. ASSUME NEW p \in Process, Crash(p)
        PROVE  HostsScored /\ StreamsScored /\ QueuesScored /\ RelaysScored
    BY <1>7, <2>2, RangeEmpty DEF Crash, TypeOK
  <2>3. ASSUME NEW p \in Process, LoseRelay(p)
        PROVE  HostsScored /\ StreamsScored /\ QueuesScored /\ RelaysScored
    <3>1. \A m \in Range(Tail(relay[p])) : Ok(m)
      BY <1>7, <2>3, RangeTail DEF LoseRelay, TypeOK
    <3>2. queue' = queue
      BY <2>3, ConnectedType, LoseType DEF LoseRelay
    <3> QED
      BY <1>7, <1>8, <2>3, <3>1, <3>2 DEF LoseRelay, TypeOK
  <2>4. ASSUME NEW r \in Host, FailBroadcast(r)
        PROVE  HostsScored /\ StreamsScored /\ QueuesScored /\ RelaysScored
    <3>1. queue' = queue
      BY <2>4, ConnectedType, LoseType DEF FailBroadcast
    <3> QED
      BY <1>7, <1>8, <2>4, <3>1 DEF FailBroadcast
  <2>5. ASSUME NEW v \in Viewer, FailTick(v) \/ LoseInsert(v)
        PROVE  HostsScored /\ StreamsScored /\ QueuesScored /\ RelaysScored
    <3>1. UNCHANGED <<queue, host, stream, relay>>
      BY <2>5, ConnectedType, LoseType DEF FailTick, LoseInsert
    <3> QED
      BY <1>8, <3>1
  <2>6. ASSUME NEW v \in Viewer, FailOpening(v)
        PROVE  HostsScored /\ StreamsScored /\ QueuesScored /\ RelaysScored
    <3>1. queue' = queue /\ UNCHANGED <<host, relay>>
      BY <2>6, LoseType DEF FailOpening
    <3>2. stream'[v].pc = "open" /\ \A w \in Viewer \ {v} : stream'[w] = stream[w]
      BY <1>7, <2>6 DEF FailOpening, Stream
    <3>3. StreamsScored
      BY <1>7, <3>2
    <3> QED
      BY <1>8, <3>1, <3>3
  <2> QED
    BY <1>18, <2>1, <2>2, <2>3, <2>4, <2>5, <2>6 DEF Trouble
<1> HIDE DEF HostsScored, StreamsScored, ViewsScored, QueuesScored, RelaysScored
<1> QED
  BY <1>8, <1>13, <1>14, <1>15, <1>16, <1>17, <1>18, Carriers, CarriersLeave

-----------------------------------------------------------------------------
(* The count *)

\* The last of what is on its way to v, after one more message has been sent.
LEMMA LastSent ==
    ASSUME TypeOK, NEW vs, NEW us, NEW m \in Message, Send(vs, us, m), NEW v \in Viewer, v \in vs
    PROVE  /\ queue'[v] # <<>> /\ queue'[v][Len(queue'[v])] = m
           /\ v \notin outdated' => UpToDate(m)
<1>1. queue[v] \in Seq(Message) /\ queue'[v] = Append(queue[v], m)
  BY DEF TypeOK, Send
<1>2. /\ Append(queue[v], m) # <<>> /\ Len(Append(queue[v], m)) = Len(queue[v]) + 1
      /\ Append(queue[v], m)[Len(queue[v]) + 1] = m
  BY <1>1
<1>3. v \notin outdated' => UpToDate(m)
  BY DEF Send
<1> QED
  BY <1>1, <1>2, <1>3

\* What is up to date when it is sent settles the count of whoever it is sent to.
LEMMA SendSettles ==
    ASSUME TypeOK, PastInOrder, SoundEverywhere, "collided" \notin flags,
           NEW vs, NEW us, NEW m \in Message, Send(vs, us, m), NEW v \in Viewer, v \in vs,
           v \notin outdated', UNCHANGED <<row, answers, view>>
    PROVE  Settled(v)'
<1>1. /\ queue'[v] # <<>> /\ queue'[v][Len(queue'[v])] = m
      /\ m.count = CountOf(row.q) /\ (m.status # NoStatus => m.rev = row.rev)
  BY LastSent DEF UpToDate
<1>2. CountOf(row.q)' = CountOf(row.q)
  BY DEF CountOf, Answered
<1>3. view[v].rev <= row.rev /\ view'[v] = view[v]
  BY NoneNewer DEF TypeOK, SoundEverywhere
<1>4. Range(queue'[v]) = Range(queue[v]) \cup {m}
  BY SendType
<1>5. ASSUME NEW x \in Range(queue[v]) PROVE x.rev <= row.rev
  BY <1>5, RangeIn, NoneNewer DEF TypeOK, SoundEverywhere
<1>6. row.rev <= row.rev
  BY DEF TypeOK, Row, Rev
<1> QED
  BY <1>1, <1>2, <1>3, <1>4, <1>5, <1>6 DEF Settled

\* A publication settles the count of an open stream, or is on its way to it.
LEMMA PublishSettles ==
    ASSUME TypeOK, PastInOrder, SoundEverywhere, "collided" \notin flags,
           NEW p \in Process, NEW m \in Message, Publish(p, m), NEW v \in Viewer,
           stream[v].at \in Process, UNCHANGED <<row, answers, view, stream>>,
           v \notin outdated'
    PROVE  PendingFor(v)' \/ Settled(v)'
<1> DEFINE unreached == {w \in Connected : stream[w].at \notin {p} \cup Hearing(p)}
<1>1. CASE stream[v].at = p
  <2>1. v \in Listening(p) /\ Send(Listening(p), unreached, m)
    BY <1>1 DEF Listening, Publish
  <2> QED
    BY <2>1, SendSettles
<1>2. CASE stream[v].at # p
  <2>1. stream[v].at \in Hearing(p)
    <3>1. v \notin unreached
      BY DEF Publish, Send
    <3> QED
      BY <1>2, <3>1 DEF Connected
  <2>2. relay'[stream[v].at] = Append(relay[stream[v].at], m)
    BY <2>1 DEF Publish
  <2>3. Append(relay[stream[v].at], m) # <<>>
    <3>1. relay[stream[v].at] \in Seq(Message)
      BY DEF TypeOK
    <3> QED
      BY <3>1
  <2> QED
    BY <2>2, <2>3 DEF PendingFor
<1> QED
  BY <1>1, <1>2

\* A delivery leaves the last that is on its way in its place.
LEMMA DeliverSettles ==
    ASSUME TypeOK, NEW v \in Viewer, Deliver(v), Settled(v)
    PROVE  Settled(v)'
<1> DEFINE s == queue[v]
           n == Len(s)
           last == s[n]
           head == Head(s)
           rest == Tail(s)
<1>1. s \in Seq(Message) /\ s # <<>> /\ view[v] \in Message
  BY DEF Deliver, TypeOK
<1>2. /\ head \in Message /\ rest \in Seq(Message) /\ n \in Nat \ {0}
      /\ Len(rest) = n - 1 /\ head = s[1]
      /\ \A i \in 1..(n - 1) : rest[i] = s[i + 1]
  BY <1>1, EmptySeq, HeadTailProperties
<1>3. Range(s) = {head} \cup Range(rest)
  BY <1>1, RangeTail
<1>4. view'[v] = Merge(view[v], head) /\ queue'[v] = rest
      /\ UNCHANGED <<row, answers>>
  BY DEF Deliver, db, TypeOK
<1>5. CountOf(row.q)' = CountOf(row.q)
  BY <1>4 DEF CountOf, Answered
<1>6. /\ last.count = CountOf(row.q)
      /\ last.status # NoStatus =>
           view[v].rev <= last.rev /\ \A m \in Range(s) : m.rev <= last.rev
  BY <1>1 DEF Settled
<1> HIDE DEF s, n, last, head, rest
<1>7. CASE n = 1
  <2>1. rest = <<>>
    BY <1>2, <1>7, EmptySeq
  <2>2. last = head
    BY <1>2, <1>7 DEF last
  <2>3. Merge(view[v], head).count = head.count
    <3>1. CASE head.status = NoStatus
      BY <1>1, <1>2, <3>1, MergeType
    <3>2. CASE head.status # NoStatus
      <4>1. ~(head.rev < view[v].rev)
        <5>1. head.rev \in Int /\ view[v].rev \in Int
          BY <1>1, <1>2 DEF Message, Rev, NoRev
        <5> QED
          BY <1>6, <2>2, <3>2, <5>1
      <4> QED
        BY <1>1, <1>2, <3>2, <4>1, MergeType
    <3> QED
      BY <3>1, <3>2
  <2> QED
    BY <1>4, <1>5, <1>6, <2>1, <2>2, <2>3 DEF Settled
<1>8. CASE n # 1
  <2>1. rest # <<>> /\ rest[Len(rest)] = last
    <3>1. n - 1 \in 1..(n - 1) /\ (n - 1) + 1 = n
      BY <1>2, <1>8
    <3>2. rest # <<>>
      BY <1>2, <1>8, EmptySeq
    <3> QED
      BY <1>2, <3>1, <3>2 DEF last
  <2>2. ASSUME last.status # NoStatus
        PROVE  /\ Merge(view[v], head).rev <= last.rev
               /\ \A m \in Range(rest) : m.rev <= last.rev
    <3>1. /\ view[v].rev <= last.rev /\ head.rev <= last.rev
          /\ \A m \in Range(rest) : m.rev <= last.rev
      BY <1>3, <1>6, <2>2
    <3>2. Merge(view[v], head).rev \in {view[v].rev, head.rev}
      BY <1>1, <1>2, MergeType
    <3> QED
      BY <3>1, <3>2
  <2> QED
    BY <1>4, <1>5, <1>6, <2>1, <2>2 DEF Settled
<1> QED
  BY <1>7, <1>8

\* Where a step concerns somebody else, v stays as settled as it was.
LEMMA StaysSettled ==
    ASSUME CountsFollow, NEW v \in Viewer, stream[v].pc = "open", v \notin outdated,
           "collided" \notin flags, PendingFor(v) => PendingFor(v)',
           UNCHANGED <<row, answers, queue[v], view[v]>>
    PROVE  PendingFor(v)' \/ Settled(v)'
<1>1. PendingFor(v) \/ Settled(v)
  BY DEF CountsFollow
<1>2. CountOf(row.q)' = CountOf(row.q)
  BY DEF CountOf, Answered
<1>3. Settled(v) => Settled(v)'
  BY <1>2 DEF Settled
<1> QED
  BY <1>1, <1>3

LEMMA CountsNext ==
    ASSUME TypeOK, RunsSomewhere, PastInOrder, SoundEverywhere, CountsFollow,
           flags \subseteq flags', [Next]_vars
    PROVE  CountsFollow'
<1> SUFFICES ASSUME NEW v \in Viewer, stream'[v].pc = "open", v \notin outdated',
                    "collided" \notin flags'
             PROVE  PendingFor(v)' \/ Settled(v)'
  BY DEF CountsFollow
<1> USE DEF db, pages, wires, history
<1>1. /\ host \in [Host -> HostRequest] /\ stream \in [Viewer -> Stream]
      /\ view \in [Viewer -> Message] /\ queue \in [Viewer -> Seq(Message)]
      /\ relay \in [Process -> Seq(Message)] /\ post \in [Viewer -> Post]
  BY DEF TypeOK
<1>2. "collided" \notin flags
  OBVIOUS
\* A commit, a snapshot that is read and an answer that is recorded or counted
\* are followed by a publication.
<1>3. ASSUME NEW r \in Host, Commit(r) \/ ReadRow(r) \/ ReadRest(r)
      PROVE  PendingFor(v)'
  <2>1. host'[r].pc \in {"readRow", "readRest", "publish"}
    <3>1. CASE ReadRest(r)
      BY <3>1, ReadRestEffect
    <3>2. CASE Commit(r)
      <4>1. host' = [host EXCEPT ![r].pc = "readRow"]
        BY <3>2 DEF Commit, HostStep
      <4> QED
        BY <1>1, <4>1 DEF HostRequest
    <3>3. CASE ReadRow(r)
      <4>1. host' = [host EXCEPT ![r] = [@ EXCEPT !.pc = "readRest", !.msg = RowRead]]
        BY <3>3 DEF ReadRow
      <4> QED
        BY <1>1, <4>1 DEF HostRequest
    <3> QED
      BY <1>3, <3>1, <3>2, <3>3
  <2> QED
    BY <2>1, Zenon DEF PendingFor
<1>4. ASSUME NEW w \in Viewer, InsertAnswer(w) \/ CountAnswers(w)
      PROVE  PendingFor(v)'
  <2>1. post'[w].pc \in {"count", "publish"}
    <3>1. CASE InsertAnswer(w)
      <4>1. post' = [post EXCEPT ![w].pc = "count"]
        BY <3>1 DEF InsertAnswer, PostStep
      <4> QED
        BY <1>1, <4>1 DEF Post
    <3>2. CASE CountAnswers(w)
      <4>1. post' = [post EXCEPT ![w] = [@ EXCEPT !.pc = "publish", !.n = CountOf(post[w].q)]]
        BY <3>2 DEF CountAnswers
      <4> QED
        BY <1>1, <4>1 DEF Post
    <3> QED
      BY <1>4, <3>1, <3>2
  <2> QED
    BY <2>1, Zenon DEF PendingFor
\* The rest of a host's request.
<1>5. ASSUME NEW r \in Host, HostAsks(r) \/ Stamp(r)
      PROVE  PendingFor(v)' \/ Settled(v)'
  <2>1. /\ host[r].pc \notin {"readRow", "readRest", "publish"}
        /\ \A d \in Host \ {r} : host'[d] = host[d]
        /\ UNCHANGED <<row, answers, queue, view, stream, relay, post, outdated>>
    BY <1>1, <1>5 DEF HostAsks, NextQuestion, RevealQuestion, EndSession, Ask, HostAt, Stamp
  <2>2. PendingFor(v) => PendingFor(v)'
    BY <2>1 DEF PendingFor
  <2> QED
    BY <1>2, <2>1, <2>2, StaysSettled
<1>6. ASSUME NEW r \in Host, PublishState(r)
      PROVE  PendingFor(v)' \/ Settled(v)'
  <2>1. /\ host[r].at \in Process /\ host[r].msg \in Message
        /\ Publish(host[r].at, host[r].msg)
        /\ UNCHANGED <<row, answers, view, stream>>
    BY <1>1, <1>6 DEF PublishState, HostAt, RunsSomewhere, HostRequest
  <2>2. stream[v].at \in Process
    BY <2>1 DEF RunsSomewhere
  <2> QED
    BY <1>2, <2>1, <2>2, PublishSettles
<1>7. ASSUME NEW w \in Viewer, PublishTick(w)
      PROVE  PendingFor(v)' \/ Settled(v)'
  <2>1. post[w].at \in Process /\ post[w].q \in Question /\ post[w].n \in Nat
    BY <1>7 DEF PublishTick, PostAt, RunsSomewhere, TypeOK, Post
  <2>2. /\ Tick(post[w].q, post[w].n) \in Message
        /\ Publish(post[w].at, Tick(post[w].q, post[w].n))
        /\ UNCHANGED <<row, answers, view, stream>>
    BY <1>7, <2>1, TickType DEF PublishTick
  <2>3. stream[v].at \in Process
    BY <2>2 DEF RunsSomewhere
  <2> QED
    BY <1>2, <2>1, <2>2, <2>3, PublishSettles
<1>8. ASSUME NEW w \in Viewer, StreamRuns(w)
      PROVE  PendingFor(v)' \/ Settled(v)'
  <2>1. CASE w # v
    <3>1. /\ UNCHANGED <<row, answers, queue[v], view[v], stream[v], relay, host, post>>
          /\ v \notin outdated
      BY <1>1, <1>8, <2>1
      DEF StreamRuns, StreamGoesOn, Connect, RefuseConnect, ReadOpeningRow, ReadOpeningRest, SendOpening, Send
    <3>2. PendingFor(v) => PendingFor(v)'
      BY <3>1 DEF PendingFor
    <3> QED
      BY <1>2, <3>1, <3>2, StaysSettled
  <2>2. CASE SendOpening(v)
    <3>1. /\ stream[v].msg \in Message /\ Send({v}, {}, stream[v].msg)
          /\ UNCHANGED <<row, answers, view>>
      BY <1>1, <2>2 DEF SendOpening, Stream
    <3> QED
      BY <1>2, <3>1, SendSettles
  <2>3. CASE ReadOpeningRest(v) \/ ReadOpeningRow(v) \/ \E p \in Process : Connect(v, p)
    <3>1. stream'[v].pc \in {"row", "rest", "send"}
      BY <2>3, StreamBegins, ReadOpeningRestEffect
    <3> QED
      BY <3>1
  <2>4. ~RefuseConnect(v)
    BY <1>1 DEF RefuseConnect, Stream
  <2> QED
    BY <1>8, <2>1, <2>2, <2>3, <2>4 DEF StreamRuns, StreamGoesOn
\* An answer before it is recorded.
<1>9. ASSUME NEW w \in Viewer,
             \/ Submit(w) \/ RefuseAnswer(w) \/ LosePost(w)
             \/ \E p \in Process : CheckAnswer(w, p)
      PROVE  PendingFor(v)' \/ Settled(v)'
  <2>1. /\ post[w].pc \notin {"count", "publish"}
        /\ \A x \in Viewer \ {w} : post'[x] = post[x]
        /\ UNCHANGED <<row, answers, queue, view, stream, relay, host, outdated>>
    BY <1>1, <1>9 DEF Submit, RefuseAnswer, LosePost, CheckAnswer, PostAt
  <2>2. PendingFor(v) => PendingFor(v)'
    BY <2>1 DEF PendingFor
  <2> QED
    BY <1>2, <2>1, <2>2, StaysSettled
<1>10. ASSUME NEW p \in Process, Receive(p)
       PROVE  PendingFor(v)' \/ Settled(v)'
  <2>1. /\ relay[p] \in Seq(Message) /\ relay[p] # <<>>
        /\ Send(Listening(p), {}, Head(relay[p]))
        /\ relay' = [relay EXCEPT ![p] = Tail(relay[p])]
        /\ UNCHANGED <<row, answers, view, stream, host, post>>
    BY <1>1, <1>10 DEF Receive
  <2>2. Head(relay[p]) \in Message
    BY <2>1, RangeTail
  <2>3. CASE v \in Listening(p)
    BY <1>2, <2>1, <2>2, <2>3, SendSettles
  <2>4. CASE v \notin Listening(p)
    <3>1. stream[v].at \in Process /\ stream[v].at # p
      BY <2>1, <2>4 DEF Listening, RunsSomewhere
    <3>2. relay'[stream[v].at] = relay[stream[v].at]
      BY <1>1, <2>1, <3>1
    <3>3. queue'[v] = queue[v] /\ v \notin outdated
      BY <1>1, <2>1, <2>4 DEF Send
    <3>4. PendingFor(v) => PendingFor(v)'
      BY <2>1, <3>2 DEF PendingFor
    <3> QED
      BY <1>2, <2>1, <3>3, <3>4, StaysSettled
  <2> QED
    BY <2>3, <2>4
<1>11. ASSUME NEW w \in Viewer, Deliver(w)
       PROVE  PendingFor(v)' \/ Settled(v)'
  <2>1. /\ UNCHANGED <<row, answers, stream, host, post, relay, outdated>>
        /\ \A x \in Viewer \ {w} : view'[x] = view[x] /\ queue'[x] = queue[x]
    BY <1>1, <1>11 DEF Deliver
  <2>2. PendingFor(v) => PendingFor(v)'
    BY <2>1 DEF PendingFor
  <2>3. CASE w # v
    BY <1>2, <2>1, <2>2, <2>3, StaysSettled
  <2>4. CASE w = v
    <3>1. PendingFor(v) \/ Settled(v)
      BY <1>2, <2>1 DEF CountsFollow
    <3> QED
      BY <1>11, <2>2, <2>4, <3>1, DeliverSettles
  <2> QED
    BY <2>3, <2>4
<1>12. ASSUME Trouble
       PROVE  PendingFor(v)' \/ Settled(v)'
  <2>1. ASSUME NEW w \in Viewer, Drop(w)
        PROVE  PendingFor(v)' \/ Settled(v)'
    <3>1. w # v
      BY <1>1, <2>1, IdleTypes DEF Drop
    <3>2. UNCHANGED <<row, answers, queue[v], view, stream[v], host, post, relay,
                      outdated>>
      BY <1>1, <2>1, <3>1 DEF Drop
    <3>3. PendingFor(v) => PendingFor(v)'
      BY <3>2 DEF PendingFor
    <3> QED
      BY <1>2, <3>2, <3>3, StaysSettled
  <2>2. ASSUME NEW p \in Process, Crash(p)
        PROVE  PendingFor(v)' \/ Settled(v)'
    <3>1. stream[v].at # p /\ stream'[v] = stream[v] /\ queue'[v] = queue[v]
      BY <1>1, <2>2, IdleTypes DEF Crash
    <3>2. stream[v].at \in Process
      BY <3>1 DEF RunsSomewhere
    <3>3. /\ relay'[stream[v].at] = relay[stream[v].at]
          /\ UNCHANGED <<row, answers, view>> /\ v \notin outdated
      BY <1>1, <2>2, <3>1, <3>2 DEF Crash
    <3>4. ~Unpublished(p) /\ ~Untold(p)
      BY <2>2, <3>2 DEF Crash, Connected
    <3>5. /\ \A r \in Host : host[r].pc \in {"readRow", "readRest", "publish"} => host'[r] = host[r]
          /\ \A w \in Viewer : post[w].pc \in {"count", "publish"} => post'[w] = post[w]
      BY <2>2, <3>4 DEF Crash, Unpublished, Untold
    <3>6. PendingFor(v) => PendingFor(v)'
      BY <3>1, <3>3, <3>5 DEF PendingFor
    <3> QED
      BY <1>2, <3>1, <3>3, <3>6, StaysSettled
  <2>3. ASSUME NEW p \in Process, LoseRelay(p)
        PROVE  PendingFor(v)' \/ Settled(v)'
    <3>1. /\ stream[v].at # p /\ v \notin outdated
          /\ UNCHANGED <<row, answers, queue, view, stream, host, post>>
      <4>1. /\ Lose(Listening(p), Head(relay[p]))
            /\ UNCHANGED <<row, answers, view, stream, host, post>>
        BY <2>3 DEF LoseRelay
      <4>2. queue' = queue /\ Listening(p) \subseteq outdated' /\ outdated \subseteq outdated'
        BY <4>1, ConnectedType, LoseType
      <4> QED
        BY <4>1, <4>2 DEF Listening
    <3>2. relay'[stream[v].at] = relay[stream[v].at]
      BY <1>1, <2>3, <3>1 DEF LoseRelay, RunsSomewhere
    <3>3. PendingFor(v) => PendingFor(v)'
      BY <3>1, <3>2 DEF PendingFor
    <3> QED
      BY <1>2, <3>1, <3>3, StaysSettled
  <2>4. ASSUME Lose(Connected, Blank) \/ \E m : Lose(Connected, m), stream' = stream
        PROVE  FALSE
    <3>1. Connected \subseteq outdated'
      BY <2>4, ConnectedType, LoseType
    <3> QED
      BY <2>4, <3>1 DEF Connected, RunsSomewhere
  <2>5. ASSUME NEW r \in Host, FailBroadcast(r)
        PROVE  FALSE
    BY <2>4, <2>5 DEF FailBroadcast
  <2>6. ASSUME NEW w \in Viewer, FailTick(w) \/ LoseInsert(w)
        PROVE  FALSE
    BY <2>4, <2>6 DEF FailTick, LoseInsert
  <2>7. ASSUME NEW w \in Viewer, FailOpening(w)
        PROVE  PendingFor(v)' \/ Settled(v)'
    <3>1. /\ Lose({w}, Blank) /\ UNCHANGED <<row, answers, view, host, post, relay>>
          /\ \A x \in Viewer \ {w} : stream'[x] = stream[x]
      BY <1>1, <2>7 DEF FailOpening
    <3>2. queue' = queue /\ w \in outdated' /\ outdated \subseteq outdated'
      BY <3>1, LoseType
    <3>3. stream'[v] = stream[v] /\ v \notin outdated
      BY <3>1, <3>2
    <3>4. PendingFor(v) => PendingFor(v)'
      BY <3>1, <3>3 DEF PendingFor
    <3> QED
      BY <1>2, <3>1, <3>2, <3>3, <3>4, StaysSettled
  <2> QED
    BY <1>9, <1>12, <2>1, <2>2, <2>3, <2>5, <2>6, <2>7 DEF Trouble
<1>13. ASSUME (\E p \in Process : Wire(p)) \/ UNCHANGED vars
       PROVE  PendingFor(v)' \/ Settled(v)'
  <2>1. UNCHANGED <<row, answers, queue, view, stream, host, post, relay, outdated>>
    BY <1>13 DEF Wire, vars
  <2>2. PendingFor(v) => PendingFor(v)'
    BY <2>1 DEF PendingFor
  <2> QED
    BY <1>2, <2>1, <2>2, StaysSettled
<1> QED
  BY <1>3, <1>4, <1>5, <1>6, <1>7, <1>8, <1>9, <1>10, <1>11, <1>12, <1>13
  DEF Next, HostRuns, AnswerRuns

-----------------------------------------------------------------------------
(* The theorems *)

LEMMA StreamInit == Init => StreamInv
<1> SUFFICES ASSUME Init PROVE StreamInv
  OBVIOUS
<1>1. TypeOK
  BY Initially
<1>2. RunsSomewhere /\ AnswersRecorded /\ LockedByLossOnly
  BY IdleTypes, LiveAssumption
  DEF Init, RunsSomewhere, AnswersRecorded, LockedByLossOnly, PostIdle
<1>3. PastInOrder /\ OpenBeforeReveal
  BY DEF Init, PastInOrder, OpenBeforeReveal
<1>4. SoundEverywhere
  BY BlankSound, BlankType, IdleTypes, RangeEmpty DEF Init, SoundEverywhere
<1>5. NobodyForgotten
  BY IdleTypes DEF Init, NobodyForgotten
<1> QED
  BY <1>1, <1>2, <1>3, <1>4, <1>5 DEF StreamInv

LEMMA FinalInit == Init => FinalScores /\ CountsFollow
  BY IdleTypes DEF Init, FinalScores, CountsFollow

LEMMA StreamNext == StreamInv /\ [Next]_vars => StreamInv'
<1> SUFFICES ASSUME StreamInv, [Next]_vars PROVE StreamInv'
  OBVIOUS
<1>1. TypeOK' /\ RunsSomewhere'
  BY TypeNext, RunsNext DEF StreamInv
<1>2. /\ PastInOrder' /\ OpenBeforeReveal'
      /\ past \subseteq past' /\ flags \subseteq flags'
  BY <1>1, PastNext DEF StreamInv
<1>3. SoundEverywhere'
  BY <1>2, SoundNext DEF StreamInv
<1>4. NobodyForgotten'
  BY <1>2, OwedNext DEF StreamInv
<1>5. AnswersRecorded' /\ LockedByLossOnly'
  BY LocksNext DEF StreamInv
<1> QED
  BY <1>1, <1>2, <1>3, <1>4, <1>5 DEF StreamInv

\* Everything is of its type, every snapshot that is read, sent or shown is of a
\* committed row and tells no more than that row revealed, and a snapshot of the
\* newest row is on its way to every stream that nothing was withheld from.
THEOREM Invariance == Spec => []IInv
<1>1. Init => IInv
  BY StreamInit, FinalInit DEF IInv
<1>2. IInv /\ [Next]_vars => IInv'
  <2> SUFFICES ASSUME IInv, [Next]_vars PROVE IInv'
    OBVIOUS
  <2>1. StreamInv'
    BY StreamNext DEF IInv
  <2>2. flags \subseteq flags'
    BY <2>1, PastNext DEF IInv, StreamInv
  <2>3. FinalScores' /\ CountsFollow'
    BY <2>1, <2>2, FinalNext, CountsNext DEF IInv, StreamInv
  <2> QED
    BY <2>1, <2>3 DEF IInv
<1> QED
  BY <1>1, <1>2, PTL DEF Spec

\* A page shows committed states only, and no key before it was revealed.
THEOREM CommittedOnly == Spec => []ShowsCommittedOnly
<1>1. IInv => ShowsCommittedOnly
  BY DEF IInv, StreamInv, SoundEverywhere, Sound, ShowsCommittedOnly, Committed, Disclosed, NoStatus
<1> QED
  BY <1>1, Invariance, PTL

\* A locked question was answered, or its answer came too late or got lost.
THEOREM LockedIsALoss == Spec => []LockedByLossOnly
<1>1. IInv => LockedByLossOnly
  BY DEF IInv, StreamInv
<1> QED
  BY <1>1, Invariance, PTL

\* Once all is quiet, a connected page shows where the session is, unless a
\* snapshot was lost to its stream and no newest one followed, or revisions collided.
THEOREM BehindIsALoss == Spec => []BehindByLossOnly
<1>1. ASSUME IInv, Quiet, NEW v \in Viewer, stream[v].pc = "open", ~Excused(v)
      PROVE  Shows(v)
  <2>1. Owed(v) /\ stream[v].at \in Process
    BY <1>1 DEF IInv, StreamInv, NobodyForgotten, RunsSomewhere
  <2>2. /\ queue[v] = <<>> /\ relay[stream[v].at] = <<>>
        /\ \A r \in Host : host[r].pc = "idle"
    BY <1>1, <2>1 DEF Quiet, HostAt
  <2>3. Current(view[v])
    BY <1>1, <2>1, <2>2, RangeEmpty DEF Owed, SomeCurrent, HostAt
  <2>4. view[v].rev = row.rev /\ view[v].rev # NoRev
    BY <1>1, <2>3 DEF IInv, StreamInv, Current, TypeOK, Row, Rev, NoRev
  <2>5. PICK old \in past :
          old.status = view[v].status /\ old.q = view[v].q /\ old.rev = view[v].rev
    BY <1>1, <2>4 DEF IInv, StreamInv, SoundEverywhere, Sound, Committed
  <2>6. old = row
    BY <1>1, <2>4, <2>5 DEF IInv, StreamInv, PastInOrder, Excused
  <2> QED
    BY <2>5, <2>6 DEF Shows
<1>2. IInv => BehindByLossOnly
  BY <1>1 DEF BehindByLossOnly
<1> QED
  BY <1>2, Invariance, PTL

\* The final leaderboard that a page is left with scores every answer.
THEOREM FinalBoards == Spec => []FinalBoardComplete
<1>1. ASSUME IInv, Quiet, row.status = "ended", NEW v \in Viewer,
             stream[v].pc = "open", ~Excused(v), "afterEnd" \notin flags
      PROVE  view[v].board = Cardinality(answers)
  <2>1. Owed(v) /\ stream[v].at \in Process
    BY <1>1 DEF IInv, StreamInv, NobodyForgotten, RunsSomewhere
  <2>2. Current(view[v])
    BY <1>1, <2>1, RangeEmpty DEF Quiet, Owed, SomeCurrent, HostAt
  <2>3. Scored(view[v])
    BY <1>1 DEF IInv, FinalScores, Excused
  <2> QED
    BY <2>2, <2>3 DEF Scored
<1>2. IInv => FinalBoardComplete
  BY <1>1 DEF FinalBoardComplete
<1> QED
  BY <1>2, Invariance, PTL

\* The count that a page is left with is right, unless its last message was
\* overtaken or lost, or revisions collided.
THEOREM CountsAreCrossed == Spec => []CountOffByLastMessageOnly
<1>1. ASSUME IInv, Quiet, NEW v \in Viewer, stream[v].pc = "open", v \notin outdated,
             "collided" \notin flags
      PROVE  view[v].count = CountOf(row.q)
  <2>1. PendingFor(v) \/ Settled(v)
    BY <1>1 DEF IInv, CountsFollow
  <2>2. stream[v].at \in Process
    BY <1>1 DEF IInv, StreamInv, RunsSomewhere
  <2>3. ~PendingFor(v)
    BY <1>1, <2>2 DEF Quiet, PendingFor, HostAt
  <2> QED
    BY <1>1, <2>1, <2>3 DEF Quiet, Settled
<1>2. IInv => CountOffByLastMessageOnly
  BY <1>1 DEF CountOffByLastMessageOnly
<1> QED
  BY <1>2, Invariance, PTL

\* A page that showed the key of a question does not show it open again, unless
\* the question was reopened or revisions collided.
THEOREM RevealStays == Spec => RevealStaysByRaceOnly
<1> DEFINE Stays == \A v \in Viewer :
                       /\ view[v].key
                       /\ view'[v].q = view[v].q /\ view'[v].status = "active"
                       => flags' \cap {"collided", "reopened"} # {}
<1>1. IInv /\ IInv' /\ [Next]_vars => [Stays]_vars
  <2> SUFFICES ASSUME IInv, IInv', Next, NEW v \in Viewer, view[v].key,
                      view'[v].q = view[v].q, view'[v].status = "active",
                      flags' \cap {"collided", "reopened"} = {}
               PROVE  FALSE
    OBVIOUS
  <2>1. /\ view \in [Viewer -> Message] /\ view' \in [Viewer -> Message]
        /\ queue[v] \in Seq(Message) /\ past' \subseteq Row
    BY DEF IInv, StreamInv, TypeOK
  <2>2. /\ view[v].status = "reveal" /\ view[v].q # NoQuestion
        /\ Committed(view[v])
    BY DEF IInv, StreamInv, SoundEverywhere, Sound, NoStatus
  <2>3. past \subseteq past'
    BY PastNext DEF IInv, StreamInv
  <2>4. PICK shown \in past' : /\ shown.status = "reveal" /\ shown.q = view[v].q
                              /\ shown.rev = view[v].rev
    BY <2>2, <2>3 DEF Committed
  <2>5. PICK open \in past' : /\ open.status = "active" /\ open.q = view'[v].q
                             /\ open.rev = view'[v].rev
    BY DEF IInv, StreamInv, SoundEverywhere, Sound, Committed, NoStatus
  <2>6. view'[v].rev < view[v].rev
    BY <2>2, <2>4, <2>5 DEF IInv, StreamInv, OpenBeforeReveal
  <2>7. view'[v].rev \in Int /\ view[v].rev \in Int
    BY <2>1 DEF Message, Rev, NoRev
  <2>8. ~Deliver(v)
    <3>1. SUFFICES ASSUME Deliver(v) PROVE FALSE
      OBVIOUS
    <3>2. Head(queue[v]) \in Message /\ view'[v] = Merge(view[v], Head(queue[v]))
      BY <2>1, <3>1, RangeTail DEF Deliver
    <3>3. /\ Head(queue[v]).status = NoStatus => view'[v].status = view[v].status
          /\ Head(queue[v]).status # NoStatus =>
               view'[v] = view[v] \/ ~(view'[v].rev < view[v].rev)
      BY <2>1, <3>2, MergeType
    <3> QED
      BY <2>2, <2>6, <3>3
  <2>9. view'[v] = view[v]
    BY <2>1, <2>8, ZenonT(60)
    DEF Next, HostAsks, NextQuestion, RevealQuestion, EndSession, Ask, pages,
        HostRuns, Stamp, Commit, ReadRow, ReadRest, PublishState,
        StreamRuns, StreamGoesOn, Connect, RefuseConnect, ReadOpeningRow, ReadOpeningRest, SendOpening,
        Submit, AnswerRuns, CheckAnswer, RefuseAnswer, InsertAnswer, CountAnswers,
        PublishTick, Deliver, Wire, Receive,
        Trouble, Drop, LosePost, Crash, LoseRelay, FailBroadcast,
         FailOpening, FailTick, LoseInsert
  <2> QED
    BY <2>2, <2>9
<1> QED
  BY <1>1, Invariance, PTL DEF Spec, RevealStaysByRaceOnly
=============================================================================
