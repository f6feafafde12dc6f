----------------------- MODULE AccountRecoveryProofs -----------------------
(***************************************************************************)
(* Proofs about AccountRecovery, for every number of administrators, forms, *)
(* browsers and requests, and however much trouble there is.               *)
(***************************************************************************)
EXTENDS AccountRecovery, TLAPS

-----------------------------------------------------------------------------
(* Lemmas *)

\* The initial state satisfies the invariant.
LEMMA InitInv == Init => IInv
<1> SUFFICES ASSUME Init PROVE IInv
  OBVIOUS
<1>1. PICK status \in Status : CreateUser(status)
  BY DEF Init
<1>2. account \in Account /\ known \in BOOLEAN /\ TemporaryIsFlagged
  <2>1. status \in Status \cup {"none"}
    BY <1>1
  <2>2. ASSUME NEW p \in {First, Kept, NoPassword}, NEW must \in BOOLEAN, p = First => must,
               account = [status |-> status, password |-> p, mustChange |-> must]
        PROVE  account \in Account /\ TemporaryIsFlagged
    BY <2>1, <2>2, RecoveryAssumption DEF Account, Password, TemporaryIsFlagged
  <2>3. ASSUME account = [status |-> status, password |-> NoPassword, mustChange |-> FALSE]
        PROVE  account \in Account /\ TemporaryIsFlagged
    BY <2>2, <2>3, RecoveryAssumption
  <2>4. ASSUME account = [status |-> status, password |-> First, mustChange |-> TRUE]
        PROVE  account \in Account /\ TemporaryIsFlagged
    BY <2>2, <2>4
  <2>5. ASSUME account = [status |-> status, password |-> Kept, mustChange |-> FALSE]
        PROVE  account \in Account /\ TemporaryIsFlagged
    BY <2>2, <2>5, RecoveryAssumption
  <2>6. known \in BOOLEAN
    BY <1>1 DEF CreateUser
  <2> QED
    BY <1>1, <2>3, <2>4, <2>5, <2>6 DEF CreateUser
<1>3. TypeOK
  BY <1>2, RecoveryAssumption
  DEF Init, TypeOK, TicketRow, TicketStatus, AdminRequest, Resting, Session, SignedOut, NoTicket
<1>4. OneOpenTicket /\ HeldWhileAssigned
  BY DEF Init, OneOpenTicket, HeldWhileAssigned, Open, OpenStatuses
<1>5. AdminsHold /\ TabsHold
  BY DEF Init, AdminsHold, TabsHold, Resting, SignedOut
<1> QED
  BY <1>2, <1>3, <1>4, <1>5 DEF IInv

\* A new password is one of the generated ones that are not in use.
LEMMA NewPasswordIsGenerated ==
    ASSUME NEW q \in Generated, Fresh(q)
    PROVE  NewPassword \in Generated /\ Fresh(NewPassword)
  BY DEF NewPassword

\* What an administrator may go on as without a write.
GoodRequest(then) ==
    /\ then \in AdminRequest
    /\ then.pc \in {"assign", "take", "resolve"} => then.ticket # NoTicket
    /\ then.pc \in {"resolve", "deliver"} => then.password \in Generated
    /\ then.pc \in {"assign", "take"} => Open(then.ticket)

\* A step of one administrator that writes neither a request of the queue nor
\* the password.
LEMMA AdminMoves ==
    ASSUME IInv, NEW a \in Admin, NEW then, GoodRequest(then), Goes(a, then),
           known' = known \/ known' = TRUE,
           trouble' \in 0..MaxTrouble,
           stale' = stale \/ stale' = stale \ {a},
           UNCHANGED <<account, ticket, form, tab>>
    PROVE  IInv'
<1> USE DEF IInv, GoodRequest
<1>1. /\ admin'[a] = then
      /\ \A d \in Admin \ {a} : admin'[d] = admin[d]
      /\ admin' \in [Admin -> AdminRequest]
  BY DEF Goes, TypeOK
<1>2. stale' \subseteq stale
  OBVIOUS
<1>3. TypeOK'
  BY <1>1, <1>2 DEF TypeOK
<1>4. OneOpenTicket' /\ HeldWhileAssigned' /\ TemporaryIsFlagged'
  BY DEF OneOpenTicket, HeldWhileAssigned, TemporaryIsFlagged, Open
<1>5. AdminsHold'
  BY <1>1, <1>2 DEF AdminsHold, Open
<1>6. TabsHold'
  BY RecoveryAssumption DEF TabsHold
<1> QED
  BY <1>3, <1>4, <1>5, <1>6

\* A step of one browser that does not write the password.
LEMMA TabMoves ==
    ASSUME IInv, NEW b \in Tab, NEW then \in Session, Browser(b, then),
           ~then.in => then.pc = "idle",
           then.pc = "write" => known,
           trouble' \in 0..MaxTrouble,
           stale' = stale \/ stale' = stale \ {b},
           UNCHANGED <<account, ticket, admin, form, known>>
    PROVE  IInv'
<1> USE DEF IInv
<1>1. /\ tab'[b] = then
      /\ \A c \in Tab \ {b} : tab'[c] = tab[c]
      /\ tab' \in [Tab -> Session]
  BY DEF Browser, TypeOK
<1>2. TypeOK'
  BY <1>1 DEF TypeOK
<1>3. OneOpenTicket' /\ HeldWhileAssigned' /\ TemporaryIsFlagged'
  BY DEF OneOpenTicket, HeldWhileAssigned, TemporaryIsFlagged, Open
<1>4. AdminsHold'
  BY RecoveryAssumption DEF AdminsHold, Open
<1>5. TabsHold'
  BY <1>1 DEF TabsHold
<1> QED
  BY <1>2, <1>3, <1>4, <1>5

\* A step that moves neither administrators nor browsers, nor writes the queue.
LEMMA NobodyMoves ==
    ASSUME IInv, UNCHANGED <<ticket, admin, tab, stale>>,
           account' \in Account,
           \/ /\ account'.password = account.password
              /\ account'.mustChange = account.mustChange
           \/ account'.password = NoPassword,
           form' \in [Form -> {"idle", "insert"}], known' \in BOOLEAN,
           known => (known' \/ \A b \in Tab : tab[b].pc # "write"),
           trouble' \in 0..MaxTrouble
    PROVE  IInv'
<1> USE DEF IInv
<1>1. TypeOK'
  BY DEF TypeOK
<1>2. OneOpenTicket' /\ HeldWhileAssigned'
  BY DEF OneOpenTicket, HeldWhileAssigned, Open
<1>3. TemporaryIsFlagged'
  BY RecoveryAssumption DEF TemporaryIsFlagged
<1>4. AdminsHold' /\ TabsHold'
  BY DEF AdminsHold, TabsHold, Open
<1> QED
  BY <1>1, <1>2, <1>3, <1>4

\* A write of a request of the queue, by the administrator a or by nobody, who
\* goes on as `then': it closes the request, or the index lets it be open, and
\* overtakes all others who have read it.
LEMMA TicketWritten ==
    ASSUME IInv, NEW a \in Admin \cup {Nobody}, NEW t \in Ticket, NEW row \in TicketRow,
           WriteTicket(a, t, row),
           row.status \in OpenStatuses => IndexAllows(t),
           row.status = "assigned" <=> row.holder # Nobody,
           admin' \in [Admin -> AdminRequest],
           \A d \in Admin \ {a} : admin'[d] = admin[d],
           a \in Admin => /\ admin'[a].pc \in {"idle", "reset", "deliver"}
                          /\ admin'[a].pc = "deliver" => admin'[a].password \in Generated,
           form' \in [Form -> {"idle", "insert"}],
           trouble' \in 0..MaxTrouble,
           UNCHANGED <<account, tab, known>>
    PROVE  IInv'
<1> USE DEF IInv
<1>1. /\ ticket'[t] = row
      /\ \A u \in Ticket \ {t} : ticket'[u] = ticket[u]
      /\ ticket' \in [Ticket -> TicketRow]
  BY DEF WriteTicket, TypeOK
<1>2. TypeOK'
  BY <1>1 DEF TypeOK, WriteTicket
<1>3. OneOpenTicket'
  BY <1>1 DEF OneOpenTicket, Open, IndexAllows
<1>4. HeldWhileAssigned' /\ TemporaryIsFlagged'
  BY <1>1 DEF HeldWhileAssigned, TemporaryIsFlagged
<1>5. AdminsHold'
  <2> SUFFICES ASSUME NEW d \in Admin
               PROVE  /\ admin'[d].pc \in {"assign", "take", "resolve"} => admin'[d].ticket # NoTicket
                      /\ admin'[d].pc \in {"resolve", "deliver"} => admin'[d].password \in Generated
                      /\ admin'[d].pc \in {"assign", "take"} /\ d \notin stale'
                           => ticket'[admin'[d].ticket].status \in OpenStatuses
    BY DEF AdminsHold, Open
  <2>1. CASE d = a
    BY <2>1
  <2>2. CASE d # a
    <3>1. admin'[d] = admin[d] /\ admin[d].ticket \in Ticket \cup {NoTicket}
      BY <2>2 DEF TypeOK, AdminRequest
    <3>2. admin[d].pc \in {"assign", "take"} /\ d \notin stale' => admin[d].ticket # t /\ d \notin stale
      BY <2>2 DEF WriteTicket
    <3> QED
      BY <1>1, <3>1, <3>2 DEF AdminsHold, Open
  <2> QED
    BY <2>1, <2>2
<1>6. TabsHold'
  BY RecoveryAssumption DEF TabsHold, WriteTicket
<1> QED
  BY <1>2, <1>3, <1>4, <1>5, <1>6

\* A write of the password by `by' (an administrator's is Nobody's): one that an
\* administrator has set is to be changed, and all others who change it are overtaken.
LEMMA PasswordWritten ==
    ASSUME IInv, NEW by \in Tab \cup {Nobody}, NEW p \in Password, NEW must \in BOOLEAN,
           WritePassword(by, p, must), p \in Generated \cup {First} => must,
           known' \in BOOLEAN, UNCHANGED <<ticket, form, trouble>>,
           admin' \in [Admin -> AdminRequest],
           \A d \in Admin : admin'[d] = admin[d]
             \/ /\ admin'[d].pc \in {"resolve", "deliver"}
                /\ admin'[d].pc = "resolve" => admin'[d].ticket # NoTicket
                /\ admin'[d].password \in Generated,
           tab' \in [Tab -> Session], \A b \in Tab \ {by} : tab'[b] = tab[b],
           by \in Tab => tab'[by].pc = "refresh" /\ tab'[by].in
    PROVE  IInv'
<1> USE DEF IInv
<1>1. account' \in Account /\ account'.password = p /\ account'.mustChange = must
  BY DEF WritePassword, TypeOK, Account
<1>2. TypeOK'
  BY <1>1 DEF TypeOK, WritePassword
<1>3. OneOpenTicket' /\ HeldWhileAssigned' /\ TemporaryIsFlagged'
  BY <1>1 DEF OneOpenTicket, HeldWhileAssigned, TemporaryIsFlagged, Open
<1>4. AdminsHold'
  <2>1. \A d \in Admin : d \notin stale' => d \notin stale
    BY RecoveryAssumption DEF WritePassword
  <2> QED
    BY <2>1 DEF AdminsHold, Open
<1>5. TabsHold'
  BY RecoveryAssumption DEF TabsHold, WritePassword
<1> QED
  BY <1>2, <1>3, <1>4, <1>5

-----------------------------------------------------------------------------
(* Every step keeps the invariant. *)

LEMMA FormStep ==
    ASSUME IInv, NEW f \in Form, Ask(f) \/ AskForNothing(f) \/ InsertTicket(f)
    PROVE  IInv'
<1>1. TypeOK
  BY DEF IInv
<1>2. CASE Ask(f) \/ AskForNothing(f)
  <2>1. trouble' \in 0..MaxTrouble
    BY <1>1, <1>2, RecoveryAssumption DEF Ask, AskForNothing, Unneeded, TypeOK
  <2>2. SubmitForgot(f)
    BY <1>2 DEF Ask, AskForNothing
  <2> QED
    BY <1>1, <2>1, <2>2, NobodyMoves DEF SubmitForgot, TypeOK
<1>3. CASE InsertTicket(f)
  <2>1. form' \in [Form -> {"idle", "insert"}]
    BY <1>1, <1>3 DEF InsertTicket, TypeOK
  <2>2. CASE UNCHANGED <<ticket, stale>>
    BY <1>1, <1>3, <2>1, <2>2, NobodyMoves DEF InsertTicket, TypeOK
  <2>3. CASE ~UNCHANGED <<ticket, stale>>
    <3> DEFINE row == [status |-> "open", holder |-> Nobody]
    <3>1. PICK t \in Ticket : IndexAllows(t) /\ WriteTicket(Nobody, t, row)
      BY <1>3, <2>3 DEF InsertTicket
    <3>2. row \in TicketRow
      BY DEF TicketRow, TicketStatus, OpenStatuses
    <3> HIDE DEF row
    <3>3. row.status # "assigned" /\ row.holder = Nobody
      BY DEF row
    <3> QED
      BY <1>1, <1>3, <2>1, <3>1, <3>2, <3>3, TicketWritten, RecoveryAssumption
      DEF InsertTicket, TypeOK
  <2> QED
    BY <2>2, <2>3
<1> QED
  BY <1>2, <1>3

LEMMA QueueStep ==
    ASSUME IInv, NEW t \in Ticket, ResolveNotification(t)
    PROVE  IInv'
<1> DEFINE row == [status |-> "closed", holder |-> Nobody]
<1>1. row \in TicketRow
  BY DEF TicketRow, TicketStatus, OpenStatuses
<1>2. row.status = "closed" /\ row.holder = Nobody
  OBVIOUS
<1>3. WriteTicket(Nobody, t, row)
  BY DEF ResolveNotification
<1> HIDE DEF row
<1> QED
  BY <1>1, <1>2, <1>3, TicketWritten, RecoveryAssumption
  DEF ResolveNotification, Unneeded, IInv, TypeOK, OpenStatuses

LEMMA AccountStep ==
    ASSUME IInv, (\E status \in Status : SetUserStatus(status)) \/ DeleteUser \/ Forget
    PROVE  IInv'
<1>1. TypeOK /\ account \in Account
  BY DEF IInv, TypeOK
<1>2. trouble' \in 0..MaxTrouble
  BY <1>1, RecoveryAssumption DEF SetUserStatus, DeleteUser, Forget, Unneeded, TypeOK
<1>3. CASE \E status \in Status : SetUserStatus(status)
  BY <1>1, <1>2, <1>3, NobodyMoves DEF SetUserStatus, Account, TypeOK
<1>4. CASE DeleteUser
  BY <1>1, <1>2, <1>4, NobodyMoves DEF DeleteUser, NoAccount, Account, Password, TypeOK
<1>5. CASE Forget
  BY <1>1, <1>2, <1>5, NobodyMoves DEF Forget, TypeOK
<1> QED
  BY <1>3, <1>4, <1>5

LEMMA AdminRequestStep ==
    ASSUME IInv, NEW a \in Admin, NEW t \in Ticket,
           AssignNotification(a, t) \/ Fulfil(a, t) \/ TakeOver(a, t)
    PROVE  IInv'
<1>1. TypeOK /\ Open(t) /\ t # NoTicket
  BY RecoveryAssumption
  DEF IInv, AssignNotification, Fulfil, TakeOver, FulfilResetRequest, Ticket, NoTicket
<1>2. trouble' \in 0..MaxTrouble
  BY <1>1, RecoveryAssumption DEF AssignNotification, Fulfil, TakeOver, Unneeded, TypeOK
<1>3. CASE AssignNotification(a, t)
  <2> DEFINE then == [Resting EXCEPT !.pc = "assign", !.ticket = t]
  <2>1. then \in AdminRequest /\ then.pc = "assign" /\ then.ticket = t
    BY DEF Resting, AdminRequest
  <2>2. Goes(a, then)
    BY <1>3 DEF AssignNotification
  <2> HIDE DEF then
  <2>3. /\ UNCHANGED <<account, ticket, form, tab>> /\ stale' = stale \ {a}
        /\ known' = known
    BY <1>1, <1>3 DEF AssignNotification, TypeOK
  <2>4. GoodRequest(then)
    BY <1>1, <2>1 DEF GoodRequest
  <2> QED
    BY <1>2, <2>2, <2>3, <2>4, AdminMoves
<1>4. CASE FulfilResetRequest(a, t)
  <2> DEFINE then == [Resting EXCEPT !.pc = IF ticket[t].holder = a THEN "reset" ELSE "take",
                                     !.ticket = t]
  <2>1. then \in AdminRequest /\ then.pc \in {"reset", "take"} /\ then.ticket = t
    BY DEF Resting, AdminRequest
  <2>2. Goes(a, then)
    BY <1>4 DEF FulfilResetRequest
  <2> HIDE DEF then
  <2>3. /\ UNCHANGED <<account, ticket, form, tab>> /\ stale' = stale \ {a}
        /\ known' = known
    BY <1>1, <1>4 DEF FulfilResetRequest, TypeOK
  <2>4. GoodRequest(then)
    BY <1>1, <2>1 DEF GoodRequest
  <2> QED
    BY <1>2, <2>2, <2>3, <2>4, AdminMoves
<1> QED
  BY <1>3, <1>4 DEF Fulfil, TakeOver

LEMMA AdminWorks ==
    ASSUME IInv, NEW a \in Admin,
           ForcePasswordReset(a) \/ Deliver(a) \/ FailAdmin(a)
    PROVE  IInv'
<1>1. TypeOK
  BY DEF IInv
<1>2. trouble' \in 0..MaxTrouble
  BY <1>1, RecoveryAssumption DEF ForcePasswordReset, Deliver, FailAdmin, Unneeded, TypeOK
<1>3. /\ UNCHANGED <<account, ticket, form, tab>> /\ stale' = stale
      /\ known' = known \/ known' = TRUE
  BY <1>1 DEF ForcePasswordReset, Deliver, FailAdmin, TypeOK
<1> DEFINE resting == Resting
           resetting == [Resting EXCEPT !.pc = "reset"]
<1>4. GoodRequest(resting) /\ GoodRequest(resetting)
  BY DEF GoodRequest, Resting, AdminRequest
<1>5. Goes(a, resting) \/ Goes(a, resetting)
  BY DEF ForcePasswordReset, Deliver, FailAdmin
<1> HIDE DEF resting, resetting
<1> QED
  BY <1>2, <1>3, <1>4, <1>5, AdminMoves

LEMMA TakeTicketStep ==
    ASSUME IInv, NEW a \in Admin, TakeTicket(a) PROVE IInv'
<1>1. TypeOK /\ admin[a].ticket \in Ticket
  BY DEF IInv, TypeOK, AdminsHold, TakeTicket, AdminRequest
<1>2. trouble' \in 0..MaxTrouble /\ UNCHANGED <<account, form, tab, known>>
  BY <1>1 DEF TakeTicket, TypeOK
<1> DEFINE row == [status |-> "assigned", holder |-> a]
           then == IF At(a, "take") THEN [admin[a] EXCEPT !.pc = "reset"] ELSE Resting
<1>3. CASE ~IndexAllows(admin[a].ticket)
  <2>1. UNCHANGED <<ticket, stale>> /\ Goes(a, Resting)
    BY <1>3 DEF TakeTicket
  <2>2. GoodRequest(Resting)
    BY DEF GoodRequest, Resting, AdminRequest
  <2> QED
    BY <1>2, <2>1, <2>2, AdminMoves
<1>4. CASE IndexAllows(admin[a].ticket)
  <2>1. WriteTicket(a, admin[a].ticket, row) /\ Goes(a, then)
    BY <1>4 DEF TakeTicket
  <2>2. row \in TicketRow /\ row.status = "assigned" /\ row.holder = a /\ a # Nobody
    BY RecoveryAssumption DEF TicketRow, TicketStatus, OpenStatuses
  <2>3. then \in AdminRequest /\ then.pc \in {"idle", "reset"}
    BY <1>1 DEF TypeOK, AdminRequest, Resting
  <2> HIDE DEF row, then
  <2>4. admin' \in [Admin -> AdminRequest] /\ admin'[a] = then
        /\ \A d \in Admin \ {a} : admin'[d] = admin[d]
    BY <1>1, <2>1, <2>3 DEF TypeOK, Goes
  <2>5. form' \in [Form -> {"idle", "insert"}]
    BY <1>1, <1>2 DEF TypeOK
  <2> QED
    BY <1>1, <1>2, <1>4, <2>1, <2>2, <2>3, <2>4, <2>5, TicketWritten
<1> QED
  BY <1>3, <1>4

LEMMA SetUserPasswordStep ==
    ASSUME IInv, NEW a \in Admin, SetUserPassword(a) PROVE IInv'
<1>1. TypeOK /\ UNCHANGED <<ticket, form, tab, trouble>> /\ At(a, "reset")
  BY DEF IInv, SetUserPassword
<1>2. CASE ~Exists
  <2>1. UNCHANGED <<account, known, stale>> /\ Goes(a, Resting)
    BY <1>2 DEF SetUserPassword
  <2>2. GoodRequest(Resting)
    BY DEF GoodRequest, Resting, AdminRequest
  <2>3. trouble' \in 0..MaxTrouble
    BY <1>1 DEF TypeOK
  <2> QED
    BY <1>1, <2>1, <2>2, <2>3, AdminMoves
<1>3. CASE Exists
  <2> DEFINE p == NewPassword
             then == Sends(a, p)
  <2>1. /\ WritePassword(Nobody, p, TRUE) /\ known' = FALSE /\ Goes(a, then)
        /\ p \in Generated
    BY <1>3, NewPasswordIsGenerated DEF SetUserPassword
  <2>2. /\ then \in AdminRequest /\ then.password = p
        /\ then.pc \in {"resolve", "deliver"}
        /\ then.pc = "resolve" => then.ticket # NoTicket
    BY <1>1, <2>1 DEF Sends, TypeOK, AdminRequest
  <2>3. p \in Password
    BY <2>1 DEF Password
  <2> HIDE DEF p, then
  <2>4. admin' \in [Admin -> AdminRequest] /\ admin'[a] = then
        /\ \A d \in Admin \ {a} : admin'[d] = admin[d]
    BY <1>1, <2>1, <2>2 DEF TypeOK, Goes
  <2>5. tab' \in [Tab -> Session] /\ \A b \in Tab : tab'[b] = tab[b]
    BY <1>1 DEF TypeOK
  <2>6. PICK q \in Generated : q = p
    BY <2>1
  <2> QED
    BY <1>1, <2>1, <2>2, <2>3, <2>4, <2>5, <2>6, PasswordWritten, RecoveryAssumption
<1> QED
  BY <1>2, <1>3

LEMMA CloseTicketStep ==
    ASSUME IInv, NEW a \in Admin, CloseTicket(a) PROVE IInv'
<1>1. TypeOK /\ admin[a].ticket \in Ticket /\ admin[a].password \in Generated
  BY DEF IInv, TypeOK, AdminsHold, CloseTicket, AdminRequest, At
<1> DEFINE row == [status |-> "closed", holder |-> Nobody]
           then == [admin[a] EXCEPT !.pc = "deliver"]
<1>2. WriteTicket(a, admin[a].ticket, row) /\ Goes(a, then)
  BY DEF CloseTicket
<1>3. row \in TicketRow /\ row.status = "closed" /\ row.holder = Nobody
  BY DEF TicketRow, TicketStatus, OpenStatuses
<1>4. then \in AdminRequest /\ then.pc = "deliver" /\ then.password \in Generated
  BY <1>1 DEF TypeOK, AdminRequest
<1> HIDE DEF row, then
<1>5. admin' \in [Admin -> AdminRequest] /\ admin'[a] = then
      /\ \A d \in Admin \ {a} : admin'[d] = admin[d]
  BY <1>1, <1>2, <1>4 DEF TypeOK, Goes
<1>6. /\ form' \in [Form -> {"idle", "insert"}] /\ trouble' \in 0..MaxTrouble
      /\ UNCHANGED <<account, tab, known>>
  BY <1>1 DEF TypeOK, CloseTicket
<1>7. row.status \notin OpenStatuses
  BY <1>3 DEF OpenStatuses
<1> QED
  BY <1>1, <1>2, <1>3, <1>4, <1>5, <1>6, <1>7, TicketWritten

LEMMA TabWorks ==
    ASSUME IInv, NEW b \in Tab,
           SignIn(b) \/ SignOut(b) \/ ChangeOwnPassword(b) \/ RefreshToken(b) \/ FailTab(b)
    PROVE  IInv'
<1>1. /\ TypeOK /\ tab[b] \in Session /\ account.mustChange \in BOOLEAN
      /\ ~tab[b].in => tab[b].pc = "idle"
  BY DEF IInv, TypeOK, Account, TabsHold
<1>2. /\ trouble' \in 0..MaxTrouble /\ UNCHANGED <<account, ticket, admin, form, known>>
      /\ stale' = stale \/ stale' = stale \ {b}
  BY <1>1, RecoveryAssumption
  DEF SignIn, SignOut, ChangeOwnPassword, Sent, RefreshToken, FailTab, Unneeded, TypeOK
<1>3. CASE SignIn(b)
  <2> DEFINE then == [SignedOut EXCEPT !.in = TRUE, !.must = account.mustChange]
  <2>1. then \in Session /\ then.pc = "idle" /\ Browser(b, then)
    BY <1>1, <1>3 DEF SignIn, SignedOut, Session
  <2> HIDE DEF then
  <2> QED
    BY <1>2, <2>1, TabMoves
<1>4. CASE SignOut(b)
  <2>1. SignedOut \in Session /\ SignedOut.pc = "idle" /\ Browser(b, SignedOut)
    BY <1>4 DEF SignOut, SignedOut, Session
  <2> QED
    BY <1>2, <2>1, TabMoves
<1>5. CASE ChangeOwnPassword(b)
  <2> DEFINE then == [tab[b] EXCEPT !.pc = "write"]
  <2>1. then \in Session /\ then.in /\ known /\ Browser(b, then)
    BY <1>1, <1>5 DEF ChangeOwnPassword, Sent, Session
  <2> HIDE DEF then
  <2> QED
    BY <1>2, <2>1, TabMoves
<1>6. CASE RefreshToken(b)
  <2> DEFINE then == [tab[b] EXCEPT !.pc = "idle", !.must = account.mustChange]
  <2>1. then \in Session /\ then.pc = "idle" /\ Browser(b, then)
    BY <1>1, <1>6 DEF RefreshToken, Session
  <2> HIDE DEF then
  <2> QED
    BY <1>2, <2>1, TabMoves
<1>7. CASE FailTab(b)
  <2> DEFINE then == [tab[b] EXCEPT !.pc = "idle"]
  <2>1. then \in Session /\ then.pc = "idle" /\ Browser(b, then)
    BY <1>1, <1>7 DEF FailTab, Session
  <2> HIDE DEF then
  <2> QED
    BY <1>2, <2>1, TabMoves
<1> QED
  BY <1>3, <1>4, <1>5, <1>6, <1>7

LEMMA SaveOwnPasswordStep ==
    ASSUME IInv, NEW b \in Tab, SaveOwnPassword(b) PROVE IInv'
<1>1. TypeOK /\ tab[b] \in Session /\ tab[b].in
  BY DEF IInv, TypeOK, TabsHold, SaveOwnPassword
<1>2. UNCHANGED <<ticket, admin, form, trouble>>
  BY DEF SaveOwnPassword
<1>3. CASE ~Exists
  <2> DEFINE then == [tab[b] EXCEPT !.pc = "idle"]
  <2>1. then \in Session /\ then.pc = "idle" /\ Browser(b, then)
    BY <1>1, <1>3 DEF SaveOwnPassword, Session
  <2>2. UNCHANGED <<account, known, stale>> /\ trouble' \in 0..MaxTrouble
    BY <1>1, <1>2, <1>3 DEF SaveOwnPassword, TypeOK
  <2> HIDE DEF then
  <2> QED
    BY <1>2, <2>1, <2>2, TabMoves
<1>4. CASE Exists
  <2> DEFINE then == [tab[b] EXCEPT !.pc = "refresh"]
  <2>1. then \in Session /\ then.pc = "refresh" /\ then.in /\ Browser(b, then)
    BY <1>1, <1>4 DEF SaveOwnPassword, Session
  <2>2. WritePassword(b, Own, FALSE) /\ known' = TRUE
    BY <1>4 DEF SaveOwnPassword
  <2>3. Own \in Password /\ Own \notin Generated \cup {First}
    BY RecoveryAssumption DEF Password
  <2> HIDE DEF then
  <2>4. tab' \in [Tab -> Session] /\ tab'[b] = then /\ \A c \in Tab \ {b} : tab'[c] = tab[c]
    BY <1>1, <2>1 DEF TypeOK, Browser
  <2>5. admin' \in [Admin -> AdminRequest] /\ \A d \in Admin : admin'[d] = admin[d]
    BY <1>1, <1>2 DEF TypeOK
  <2> QED
    BY <1>2, <2>1, <2>2, <2>3, <2>4, <2>5, PasswordWritten
<1> QED
  BY <1>3, <1>4

-----------------------------------------------------------------------------
(* Theorems *)

LEMMA NextInv == IInv /\ [Next]_vars => IInv'
<1> SUFFICES ASSUME IInv, [Next]_vars PROVE IInv'
  OBVIOUS
<1>1. CASE Next
  BY <1>1, FormStep, QueueStep, AccountStep, AdminRequestStep, AdminWorks, TakeTicketStep,
     SetUserPasswordStep, CloseTicketStep, TabWorks, SaveOwnPasswordStep
  DEF Next, AdminStep, TabStep
<1>2. CASE UNCHANGED vars
  BY <1>2 DEF vars, IInv, TypeOK, OneOpenTicket, TemporaryIsFlagged, AdminsHold, TabsHold,
              HeldWhileAssigned, Open, Exists
<1> QED
  BY <1>1, <1>2

\* The inductive invariant: what the requests in progress rely on, and what the
\* queue and the account promise.
THEOREM Invariance == Spec => []IInv
  BY InitInv, NextInv, PTL DEF Spec

\* One request of the member waits at most, however many submit and assign.
THEOREM OneRequestWaits == Spec => []OneOpenTicket
<1>1. IInv => OneOpenTicket
  BY DEF IInv
<1> QED
  BY <1>1, Invariance, PTL

\* A password an administrator has set is always to be changed, unless the account was
\* created with one that need not be.
THEOREM TemporaryIsTemporary == Spec => []TemporaryIsFlagged
<1>1. IInv => TemporaryIsFlagged
  BY DEF IInv
<1> QED
  BY <1>1, Invariance, PTL

\* A closed request comes back by a race of two administrators only.
THEOREM ReopeningIsARace == Spec => ClosedReopenedByRaceOnly
<1>1. ASSUME IInv, Next, NEW t \in Ticket,
             ticket[t].status = "closed", ticket'[t].status = "assigned"
      PROVE  \E a \in stale : a \in Admin /\ admin[a].ticket = t
  <2>1. \A row : \A u \in Ticket :
          ticket' = [ticket EXCEPT ![u] = row] /\ row.status # "assigned" => FALSE
    BY <1>1 DEF IInv, TypeOK
  <2>2. ticket' # ticket
    BY <1>1
  <2>3. ASSUME NEW u \in Ticket, ResolveNotification(u) PROVE FALSE
    <3> DEFINE row == [status |-> "closed", holder |-> Nobody]
    <3>1. ticket' = [ticket EXCEPT ![u] = row] /\ row.status = "closed"
      BY <2>3 DEF ResolveNotification, WriteTicket
    <3> HIDE DEF row
    <3> QED
      BY <2>1, <3>1
  <2>4. ASSUME NEW f \in Form, InsertTicket(f) PROVE FALSE
    <3> DEFINE row == [status |-> "open", holder |-> Nobody]
    <3>1. PICK u \in Ticket : ticket' = [ticket EXCEPT ![u] = row]
      BY <2>2, <2>4 DEF InsertTicket, WriteTicket
    <3>2. row.status = "open"
      OBVIOUS
    <3> HIDE DEF row
    <3> QED
      BY <2>1, <3>1, <3>2
  <2>5. ASSUME NEW a \in Admin, CloseTicket(a) PROVE FALSE
    <3> DEFINE row == [status |-> "closed", holder |-> Nobody]
    <3>1. ticket' = [ticket EXCEPT ![admin[a].ticket] = row] /\ row.status = "closed"
      BY <2>5 DEF CloseTicket, WriteTicket
    <3>2. admin[a].ticket \in Ticket
      BY <1>1, <2>5 DEF IInv, TypeOK, AdminsHold, CloseTicket, AdminRequest, At
    <3> HIDE DEF row
    <3> QED
      BY <2>1, <3>1, <3>2
  <2>6. PICK a \in Admin : TakeTicket(a)
    BY <1>1, <2>2, <2>3, <2>4, <2>5
    DEF Next, AdminStep, TabStep, Ask, AskForNothing, SubmitForgot, AssignNotification, Fulfil,
        TakeOver, FulfilResetRequest, ForcePasswordReset, FailAdmin, SetUserPassword, Deliver,
        SetUserStatus, DeleteUser, Forget, SignIn, SignOut, ChangeOwnPassword, Sent,
        SaveOwnPassword, RefreshToken, FailTab
  <2>7. ticket' = [ticket EXCEPT ![admin[a].ticket] = [status |-> "assigned", holder |-> a]]
    BY <2>2, <2>6 DEF TakeTicket, WriteTicket
  <2>8. admin[a].ticket = t
    BY <1>1, <2>7 DEF IInv, TypeOK
  <2>9. a \in stale
    BY <1>1, <2>6, <2>8 DEF IInv, AdminsHold, TakeTicket, Open, OpenStatuses
  <2> QED
    BY <2>8, <2>9
<1>2. IInv /\ [Next]_vars =>
        [\A t \in Ticket :
           ticket[t].status = "closed" /\ ticket'[t].status = "assigned"
           => \E a \in stale : a \in Admin /\ admin[a].ticket = t]_vars
  BY <1>1 DEF vars
<1> QED
  BY <1>2, Invariance, PTL DEF Spec, ClosedReopenedByRaceOnly

\* A password the member does not know is overwritten by a race only.
THEOREM OverwritingIsARace == Spec => OwnChangeOverResetByRaceOnly
<1>1. IInv /\ [Next]_vars =>
        [\A b \in Tab : tab[b].pc = "write" /\ tab'[b].pc = "refresh"
                        => known \/ b \in stale]_vars
  BY DEF IInv, TabsHold
<1> QED
  BY <1>1, Invariance, PTL DEF Spec, OwnChangeOverResetByRaceOnly

=============================================================================
