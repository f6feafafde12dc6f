--------------------------- MODULE AccountRecovery ---------------------------
(***************************************************************************)
(* How ONE member gets (back) into their account: the queue of reset       *)
(* requests (lib/notifications/service.mjs), the administrators who fulfil *)
(* them (lib/auth/password-reset.mjs over lib/users/admin.mjs), and the    *)
(* member's own, possibly forced, change of password behind a session      *)
(* token that remembers whether it is forced (lib/auth).                   *)
(*                                                                         *)
(* There is no mailed link: an administrator resets the password and sends *)
(* it to the member by hand, so a password exists that nobody holds until  *)
(* it is delivered, and a failure on the way loses it.                     *)
(***************************************************************************)
EXTENDS Naturals

CONSTANTS
    Admin,          \* administrators; each has one request at a time
    Form,           \* submissions of the public "forgot password" form
    Tab,            \* the member's browsers, each with a token of its own
    MaxTickets,     \* bound: the rows of notification (closed ones are reused)
    Generated,      \* passwords generatePassword may return
    First,          \* stands for a first password, which is to be changed
    Kept,           \* stands for a first password, which need not be
    Own,            \* stands for every password the member chose
    NoPassword,     \* stands for no password
    Nobody,         \* stands for no administrator
    MaxTrouble      \* bound: how many unneeded requests and failures

ASSUME RecoveryAssumption ==
    /\ Generated # {}
    /\ {First, Kept, Own, NoPassword} \cap Generated = {}
    /\ First \notin {Kept, Own, NoPassword} /\ Kept \notin {Own, NoPassword}
    /\ Own # NoPassword
    /\ Admin \cap Tab = {} /\ Nobody \notin Admin \cup Tab
    /\ MaxTickets \in Nat \ {0} /\ MaxTrouble \in Nat

Password == Generated \cup {First, Kept, Own, NoPassword}
Ticket == 1..MaxTickets
NoTicket == 0

VARIABLES
    account,    \* the row of app_user
    ticket,     \* ticket[t]: row t of notification (password resets only)
    admin,      \* admin[a]: where a's request is
    form,       \* form[f]: where a submission is
    tab,        \* tab[b]: the session of browser b and its change of password
    known,      \* whether the member knows the account's password
    trouble,    \* how many unneeded requests and failures there were
    stale       \* history: whose last reading was overtaken by another's write

vars == <<account, ticket, admin, form, tab, known, trouble, stale>>

\* The statuses of an account; "none": it does not exist.
Status == {"active", "inactive", "revoked"}
CanLogin(status) == status \in {"active", "inactive"}

OpenStatuses == {"open", "assigned"}
TicketStatus == OpenStatuses \cup {"none", "closed"}     \* resolved or dismissed

Account == [status : Status \cup {"none"}, password : Password,
            mustChange : BOOLEAN]

\* Who has assigned it to themselves, while it is open.
TicketRow == [status : TicketStatus, holder : Admin \cup {Nobody}]

AdminRequest == [pc : {"idle", "assign", "take", "reset", "resolve", "deliver"},
                 ticket : Ticket \cup {NoTicket}, password : Generated \cup {NoPassword}]

Session == [in : BOOLEAN, must : BOOLEAN, pc : {"idle", "write", "refresh"}]

Resting == [pc |-> "idle", ticket |-> NoTicket, password |-> NoPassword]
SignedOut == [in |-> FALSE, must |-> FALSE, pc |-> "idle"]
NoAccount == [status |-> "none", password |-> NoPassword, mustChange |-> FALSE]

\* createUser: without a password, or with a first one that was sent to the member,
\* which is to be changed unless the input says that it need not be.
CreateUser(status) ==
    \/ /\ account = [status |-> status, password |-> NoPassword, mustChange |-> FALSE]
       /\ known = FALSE
    \/ /\ account \in {[status |-> status, password |-> First, mustChange |-> TRUE],
                       [status |-> status, password |-> Kept, mustChange |-> FALSE]}
       /\ known = TRUE

\* The one account of the model, just made; one made again for the same member
\* would be another row.
Init ==
    /\ \E status \in Status : CreateUser(status)
    /\ ticket = [t \in Ticket |-> [status |-> "none", holder |-> Nobody]]
    /\ admin = [a \in Admin |-> Resting]
    /\ form = [f \in Form |-> "idle"]
    /\ tab = [b \in Tab |-> SignedOut]
    /\ trouble = 0
    /\ stale = {}

-----------------------------------------------------------------------------
(* Helpers *)

Exists == account.status # "none"
Open(t) == ticket[t].status \in OpenStatuses

\* Mutant: a closed request counts as one that waits.
AnyRequest == \E t \in Ticket : ticket[t].status # "none"

\* findOpenRequest.
OpenRequest == \E t \in Ticket : Open(t)

\* notification_one_open_per_email_uq: ticket t may be written as open.
IndexAllows(t) == \A u \in Ticket \ {t} : ~Open(u)

\* generatePassword returns one that was never used; the model uses again those
\* that open no account and are on their way to nobody.
Fresh(p) == p # account.password /\ \A a \in Admin : admin[a].password # p
NewPassword == CHOOSE p \in Generated : Fresh(p)

Unneeded == trouble < MaxTrouble /\ trouble' = trouble + 1

At(a, pc) == admin[a].pc = pc
Goes(a, request) == admin' = [admin EXCEPT ![a] = request]
Browser(b, session) == tab' = [tab EXCEPT ![b] = session]

\* One UPDATE of ticket t by a: who has read t and not yet written it has
\* read something else.
WriteTicket(a, t, row) ==
    /\ ticket' = [ticket EXCEPT ![t] = row]
    /\ stale' = (stale \ {a}) \cup
         {d \in Admin \ {a} : admin[d].pc \in {"assign", "take"} /\ admin[d].ticket = t}

\* One UPDATE of the password by `by': likewise for a member who has proved to
\* know the password before and not yet written the new one.
WritePassword(by, password, mustChange) ==
    /\ account' = [account EXCEPT !.password = password, !.mustChange = mustChange]
    /\ stale' = (stale \ {by}) \cup {b \in Tab \ {by} : tab[b].pc = "write"}

-----------------------------------------------------------------------------
(* The public form *)

\* createOpenRequest: a request that waits is returned instead of a new one.
SubmitForgot(f) ==
    /\ form[f] = "idle"
    /\ ~OpenRequest
    /\ form' = [form EXCEPT ![f] = "insert"]
    /\ UNCHANGED <<account, ticket, admin, tab, known, stale>>

\* A member who knows no password that works, and expects none by mail.
LockedOut == Exists /\ ~known
MailOnTheWay == \E a \in Admin : admin[a].pc \in {"resolve", "deliver"}

Ask(f) ==
    /\ LockedOut /\ ~MailOnTheWay
    /\ SubmitForgot(f)
    /\ UNCHANGED trouble

\* Anybody may submit the form for the member.
AskForNothing(f) == SubmitForgot(f) /\ Unneeded

\* The row of a new request: one that is closed and in no one's hands.
Unused(t) == ~Open(t) /\ \A a \in Admin : admin[a].ticket # t

\* The loser of two submissions meets the index; its error is answered as a
\* success, as every submission is.
InsertTicket(f) ==
    /\ form[f] = "insert"
    /\ \E t \in Ticket :
         /\ Unused(t) /\ \A u \in 1..(t - 1) : ~Unused(u)
         /\ IF IndexAllows(t)
            THEN WriteTicket(Nobody, t, [status |-> "open", holder |-> Nobody])
            ELSE UNCHANGED <<ticket, stale>>
    /\ form' = [form EXCEPT ![f] = "idle"]
    /\ UNCHANGED <<account, admin, tab, known, trouble>>

-----------------------------------------------------------------------------
(* Administrators *)

\* assignNotification of a request of its own: closed ones cannot be taken, and
\* one that is already the actor's is left as it is.
AssignNotification(a, t) ==
    /\ At(a, "idle")
    /\ Open(t) /\ ticket[t].holder # a
    /\ Goes(a, [Resting EXCEPT !.pc = "assign", !.ticket = t])
    /\ stale' = stale \ {a}
    /\ Unneeded
    /\ UNCHANGED <<account, ticket, form, tab, known>>

\* Mutant: closed requests are fulfilled, too.
FulfilAnyRequest(a, t) ==
    /\ At(a, "idle")
    /\ ticket[t].status # "none" /\ Exists
    /\ Goes(a, [Resting EXCEPT !.pc = "take", !.ticket = t])
    /\ stale' = stale \ {a}
    /\ UNCHANGED <<account, ticket, form, tab, known>>

\* fulfilResetRequest up to the assignment: a request that waits, of a member
\* who has an account.
FulfilResetRequest(a, t) ==
    /\ At(a, "idle")
    /\ Open(t) /\ Exists
    /\ Goes(a, [Resting EXCEPT !.pc = IF ticket[t].holder = a THEN "reset" ELSE "take",
                               !.ticket = t])
    /\ stale' = stale \ {a}
    /\ UNCHANGED <<account, ticket, form, tab, known>>

\* The team leaves to each other what is in another's hands, but for mistakes.
Fulfil(a, t) ==
    /\ ticket[t].holder \in {a, Nobody}
    /\ FulfilResetRequest(a, t)
    /\ UNCHANGED trouble

TakeOver(a, t) ==
    /\ ticket[t].holder \notin {a, Nobody}
    /\ FulfilResetRequest(a, t)
    /\ Unneeded

\* Mutant: the status is written without the holder.
TakeUnheld(a) ==
    /\ admin[a].pc \in {"assign", "take"}
    /\ WriteTicket(a, admin[a].ticket, [status |-> "assigned", holder |-> Nobody])
    /\ Goes(a, IF At(a, "take") THEN [admin[a] EXCEPT !.pc = "reset"] ELSE Resting)
    /\ UNCHANGED <<account, form, tab, known, trouble>>

\* The assignment is written by id, whatever the status is by then; the index
\* refuses when another request waits.
TakeTicket(a) ==
    /\ admin[a].pc \in {"assign", "take"}
    /\ IF IndexAllows(admin[a].ticket)
       THEN /\ WriteTicket(a, admin[a].ticket, [status |-> "assigned", holder |-> a])
            /\ Goes(a, IF At(a, "take") THEN [admin[a] EXCEPT !.pc = "reset"] ELSE Resting)
       ELSE /\ Goes(a, Resting)
            /\ UNCHANGED <<ticket, stale>>
    /\ UNCHANGED <<account, form, tab, known, trouble>>

\* forcePasswordReset on its own.
ForcePasswordReset(a) ==
    /\ At(a, "idle")
    /\ Exists
    /\ Goes(a, [Resting EXCEPT !.pc = "reset"])
    /\ Unneeded
    /\ UNCHANGED <<account, ticket, form, tab, known, stale>>

\* What follows the reset: the request is resolved, if there is one.
Sends(a, p) ==
    [admin[a] EXCEPT !.password = p,
                     !.pc = IF admin[a].ticket = NoTicket THEN "deliver" ELSE "resolve"]

\* setUserPassword with a generated password; an account deleted in the
\* meantime is not found.
SetUserPassword(a) ==
    /\ At(a, "reset")
    /\ \/ /\ Exists /\ \E p \in Generated : Fresh(p)
          /\ WritePassword(Nobody, NewPassword, TRUE)
          /\ known' = FALSE
          /\ Goes(a, Sends(a, NewPassword))
       \/ /\ ~Exists
          /\ Goes(a, Resting)
          /\ UNCHANGED <<account, known, stale>>
    /\ UNCHANGED <<ticket, form, tab, trouble>>

\* The last write of fulfilResetRequest.
CloseTicket(a) ==
    /\ At(a, "resolve")
    /\ WriteTicket(a, admin[a].ticket, [status |-> "closed", holder |-> Nobody])
    /\ Goes(a, [admin[a] EXCEPT !.pc = "deliver"])
    /\ UNCHANGED <<account, form, tab, known, trouble>>

\* The operator mails the password, which was shown once; it may have been
\* replaced in the meantime.
Deliver(a) ==
    /\ At(a, "deliver")
    /\ known' = (known \/ admin[a].password = account.password)
    /\ Goes(a, Resting)
    /\ UNCHANGED <<account, ticket, form, tab, trouble, stale>>

\* resolveNotification on its own: the request is resolved without a reset, or
\* dismissed.
ResolveNotification(t) ==
    /\ Open(t)
    /\ WriteTicket(Nobody, t, [status |-> "closed", holder |-> Nobody])
    /\ Unneeded
    /\ UNCHANGED <<account, admin, form, tab, known>>

SetUserStatus(status) ==
    /\ Exists /\ account.status # status
    /\ account' = [account EXCEPT !.status = status]
    /\ Unneeded
    /\ UNCHANGED <<ticket, admin, form, tab, known, stale>>

\* The sessions and the requests of a deleted account find nothing.
DeleteUser ==
    /\ Exists
    /\ account' = NoAccount
    /\ Unneeded
    /\ UNCHANGED <<ticket, admin, form, tab, known, stale>>

\* A request that fails, or whose answer is lost with the password in it.
FailAdmin(a) ==
    /\ ~At(a, "idle")
    /\ Goes(a, Resting)
    /\ Unneeded
    /\ UNCHANGED <<account, ticket, form, tab, known, stale>>

-----------------------------------------------------------------------------
(* The member *)

\* The token's copy of the flag is taken at the sign-in.
SignIn(b) ==
    /\ ~tab[b].in
    /\ CanLogin(account.status) /\ known
    /\ Browser(b, [SignedOut EXCEPT !.in = TRUE, !.must = account.mustChange])
    /\ UNCHANGED <<account, ticket, admin, form, known, trouble, stale>>

\* The member signs out or the token expires.
SignOut(b) ==
    /\ tab[b].in /\ tab[b].pc = "idle"
    /\ Browser(b, SignedOut)
    /\ UNCHANGED <<account, ticket, admin, form, known, trouble, stale>>

\* The form of the change is sent, and passes the checks.
Sent(b) ==
    /\ tab[b].in /\ tab[b].pc = "idle"
    /\ Browser(b, [tab[b] EXCEPT !.pc = "write"])
    /\ stale' = stale \ {b}
    /\ UNCHANGED <<account, ticket, admin, form, known, trouble>>

\* Mutant: the current password is asked for and not compared.
ChangeUnproved(b) == CanLogin(account.status) /\ account.password # NoPassword /\ Sent(b)

\* Mutant: only an active account gets past the route.
ChangeAsActive(b) == account.status = "active" /\ known /\ Sent(b)

\* The route's requireLoggedInAccount, then changeOwnPassword up to the hash:
\* the member must know the current password.
ChangeOwnPassword(b) == CanLogin(account.status) /\ known /\ Sent(b)

\* A member who is redirected to the change from every other page.
ForcedToChange(b) == tab[b].in /\ tab[b].must

\* The rest of changeOwnPassword: the row is written by id.
SaveOwnPassword(b) ==
    /\ tab[b].pc = "write"
    /\ IF Exists
       THEN /\ WritePassword(b, Own, FALSE)
            /\ known' = TRUE
            /\ Browser(b, [tab[b] EXCEPT !.pc = "refresh"])
       ELSE /\ Browser(b, [tab[b] EXCEPT !.pc = "idle"])
            /\ UNCHANGED <<account, known, stale>>
    /\ UNCHANGED <<ticket, admin, form, trouble>>

\* session.update(): the flag is read again (FALSE of an account that is gone).
RefreshToken(b) ==
    /\ tab[b].pc = "refresh"
    /\ Browser(b, [tab[b] EXCEPT !.pc = "idle", !.must = account.mustChange])
    /\ UNCHANGED <<account, ticket, admin, form, known, trouble, stale>>

\* The request fails, or its answer is lost and the token is not refreshed.
FailTab(b) ==
    /\ tab[b].pc # "idle"
    /\ Browser(b, [tab[b] EXCEPT !.pc = "idle"])
    /\ Unneeded
    /\ UNCHANGED <<account, ticket, admin, form, known, stale>>

\* The member forgets the password, but not while changing it.
Forget ==
    /\ known /\ \A b \in Tab : tab[b].pc # "write"
    /\ known' = FALSE
    /\ Unneeded
    /\ UNCHANGED <<account, ticket, admin, form, tab, stale>>

-----------------------------------------------------------------------------
(* Specification *)

FulfilSome == \E a \in Admin, t \in Ticket : Fulfil(a, t)

AdminStep(a) == TakeTicket(a) \/ SetUserPassword(a) \/ CloseTicket(a) \/ Deliver(a)

TabStep(b) == SaveOwnPassword(b) \/ RefreshToken(b)

Next ==
    \/ \E f \in Form : Ask(f) \/ AskForNothing(f) \/ InsertTicket(f)
    \/ \E a \in Admin, t \in Ticket : AssignNotification(a, t) \/ Fulfil(a, t) \/ TakeOver(a, t)
    \/ \E a \in Admin : ForcePasswordReset(a) \/ AdminStep(a) \/ FailAdmin(a)
    \/ \E t \in Ticket : ResolveNotification(t)
    \/ \E status \in Status : SetUserStatus(status)
    \/ DeleteUser \/ Forget
    \/ \E b \in Tab : SignIn(b) \/ SignOut(b) \/ ChangeOwnPassword(b) \/ TabStep(b) \/ FailTab(b)

\* The server answers; a locked-out member asks, a forced one changes the
\* password; the team works its queue and mails what it was shown.
Fairness ==
    /\ \A f \in Form : WF_vars(InsertTicket(f))
    /\ WF_vars(\E f \in Form : Ask(f))
    /\ WF_vars(FulfilSome)
    /\ \A a \in Admin : WF_vars(AdminStep(a))
    /\ \A b \in Tab : WF_vars(TabStep(b))
    /\ \A b \in Tab : WF_vars(ForcedToChange(b) /\ ChangeOwnPassword(b))

Spec == Init /\ [][Next]_vars
FairSpec == Spec /\ Fairness

-----------------------------------------------------------------------------
(* Properties *)

TypeOK ==
    /\ account \in Account
    /\ ticket \in [Ticket -> TicketRow]
    /\ admin \in [Admin -> AdminRequest]
    /\ form \in [Form -> {"idle", "insert"}]
    /\ tab \in [Tab -> Session]
    /\ known \in BOOLEAN
    /\ trouble \in 0..MaxTrouble
    /\ stale \subseteq Admin \cup Tab

\* However many submissions and administrators there are, one request of the
\* member waits at most (the promise of notification_one_open_per_email_uq that
\* assignments written by id have to keep as well).
OneOpenTicket == \A t, u \in Ticket : Open(t) /\ Open(u) => t = u

\* A password that an administrator has set is never one the member may keep,
\* however a reset meets the member's own change: only a change by the member takes
\* the demand for one away.  The exception is a first password that whoever created
\* the account let stand.
TemporaryIsFlagged == account.password \in Generated \cup {First} => account.mustChange

\* What a request in progress relies on.
AdminsHold ==
    \A a \in Admin :
      /\ admin[a].pc \in {"assign", "take", "resolve"} => admin[a].ticket # NoTicket
      /\ admin[a].pc \in {"resolve", "deliver"} => admin[a].password \in Generated
      /\ admin[a].pc \in {"assign", "take"} /\ a \notin stale => Open(admin[a].ticket)

TabsHold ==
    \A b \in Tab :
      /\ tab[b].pc = "write" /\ b \notin stale => known
      /\ ~tab[b].in => tab[b].pc = "idle"

HeldWhileAssigned ==
    \A t \in Ticket : ticket[t].status = "assigned" <=> ticket[t].holder # Nobody

IInv ==
    /\ TypeOK
    /\ OneOpenTicket
    /\ TemporaryIsFlagged
    /\ AdminsHold
    /\ TabsHold
    /\ HeldWhileAssigned

\* A closed request comes back only by an assignment whose administrator read
\* it open, before another closed it.
ClosedReopenedByRaceOnly ==
    [][\A t \in Ticket :
         ticket[t].status = "closed" /\ ticket'[t].status = "assigned"
         => \E a \in stale : a \in Admin /\ admin[a].ticket = t]_vars

\* The member's change replaces a password the member knows: another one, say
\* of an administrator who reset it on suspicion, is overwritten only if it was
\* set between the proof of the old one and the write of the new.
OwnChangeOverResetByRaceOnly ==
    [][\A b \in Tab :
         tab[b].pc = "write" /\ tab'[b].pc = "refresh"
         => known \/ b \in stale]_vars

\* A member sent to the change of password gets out of it, whatever is reset,
\* lost or refused meanwhile (an inactive account once did not).
ForcedMemberGetsOut ==
    \A b \in Tab : ForcedToChange(b) ~> (~ForcedToChange(b) \/ ~CanLogin(account.status))

\* A member who knows no password that works gets one, though mails are lost
\* and requests closed unanswered.
ForgottenRecovered == LockedOut ~> ~LockedOut
=============================================================================
