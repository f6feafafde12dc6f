# Verification of the Student Affairs portal

TLA+ models, TLC runs and TLAPS proofs for the services under `lib/` of the
IIT Jammu Student Affairs portal (Next.js, Prisma, PostgreSQL).

## 1. The system

Every write of the portal is a function of a service module in `lib/`, called by
a route handler of `app/api/` or by the admin dispatcher (`lib/admin/handlers.mjs`).
The services share no memory but three small caches: they meet in the database.
A call has the same shape everywhere:

1. gates: permission checks, feature flags, the state of the item;
2. a read of the row it is about, **outside** any transaction;
3. a decision from that read;
4. a transaction that writes (`prisma.$transaction`, or `auditedMutation` of
   `lib/cms/audited-mutation.mjs`), usually by primary key and unconditionally;
5. after the commit: one audit row, a broadcast, both best effort.

PostgreSQL runs the transactions at READ COMMITTED: a statement sees what is
committed when it starts and the writes of its own transaction; a written row
stays locked to the end of the transaction. What keeps concurrent calls from
harming each other is therefore not the JavaScript but the partial unique
indexes, the triggers and the row locks of `prisma/migrations/`, and the
question every model asks is whether they are enough.

| Component | State | Operations | Talks to | What makes it correct |
|---|---|---|---|---|
| Event registration (`lib/events/registration.mjs`, `settings.mjs`) | `event_registration`, `event_settings.capacity`, the board | register, cancel, add, set status, remove, save settings, promote | broadcast, RBAC | one active row per account; seats within capacity; a freed seat goes to the first who waits; the board shows the table |
| Live quiz (`lib/quiz/`) | `quiz_session`, `quiz_answer`, `quiz_question` | open, next, reveal, end, answer, edit the bank | broadcast | a session never runs backwards; one answer per member and question, held to the limit it was opened with; no question asked twice |
| Broadcast and its pages (`lib/realtime/`, `app/live/`, `LiveQuizPlayer.jsx`) | listeners, Redis, event streams, what a page shows | subscribe, publish, connect, merge, submit | quiz, registration | a page shows committed states, never takes a revealed answer back, and ends with the newest state |
| CMS content (`lib/cms/content.mjs`) | items, revisions, two pointers | create, edit, publish, unpublish, archive, restore, edit-and-publish | audit, years | one draft and one published revision; pointers agree with statuses; nobody publishes what they did not read |
| Academic years (`lib/year/`) | `academic_year`, `transition_run` | create, set current, lock, unlock, transition | content, org units, grants | one current year, not locked; a transition can be resumed to completion |
| Roles and checks (`lib/rbac/`, `lib/users/admin.mjs`) | roles, permissions, grants, overrides | grant, revoke, replace permissions, override, check | every service | one club per coordinator and year; a saved set is the whole set; a decision is one of its time |
| Accounts and requests (`lib/users/admin.mjs`, `lib/auth/`, `lib/notifications/`) | account, reset requests, session tokens | submit, assign, fulfil, resolve, reset, sign in, change the password | mail | one open request; a password set by an administrator is to be changed; a locked-out member gets back in |
| Organization (`lib/org/`, `scripts/sync-roster.mjs`) | a unit, the holders of a position | create, edit, publish, archive, reconcile | years | positions within their number of holders; the script leaves the official list |
| Feature flags (`lib/platform/flags.mjs`) | flag row, process cache | read, set | every gate | a cached flag expires |
| Mail merge (`lib/mail/`) | progress | send in order at a rate | senders | each recipient at most once |
| Rate limiter (`lib/http/guard.mjs`) | counters | check | every write route | at most the limit per window |
| Memberships (`lib/memberships/`) | rows | add, remove, status, import | org units | one row per member and unit |
| Rounds, scores, closure (`lib/events/`) | rows per event | replace a sheet, review | registration | a sheet is replaced as a whole |

Reads that shape rows for pages, the Markdown renderer, the Cloudinary client,
the admin forms, the importers' data and the React pages carry no state of their
own and are listed in `PROJECT.json` as not modelled, with the reason.

The hard behaviours are listed as hazards in `PROJECT.json`, each at its line
and with the properties that watch it. Most are of one kind: step 2 is old when
step 4 uses it. The code has no answer to that in general (a handful of database
constraints answer it in particular places), so most properties come in the form
"this holds, unless a request was overtaken between its read and its write":
they say exactly which interleaving an operation does not survive, and that no
other one breaks it. A history variable (`overtaken`, `stale`, `crossed`, or what
a request has `seen`) names the requests to which that happened. It is written
beside the modelled steps and read by no guard.

## 2. Modules

### EventRegistration

One event. The database is `reg` (the committed status of each row), `owner`,
`last` (the rows inserted so far; their numbers order them as `registered_at`
does) and `cap`. `pend[q]` holds the uncommitted writes of request `q`: what `q`
sees is `SeenBy(q)`, what the others wait for is `LockedByOther`. `req[q]` is
where a request stands and what it has read. `board` is the last counts
published. `stale` is a history variable, written by commits and read by no
action: the requests whose capacity check was overtaken by another commit.

| Code | Actions |
|---|---|
| `registerForEvent` | `Register`, `FindActive`, `CountConfirmed`, `Insert`, `Guard`, `Commit`, `ReadCounts`, `Announce` |
| `cancelRegistration` | `Cancel`, `Write`, then the promotion, `Guard`, `Commit`, ... |
| `addRegistration` | `Add`, `Insert`, `Guard`, `Commit`, ... |
| `setRegistrationStatus`, `removeRegistration` | `SetStatus` or `Remove`, `Write`, the promotion, ... |
| `promoteEarliestWaitlisted`, `promoteWaitlistForCapacity` | `ReadCapacity`, `CountSeats`, `Promote` |
| `upsertEventSettings` | `SaveSettings`, then the promotion in a transaction of its own |
| `event_registration_capacity_guard` (trigger) | `Guard` |
| `event_registration_active_uq` (partial unique index) | `UniqueWait`, `UniqueViolation` in `Insert` and `Write` |
| the retry of `lib/prisma.mjs`; a crash or timeout | `CommitAnswerLost`; `Fail` |

A step is one SQL statement. Two reads that nothing lies between, or a read and
the decision from it, are one step. The deferred trigger (`Guard`) and the
commit are two steps, because the trigger's count and the moment the writes
become visible are two moments, and the difference is what lets two
confirmations through. The gates of a registration (published event, open
window, allowed roles, active account) change nothing when they refuse, so only
requests that pass are modelled; their reads enter through `Register`.

`SeatLedger` is what the component promises: each account has one seat
(`none`, `waitlisted`, `confirmed`), a request changes the seat of the account
it is about and hands at most one freed seat to a waiting account, a change of
capacity hands out seats. `ImplementsLedger` says that EventRegistration
implements it, with `seat` mapped to the status of the account's active row.

What is abstracted:

- A row is never reused: a deleted row becomes `absent` again and keeps its number.
- Two rows with the same `registered_at` do not occur.
- `SELECT ... FOR UPDATE SKIP LOCKED` and the update that follows are one step:
  nothing else can touch the rows between them.
- `Insert` is refused once `MaxRows` rows have been inserted; that is the bound
  of the model and reads as a database error.
- Rows and statuses are all that is modelled of a registration; team names,
  notes and timestamps have no influence.

A settings save never publishes the counts, although the comment at
`lib/events/registration.mjs:25` says that every path does. The model does what
the code does, and `BoardFollowsRequests` speaks of the other requests.

### QuizSession

One event with its sessions, its question bank and the answers of its members.
`sess[s]` is the row of `quiz_session`; `bank`, `sort` and `limit` are the rows of
`quiz_question` (`limit[q]` is the time an answer may take, grace included);
`answers` is `quiz_answer`; `now` is the server's clock. `req[r]` is where a request
stands and what it carries. `openings`, the field `seen` of a request, and `closed`
(the session had moved on when an answer was scored) are history, read by no guard.

| Code | Actions |
|---|---|
| `createSession` | `CreateSession`, `InsertSession` |
| `nextQuestion` | `NextQuestion`, `PickNext`, then `OpenQuestion`, or `LoadEnd` and `WriteEnd` |
| `revealQuestion` | `RevealQuestion`, `WriteReveal` |
| `endSession` | `EndSession`, `WriteEnd` |
| `submitAnswer` | `SubmitAnswer`, `ScoreAnswer`, `RecordAnswer` |
| `createQuestion` | `CreateQuestion`, `InsertQuestion` |
| `editQuestion` | `EditQuestion`, `WriteEdit` |
| `deleteQuestion` | `DeleteQuestion`, `CountAnswers`, `WriteDelete` |
| `reorderQuestions` | `ReorderQuestions`, `WriteReorder` |
| `quiz_session_one_live_uq`, the index on `quiz_answer`, the foreign keys | `IndexAllows`, `Answered`, the conditions of the writes |

A transaction of this component writes one row or one list of rows and reads
nothing, so it is one step. What is abstracted:

- The text, the options and the points of a question change nothing here; its limit
  and its sort order do, and `WriteEdit` may set both, as the patch of an edit can.
  The clock, and so the limits, are in ticks. Sort orders that a host enters, with a
  new question or in an edit, are from `Positions`; without one a new question goes
  to the end and an edited one stays where it is.
- The two reads of `createSession` (a running session, the size of the bank) are
  one step, and so are the reads of `submitAnswer` between the session and the
  insert, in which nothing is compared that another request could tell apart.
- Joining the lobby, the leaderboard and the broadcast snapshots write nothing
  that these operations read; `LiveStream` has the last two.

What a request `seen` (the status of the session in its first read) makes it
decide is written by session id alone. Two hosts can therefore drive a session
off `QUIZ_TRANSITIONS`, although `forms.mjs:164` calls it enforced: an ended
session may run again. `FollowsTransitionsByRaceOnly` says that nothing else can.

Two properties are about one host, and say what even that host can upset. A host who
reorders the bank, or edits the sort order of a question (`forms.mjs:129`), has
`nextQuestion` ask a question again: `NeverAskedTwice` is about a host who does
neither, and adds, edits and deletes questions otherwise. The answer path reads the
limit of a question live, which is why `editQuestion` refuses the current question of
a running session (the comment at `questions.mjs:95`): `AnsweredInAWindow` says that an
answer is held against the limit its question was opened with. The one exception
needs no second host: an answer read while the question was open and scored after it
was closed may meet a limit edited in between (`closed`).

### ContentLifecycle

One content item. `item` is its row in `content_item` (status, whether it has
`archived_at`, the two pointers), `rev[n]` the status of revision `n` and the
pieces of work it contains. A piece of work is what one patch adds; a revision's
text is a set of them, because every property about texts asks whose work is
where. `req[r]` is where a request stands, the item as it read it, its patch and
the revision it restores. `crossed` is a history variable: the requests that
another one has committed during.

| Code | Actions |
|---|---|
| `createDraft` | `CreateDraft` |
| `editDraft` | `EditDraft`, `WriteEdit` (`OpenDraft`) |
| `publish` | `Publish`, `WritePublish` |
| `editAndPublish` | `EditAndPublish`, `LoadEdit`, `WriteEdit`, `LoadPublish`, `WritePublish` |
| `unpublish`, `archive` | `Unpublish`, `WriteUnpublish`; `Archive`, `WriteArchive` |
| `restore` | `Restore`, `WriteRestore` (`OpenDraft`) |
| `content_revision_one_draft_uq`, `..._one_published_uq`, `content_item_pointer_guard` | `OneOfEach`, `PointersAgree` in `Transact` |
| a crash, a lost connection, a 403 in the second half of `editAndPublish` | `Fail` |

The reads before a transaction are steps of their own, the transaction is one:
its writes hold their rows until the commit, it writes the item last, and the
indexes and the trigger compare it with what is committed. A transaction they
refuse changes nothing. What is abstracted:

- `slug` and `pinned` are columns of the item without versions, and which fields
  a patch names does not matter: a patch has new work in it or is empty.
- `restore` overwrites the title and summary it read before its transaction with
  the payload it reads in it; the revision then holds the work of both reads.
- The year lock and the permissions are gates that change nothing when they refuse.
- A table of `MaxRevs` revisions refuses another one; that is the model's bound.

Two things the code does that its comments do not say, and that the model
follows: an archived item that is published again keeps its `archived_at`, and
an inline edit with an empty patch on an item without a draft publishes a copy
of the page (`editDraft` opens a draft whatever the patch, `content.mjs:193`).

### AcademicYear and YearTransition

`year[y]` is the row of a year (whether it exists, is current, its status) and
`req[r]` a request with what it read. `YearTransition` extends the module with
the rows of both years (`rows[y]`: units with their parents, the roster, items,
grants), the rows of `transition_run` (`run[n]`) and `wizard[r]`: the phase a run
is in, what its phase has read (`seen`) and has still to write (`todo`).

| Code | Actions |
|---|---|
| `createYear` | `CreateYear` |
| `setCurrentYear` | `SetCurrentYear`, `FindCurrent`, `Promote` |
| `setYearStatus`, `unlockYear` | `SetYearStatus`, `WriteStatus` |
| `runTransition` | `RunTransition`, `OpenRun`, the phases, `CloseRun`, `FailRun` |
| `copyStructure` | `ReadUnits`, `CreateTwin`, `WireParent`, `ParentsDone` |
| `copyAppointments`, `copyContent`, `copyRoleAssignments` | `ReadRoster`, `CopyAppointment`; `ReadItems`, `CopyItem`; `ReadGrants`, `CopyGrant` |
| `createOrgUnit`, `createAppointment`, `createDraft`, `grantRole` (editors) | the actions of these names |
| `academic_year_one_current_uq`, `lock_guard`, `appointment_singleton_position_uq`, `transition_run_one_completed_uq` | `OneCurrent`, `Locked` in `Saves`, `SameSlot`, `MayComplete` |
| a time-out, a crash | `Fail`; `Fault` |

A phase reads the source and the target in one step and writes row by row, each
row in a transaction of its own, as the code does; the wizard is not one
transaction and a crash leaves it anywhere. A forced run takes over the row of the
completed one and sets it to running (`transition.mjs:380`); if it crashes, or if
another run completed and the index refuses to restore it, the row stays running,
which is why the property says no more than that it is never marked failed. Abstracted: labels and dates of a
year, the preview, the fields of the copied rows, the choice of phases (the run
copies everything), and archiving of the old year's rows.

### AccountRecovery

One member: the row of the account (`status`, whose `password`, `mustChange`),
the table of reset requests (`ticket`), the public form (`form`), one request
per administrator (`admin`), the member's browsers (`tab`), and whether the member
knows the password (`known`). A generated password is a value of `Generated`;
`Own` is any password the member chooses; `First` and `Kept` are the first password
of a new account, which `createUser` flags unless its input says `mustChangePassword:
false` (`admin.mjs:387`). The invariant says that the others of an administrator are
always flagged.

| Code | Actions |
|---|---|
| `ForgotCard`, `POST /api/account/forgot`, `createOpenRequest` | `Ask`, `AskForNothing`, `InsertTicket` |
| `assignNotification` | `AssignNotification`, `TakeTicket` |
| `fulfilResetRequest`, `forcePasswordReset`, `setUserPassword` | `FulfilResetRequest` or `ForcePasswordReset`, `SetUserPassword`, `CloseTicket`, `Deliver` |
| `createUser`, `resolveNotification`, `setUserStatus`, `deleteUser` | the actions of these names |
| `authorizeCredentials`, the `jwt` callback, sign-out | `SignIn`, `RefreshToken`, `SignOut` |
| `changeOwnPassword`, `shouldForcePasswordChange` | `ChangeOwnPassword`, `SaveOwnPassword`, `ForcedToChange` |
| a failure or a time-out | `FailAdmin`, `FailTab` |

A reset is shown to the administrator once and mailed by hand: between
`SetUserPassword` and `Deliver` nobody but the administrator's page holds it.
Abstracted: hashing, providers, who is an administrator, the audit rows, and the
other kinds of requests, which share the table and its code. Outside the model are
the two ways past the portal that set a password without the flag:
`scripts/dev-cli.mjs` with `--no-must-change` (lines 169 and 193) and the
developer's account of the seed (`prisma/seed.mjs:163`).

### RoleAdmin and AccessCheck

`RoleAdmin` has the tables that decide what one member may do (`role`, `grants`,
`override`, `member`) and the administrators' requests on them; `AccessCheck`
extends it with the resolver (`Resolve`, `Can`, `ManageableClubs`) and a request
that is being checked, `check`, whose four reads may fall between any commits.
`between` collects the answers that were right at some moment of the check.

| Code | Actions and operators |
|---|---|
| `grantRole`, `revokeRole` | `GrantRole`, `InsertGrant`; `RevokeRole` |
| `copyRoleAssignments` of a transition into the year | `CopyGrant`, `InsertGrant` |
| `createRole`, `updateRole` | `CreateRole`; `UpdateRole`, `WriteRow`, `DeletePermissions`, `CreatePermissions` |
| `setUserOverride`, `removeUserOverride`, `setUserOverrides` | `SetUserOverride`, `WriteOverride`; `RemoveUserOverride`; `SetUserOverrides`, `ApplyOne`, `RemoveOne`, `SetDone` |
| `updateUser` | `ChangeMember` |
| `user_permission_override_unique_uq`, the row lock of a patched role | `WriteAccepted`, `HoldsRow` |
| `resolveEffectivePermissions`, `inScope`, `scopedLineagesFor` | `Resolve`, `InScope`, `ManageableClubs` |
| `loadUserRbacInputs`, `userCan`, `assertPermission` | `BeginCheck`, `ReadMember`, `ReadGrants`, `ReadPermissions`, `ReadOverrides`, `Decide`, `Answer` |
| a time-out | `Fail` |

The transaction of `updateRole` is taken apart because its delete and its insert
see different commits: two replacements of one role mix their permissions, unless
both patch the role's own row as well, whose lock then orders them (`HoldsRow`).
The form of the portal always sends the name with the permissions, a caller of
the API need not. A grant is for the academic year or for no year in particular (`yearly`).
`grantRole` asks for one club only when the grant names a year, and among the grants
of that year (`admin.mjs:896`), so a grant without a year is neither asked nor found;
a transition copies grants into the year without asking (`transition.mjs:313`). The
rule that is checked and proved is about the grants of one year, and names the copy
beside the race. A check names the year, so that both kinds of grant count. Abstracted:
other years, and checks without a year
(`grants.mjs:24` says that an `undefined` year is unconstrained, while `inScope` lets
a year-scoped grant match nothing then), the reason of an override, labels, and the protected system role,
which refuses edits and is left out of `Edited`.

### OrgRoster

One unit and the holders of one of its positions. `row[i]` is a row of
`appointment` (person, status, archived), `unit` the status and `archived_at` of
the unit, `slot` the limit of holders and the official list, `req[r]` a request
with the change it carries, `sync` the script's progress. `subject` is what the
behaviour is about, the unit or its holders: they share no row.

| Code | Actions |
|---|---|
| `createAppointment`, `editAppointment`, `publishAppointment`, `archiveAppointment` | `Create`, `Edit`, `Publish`, `Archive`, each followed by `Write`, `Count`, `Commit` |
| `appointment_no_dup_active_uq`, `appointment_singleton_position_uq` | `Clash` in `Write`, which waits for an uncommitted rival |
| `appointment_cardinality_guard` (deferred trigger) | `Count` |
| `editOrgUnit`, `publishOrgUnit`, `archiveOrgUnit` | `EditUnit`, `WriteUnit`; `PublishUnit`; `ArchiveUnit` |
| `reconcile` of `sync-roster.mjs` | `Reconcile`, `LetGo`, `Find`, `PublishFound`, `Create`, `Finish` |
| a time-out; the script is stopped | `Abort`; `Kill` |

Every seeded position allows one holder or any number; the guard is written for
any limit, and the model gives it one, two and none. Abstracted: moves to another
position, slugs, parents and the hierarchy guard, year locks, the matching of
names, and the script's dry run and drafts. An edit of an appointment's status
leaves its `archived_at` alone; for a unit, `units.mjs:144` says that the two "can
never drift", and `UnitDriftsByRaceOnly` says when they do. It is about marks that
agree: `createOrgUnit` takes any status and sets no `archived_at` (`units.mjs:106`), so
a unit may start out archived with marks that never agreed, and the model starts
with every such unit.

### LiveStream

A quiz as its pages see it. `row` is the session's row with its revision, `past`
every committed one, `answers` the recorded answers, `now` the clock the revisions
are taken from. `host[r]` is a host's request up to its broadcast, `post[v]` an
answer on its way, `stream[v]` the server's end of a page's event stream, `queue[v]`
what is on its way to the page, `relay[p]` what Redis has for process `p`, `view[v]`
what the page shows and `lock[v]` the questions it takes to be answered.

| Code | Actions |
|---|---|
| `nextQuestion`, `revealQuestion`, `endSession` | `Ask`, `NextQuestion`, `RevealQuestion` or `EndSession`, `Stamp`, `Commit` |
| `broadcastState`, `getSessionState` | `ReadRow`, `ReadRest`, `PublishState`; a read that fails and is logged: `FailBroadcast` |
| `publish`, `emitLocal`, `subscribe`, `ensureRedisWired` | `Publish`, `Send`, `Listening`, `Wire`, `Receive`, `LoseRelay` |
| `sseResponse`, the route of the stream | `Connect`, `ReadOpeningRow`, `ReadOpeningRest`, `SendOpening`, `Drop`; an `onOpen` that fails and is logged: `FailOpening`; an answer other than 200, after which the page's `EventSource` stays closed: `RefuseConnect` |
| `useEventSource`, `LiveQuizPlayer` | `Deliver` (`Merge`), `Submit`, `TakenBack`, `LosePost` |
| `submitAnswer` and its route | `CheckAnswer`, `InsertAnswer`, `CountAnswers`, `PublishTick`, `RefuseAnswer`; a count that fails and is logged: `FailTick`; an insert whose answer is lost, so that no tick follows: `LoseInsert` |
| a process dies | `Crash` |

`missed`, `outdated`, `unheard` and `flags` are history variables. A page is in `missed`
from the moment a snapshot was lost to its stream, before it or on the way (a read that
fails, a process that dies, Redis, a process not wired yet), until one of the newest row
is sent to it or read for its opening; in `outdated` while the last message for
it was lost or sent out of date.

The module is about order and loss, so the session itself is cut to its statuses
and its current question: the question after the last one ends the session, the
bank is fixed and the window of an answer is left to `QuizSession`. Also
abstracted: the lobby and its count, the topic of the registration counts, the
snapshot a page is rendered with, the seeding of the member's own answer, and
the leaderboard, which is the number of answers it covers. Forwarding to Redis is
one step with the local delivery; the reads that complete a snapshot after its
row are one.

What the code does not do although a comment says so, and the model follows:
`sessions.mjs:98` calls the revision monotonic, yet it is a millisecond clock read
before the row is locked, and two transitions may get equal or reversed revisions
(flag `collided`); `LiveQuizPlayer.jsx:80` says that the optimistic lock is rolled
back on a real failure, yet a rejected `fetch` leaves it; a process publishes before
its Redis subscription is complete, and misses what arrives meanwhile.

## 3. Runs

| Run | What is varied | What it shows |
|---|---|---|
| `registrations_concurrent` | 2 requests, 2 accounts, 3 rows, capacities 1 and 2 saved meanwhile, faults | the inductive invariant (unique accounts, exclusive locks, promotion of waiting rows only), oversell only by a race, the seat ledger |
| `registrations_one_at_a_time` | 1 request, 3 accounts, 4 rows, every operation, capacities 0, 1, 2, unlimited | freed and opened seats refilled, in order; the board after each request |
| `registrations_answered` | 2 requests, 2 accounts, 2 rows, fairness | every request is answered |
| `capacity_exceeded` | 2 registrations | **violated**: the last seat is taken twice |
| `quiz_two_hosts` | 2 requests of hosts or a member, 2 sessions, 2 questions, reordering and edits of sort orders | the inductive invariant (one live session, one answer), the state machine left by a race only |
| `quiz_one_host` | 1 host and 1 member at the same time, 3 questions, new ones, edits of text and limit, deletions, a clock, limits 0 and 1 | each question once, answers within the limit their question was opened with |
| `viewers_follow` | four scenes: two hosts racing; two players racing; two processes with a fault; a player with a fault; connections refused in each | the inductive invariant (committed states only, no secret before its reveal, a lock only for an answer), pages behind by a lost snapshot only, counts off by a lost or overtaken last message only, a complete final board, no step back behind a reveal; every page that is not refused catches up for good |
| `content_editors` | 2 requests, 3 revisions, 2 pieces of work, every operation, faults | the inductive invariant (a usable item), what only a race can break |
| `years_and_transition` | 2 requests, 2 years, a council with a club, its head, page and coordinator, 2 run rows, 1 edit, faults and crashes | the inductive invariant (one current year, one completed run), complete targets, a current year at all times, locks lost by a race only, no completed run marked failed |
| `locked_out_member` | 2 administrators, 2 forms, 1 browser, 2 requests in the table, 3 generated passwords, 2 faults, fairness | the inductive invariant (one open request, passwords of an administrator flagged), reopening and overwriting by a race only; the member recovers and leaves the forced change |
| `roles_and_checks` | 2 administrators, 3 roles, 2 permissions, 2 clubs, a check between their commits | the inductive invariant (sets applied in full), a decision of its time; a whole set of permissions but for the race; one club in the year but for the race and the copies |
| `unit_and_holders` | a request and the script, 3 people, 3 rows, limits 1, 2 and none | the inductive invariant (the two indexes), too many holders and a drifting unit by a race only, the list in force |

**Bounds.** Two requests are enough for every race of two read-then-write calls,
and three at a time exceed what a run can explore; the proofs cover any number.
Per run:

- Registrations need three rows (a seat, its rival, one who waits) and, one at a
  time, a fourth and a third account so that the waitlist has an order to get wrong.
- A quiz needs two sessions for the index to matter and three questions for an
  order with a question in the middle; one tick of the clock and limits of 0 and 1
  separate in time from late and a limit from an edited one. `quiz_two_hosts` leaves
  out the clock, new questions and deletions, which `quiz_one_host` has; that one keeps
  the order of the bank (`Positions` is empty, no reordering), because another
  order makes `nextQuestion` ask a question again.
- `viewers_follow` has one question and three transitions (open, reveal, and end or
  reopen), `MaxTrouble` = 1 fault in the scenes that have one: a second fault
  repeats what one can do to a page that reconnects. The four scenes are initial
  states; together they have each pair that can race (hosts, players, processes, a
  player and the faults), and all of them at once exceed a run.
- An item needs three revisions for one in the history, one on the page and one draft.
- A transition needs a unit below another, so that parents are wired, and each
  kind of row once; a second run row, so that a run is resumed or forced.
- Recovery needs a second administrator and a second request for every race, and
  `MaxTrouble` = 2 faults or quarrels, so that one may hit the attempt to repair
  the other. `MaxTickets` bounds the table: without a free row nobody asks.
- The roles are one for a club, one whose permissions are edited and one that grants
  everything; at most two of the two administrators and the check are busy at a time
  (`MaxBusy` = 2), which every pair of them can be.
- Three people and three rows make the limit of two reachable with one to spare.

`SYMMETRY` permutes requests, accounts or rows that no action and no property
distinguishes, and is used in safety runs only: `viewers_follow`,
`locked_out_member` and `registrations_answered` have liveness properties and no
symmetry. `VIEW` (registrations) drops what no later step and no property of the
run reads: the counts on their way to the board, values a request has already
used, the owner of a row that is gone.

**Deadlock** is checked in every run but two. In `viewers_follow` a finished quiz
is at rest, in `locked_out_member` a deleted or revoked account may be.

**Fairness.** Nothing is assumed of new requests by hosts, players, editors or
administrators, nor of faults, but for the three cases named here.

- `registrations_answered`: a request in progress is carried on by the server
  (`WF_vars(Step(q))`), and a statement that waits for a lock gets it if it becomes
  free again and again (`SF_vars` of `Insert` and `Write`), because PostgreSQL queues
  the waiters of a transaction in the order of arrival.
- `viewers_follow`: the server goes on with what it started, the network delivers, and
  `EventSource` reconnects by itself after a drop. Each connection may be refused
  instead, and then the page is not followed any further: the property excepts it.
  Whether a process is ever wired to Redis is left open.
- `locked_out_member`: the server answers; a member who is locked out asks, though
  not while a mail is on its way (`MailOnTheWay`); a member sent to the form of
  the forced change fills it in; and the team works its queue (`FulfilSome`). An
  administrator who takes a request over from a colleague who holds it
  (`TakeOver`) uses up trouble: a team that takes requests from each other without
  end would never answer one, and the code does not forbid it.

A request of the other modules waits for nobody but in `OrgRoster`, whose locks are
held for one transaction, so that its end is not a question there.

**What the code's own words say.** `capacity_exceeded` is the run of a sentence the
code contradicts, quoted under `findings`. The others met on the way are races of
the same kind, covered by a "by a race only" property each: the state machine of
the quiz (`forms.mjs:164`), a pointer to a draft that an overtaken request clears
(migration `20260628120000_init`, line 1065), an inline edit that publishes the
draft of somebody else (`content.mjs:319`), and a seat that stays free beside a
waiting member (`registration.mjs:180`). `questions.mjs:140` says
that past scores are durable; an answer inserted between the count of answers and
the delete of the question goes with it.

## 4. Proofs

For any requests, accounts, members, rows, questions, years, units, roles, viewers,
processes and bounds that satisfy the constants' assumptions (which TLC evaluates in
every run):

| Module | Theorems |
|---|---|
| `EventRegistrationProofs` | `TypeCorrect`, `Invariance`, `OneActiveRegistration`, `LocksAreExclusive`, `PromotionRevivesNobody`, `OversellNeedsARace`, `RegistrationsImplementLedger`; one request at a time: `SeatsAreRefilled`, `PromotionsInOrder`, `BoardIsRight` |
| `QuizSessionProofs` | `Invariance`, `TypeCorrect`, `NeverTwoSessions`, `NeverTwoAnswers`, `TransitionsLostByRaceOnly`; one host at a time: `NeverLate`, `NoQuestionTwice` |
| `ContentLifecycleProofs` | `Invariance`, `ItemStaysUsable`, `PointersNeedARace`, `RewritingNeedsARace`, `InlineEditsAlone` |
| `YearTransitionProofs` | `Invariance`, `OneLiveYear`, `ResumableToCompletion`, `CurrentYearStays`, `LockOfCurrentIsARace`, `UndoneLockIsARace`, `CompletedIsNotFailed` |
| `AccountRecoveryProofs` | `Invariance`, `OneRequestWaits`, `TemporaryIsTemporary`, `ReopeningIsARace`, `OverwritingIsARace` |
| `AccessProofs` | `Invariance`, `SetsAreApplied`, `NothingOverlooked`, `SecondClubIsARace`, `ReplacedAsAsked`; of a check: `CheckInvariance`, `DecisionsAreOfTheirTime` |
| `OrgRosterProofs` | `Invariance`, `ScriptConverges`, `OverLimitIsARace`, `UnitDriftIsARace` |
| `LiveStreamProofs` | `Invariance`, `CommittedOnly`, `RevealStays`, `BehindIsALoss`, `LockedIsALoss`, `FinalBoards`, `CountsAreCrossed` |

Each module proves `Init => IInv` and `IInv /\ [Next]_vars => IInv'` with a lemma per
action, and derives its other theorems from `IInv`. Some theorems state a named
conjunct or a consequence of `IInv` (`OneActivePerUser`, `CurrentIsLive`,
`ShowsCommittedOnly` and others); the run of the module then checks `IInv`.

**Registration.** `OneActivePerUser` alone is not inductive: an uncommitted
insert is not in the table yet. `OnePossiblyActive` states it for what may become
active, and the unique index preserves it (`Insert`, `Write`) as long as a
promotion only turns waiting rows into confirmed ones (`OnlyWaitingConfirmed`),
which holds because the promoted rows are locked (`RowsLocked`), because no
transaction holds a lock before its first write (`NoLocksOutsideTx`), and because
rows beyond `last` are untouched (`FreshRows`). `CheckHolds` carries the result
of the capacity check from `Guard` to `Commit` for a request that nothing
overtook, which is what `OversellNeedsARace` needs. These are `TransactionsApart`.

`PromotesInMeasure`, the other half of `IInv`, says that a request which is not a
settings save has confirmed at most one row besides its own, and none before it picks.
That is what the refinement turns on: only a commit changes the table, and by
`OneActivePerUser` the seat of an account is the status of its one active row
(`SeatIs`), so a commit moves the account of the request's own row and gives a
seat to the account of one promoted row, or of several after a settings save
(`CommitMovesLedger`).

With one request at a time, `AloneInv` adds that what a promotion has read still
holds when it picks (`ReadsHold`), and says of the rows it leaves that they are the
right ones in the right number (`PromotesInOrder`, `PromotesEnough`). The two facts
about `Earliest` under it are lemmas of sets: the earliest come before the others
(`EarliestFirst`), and there are as many as asked for, or all (`EarliestFills`, from
the library's theorem that strict inclusion of finite sets is well-founded, since
an induction over the set is out of reach). The hypothesis that two requests are the same
request is needed: a seat freed while another request holds the waiting row's
lock stays free, and boards cross.

**Quiz.** A request carries facts about rows it does not hold: the session it
found (`FoundSession`), what it decided on the status it saw (`Decided`), the time
its question opens (`StampedBefore`), and for an answer the opening it measures its
time from (`AnswersAnOpening`). The last one follows from `ActiveWasOpened` at the
moment of the read and then survives anything, because openings are only added.
`OneLiveSession` and `OneAnswer` are kept by the unique indexes alone, whatever the
requests have read before. With `Decided`, a status that does not follow is written
over one that differs from what its writer saw: `TransitionsLostByRaceOnly`.

With one host, `LimitHeld` says that a question about to be edited is not open, since the
host's own request is the only one that could open it, and that an open question, and
an answer scored while it was open, still have the limit of the opening: `NeverLate`.
For the other one, `HostReads` says that what a request of the host has read is still
so, and `AskedInOrder` that every question a session has asked and that is still in the bank
comes before the current one, and that the current one is in the bank. The next
question is after the current one, so it is new; a question that is added
moves none that was asked, wherever it is put, and the current one is not deleted. Both
hypotheses of `NoQuestionTwice` are needed: a second host opens a question again, and so
does a host who reorders the bank or edits a sort order.

**Content.** `FreshReads` says that a request nobody crossed knows the item as it
is. Under it each transaction is one of four moves (`Opens`, `Writes`,
`Publishes`, `Unpublishes`, lemma `UndisturbedStep`), and each of them keeps the
pointers in line and the history untouched: that is the argument of the three
theorems about races. `StatusAndPointers` holds for overtaken requests too,
because every write of the item sets its status and both pointers together, or
leaves them. `InlineAlone` follows an inline edit through its three reads.

**Years.** `SpineSound` says what a request that was not overtaken knows of the year
it will write. `KeepsUp` says of each phase of a wizard that what it has read is in
the target or still to be written; rows are only added to the target, so nothing
that happens meanwhile can break it, and `TargetIsComplete` is its last case.
`RowSound` ties a wizard to the row it works under: its own, which is running, or
a completed one that it uses again and never marks as failed.

**Accounts.** The unique index keeps one open request at the insert; `HeldWhileAssigned`
and `AdminsHold` say that a ticket an administrator writes is still the one they read
unless they are `stale`, which is what the writes by id need. `TemporaryIsFlagged` needs
`TabsHold`: a browser about to clear the flag writes the member's own password
with it.

**Roles.** `OneHoldsRow` orders two edits that patch a role's row; `DeletesAll` says
that a replacement nobody overtook has deleted every permission there is, hence
leaves what was asked (`ReplacedAsAsked`). `SetInProgress` carries a set of
overrides row by row. `NothingOverlooked` is about the resolver alone: what it
allows for a club and not everywhere, the coordinator's page lists.

The run checks `AccessInv`, the invariant of the administration together with that of
a check in progress. `CheckInProgress` is about the decision the check would come to
if it read at once what it has still to read (`DecidedSoFar`): while nothing has
moved, every part it has read is as the tables have it (`NothingMoved`); a first
change leaves the old decision or makes the new one, both right at some moment;
only a second one can mix two moments. `DecisionIsOfItsTime` is the case of a
check that is over.

**Roster.** `NoClash` states the two indexes for the uncommitted writes as well,
`CountHolds` carries the count of the deferred trigger to the commit, `EditAgrees`
the agreement of a unit's edit with the row it read. `ListInProgress` is the
invariant of a script run nobody disturbs: every standing row is on the list, or
about to leave; every name is standing, or still to be looked up, or being brought.
It makes no assumption on the rows the script starts from, so that stopped runs
do not matter.

**Live stream.** `SoundEverywhere` says of every snapshot anywhere (read, sent,
relayed, shown) that it is of a committed row and keeps the secret of an open
question. `NobodyForgotten` says that a connected page to which no snapshot was lost
since the newest one it was sent is shown the newest row, or has it on its way, or a request that will bring
it: at rest only the first remains (`BehindIsALoss`). `PastInOrder` and
`OpenBeforeReveal` order the revisions, which the merge of the page relies on.
These and their like are `StreamInv`; two more parts follow it in `IInv`.

`FinalScores` says that, after the end, a snapshot of the last row has every answer
on its board wherever it is: read, sent, relayed or shown. A page at rest shows
one (`FinalBoards`). `CountsFollow` accounts for the number of answers a page shows:
something is under way that will be sent to it (`PendingFor`), or the last thing it
will hear of is the number in the table and nothing before makes it drop that
(`Settled`), or its last message was lost, or out of date when it was sent
(`CountsAreCrossed`).

Fields of one function value are updated as `![x] = [@ EXCEPT !.f = .., !.g = ..]`
and never by two clauses `![x].f`, `![x].g`, nor by two updates in a row: the
encoding of such chains for the SMT solver may treat their indices as different,
which would let a step be proved from a contradiction.

**Only model-checked:** the four liveness properties, `EveryRequestEnds`,
`EveryPageCatchesUp`, `ForcedMemberGetsOut` and `ForgottenRecovered`: fairness and
`ENABLED` are outside the prover's reach. Every other property of a passing run
is stated by a theorem. The five properties of sequential use (`SeatsRefilled`,
`PromotedInOrder`, `BoardFollowsRequests`, `AnsweredInAWindow`, `NeverAskedTwice`) are
proved under the hypotheses named above, which their runs satisfy; they are false
without them. `AloneInv`, `LimitHeld` and `OneHostInv`, which only these five proofs
use, are in the modules and hold in their runs, but no configuration lists them.

## 5. Plan

Done: the eight components above, each with its invariant proved. What would come
next, in this order:

1. The replaced sheets (scores, attendance, credits, organizers) and the review of
   closure reports in `lib/events/`.
2. The cache of feature flags and the rate limiter, in front of every service.
3. Memberships and their import.
4. An abstract content item (a page and its history), implemented for requests one at
   a time, and an abstract quiz session (a lobby, questions, an end) for one host.

## 6. Not modelled

The components without a module, and the reason for each, are listed in
`PROJECT.json`. The largest parts left out for good are the React pages, the
read layers that shape rows for them, the importers' data, the formatting of
Markdown and CSV, and the Cloudinary client.
