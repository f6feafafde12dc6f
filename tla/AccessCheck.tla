---------------------------- MODULE AccessCheck ----------------------------
(***************************************************************************)
(* How a request is allowed or refused (lib/rbac/authorize.mjs), and which *)
(* clubs a coordinator is shown (lib/rbac/grants.mjs), while the           *)
(* administrators of RoleAdmin change what decides it.                     *)
(*                                                                         *)
(* Nothing is kept from one request to the next.  Within a request the     *)
(* member is read first, then the grants and the overrides side by side,   *)
(* and the permissions of the roles after the grants: four statements, and *)
(* a commit may fall between any two of them.                              *)
(***************************************************************************)
EXTENDS RoleAdmin, Naturals

CONSTANTS
    Question,       \* the permissions and units that are asked about (bound)
    MaxBusy         \* bound: how many requests are in progress at a time

ASSUME QuestionAssumption ==
    Question \subseteq [perm : Perm, unit : Unit] /\ MaxBusy \in Nat

VARIABLES
    check,      \* the check in progress, or the last one
    between,    \* history: the right decisions since it began
    moved       \* history: how many parts of the tables changed since (at most 2)

checkVars == <<check, between, moved>>
accessVars == <<vars, checkVars>>

-----------------------------------------------------------------------------
(* The resolver *)

\* inScope: of a row for unit u and a request about `scope'.
InScope(u, scope) == u \in {Everywhere, scope}

\* The roles held at a scope: active grants of active roles.
RolesAt(scope) ==
    {g.role : g \in {h \in grants : InScope(h.unit, scope) /\ role[h.role].status = "active"}}

PermsOf(roles) == UNION {role[x].perms : x \in roles}

OverridesAt(scope, p, mode) ==
    \E s \in Slot : s.perm = p /\ InScope(s.unit, scope) /\ override[s] = mode

\* resolveEffectivePermissions and can: a role that grants all comes before the
\* overrides, and a denial before everything else.
Resolve(roles, holds, granted, denied) ==
    \/ roles \cap GrantsAll # {}
    \/ (holds \/ granted) /\ ~denied

\* userCan, of what the tables hold now.
Can(p, scope) ==
    /\ member.active
    /\ \/ member.developer
       \/ Resolve(RolesAt(scope), p \in PermsOf(RolesAt(scope)),
                  OverridesAt(scope, p, "grant"), OverridesAt(scope, p, "deny"))

\* scopedLineagesFor: the clubs of an active grant or of a granting override.
Candidates ==
    {c \in Club : \/ \E g \in grants : g.unit = c /\ role[g.role].status = "active"
                  \/ \E s \in Slot : s.unit = c /\ override[s] = "grant"}

\* Those where one of the permissions is held; for a developer, or a member who
\* is not active, nothing is loaded.
ManageableClubs(perms) ==
    {c \in Candidates : /\ member.active /\ ~member.developer
                        /\ \E p \in perms : Can(p, c)}

-----------------------------------------------------------------------------
(* A check *)

Part == {"grants", "permissions", "overrides"}

CheckRecord == [pc : {"idle", "member", "reading", "done"}, perm : Perm, scope : Unit,
                unread : SUBSET Part, roles : SUBSET Role, holds : BOOLEAN,
                granted : BOOLEAN, denied : BOOLEAN, allowed : BOOLEAN]

Reads(then) == check' = then /\ UNCHANGED vars

Nothing(pc, p, scope) ==
    [pc |-> pc, perm |-> p, scope |-> scope, unread |-> Part, roles |-> {},
     holds |-> FALSE, granted |-> FALSE, denied |-> FALSE, allowed |-> FALSE]

NoCheck == Nothing("idle", CHOOSE p \in Perm : TRUE, Everywhere)

Decides(allowed) == [Nothing("done", check.perm, check.scope) EXCEPT !.allowed = allowed]

\* assertPermission: a check begins with nothing known.
BeginCheck(p, scope) ==
    /\ check = NoCheck
    /\ Reads(Nothing("member", p, scope))

\* Mutant: the status of the account is not looked at.
ReadAnyMember ==
    /\ check.pc = "member"
    /\ Reads(IF member.developer THEN Decides(TRUE) ELSE [check EXCEPT !.pc = "reading"])

\* loadUserRbacInputs: the row of the member settles some checks at once.
ReadMember ==
    /\ check.pc = "member"
    /\ Reads(IF ~member.active THEN Decides(FALSE)
             ELSE IF member.developer THEN Decides(TRUE)
             ELSE [check EXCEPT !.pc = "reading"])

Reading(part) == check.pc = "reading" /\ part \in check.unread

ReadGrants ==
    /\ Reading("grants")
    /\ Reads([check EXCEPT !.unread = @ \ {"grants"}, !.roles = RolesAt(check.scope)])

ReadPermissions ==
    /\ Reading("permissions") /\ "grants" \notin check.unread
    /\ Reads([check EXCEPT !.unread = @ \ {"permissions"},
                           !.holds = check.perm \in PermsOf(check.roles)])

ReadOverrides ==
    /\ Reading("overrides")
    /\ Reads([check EXCEPT !.unread = @ \ {"overrides"},
                  !.granted = OverridesAt(check.scope, check.perm, "grant"),
                  !.denied = OverridesAt(check.scope, check.perm, "deny")])

Decide ==
    /\ check.pc = "reading" /\ check.unread = {}
    /\ Reads(Decides(Resolve(check.roles, check.holds, check.granted, check.denied)))

\* The request goes on, or ends with an error.
Answer ==
    /\ check.pc = "done"
    /\ Reads(NoCheck)

CheckStep ==
    \/ \E q \in Question : BeginCheck(q.perm, q.unit)
    \/ ReadMember \/ ReadGrants \/ ReadPermissions \/ ReadOverrides \/ Decide \/ Answer

-----------------------------------------------------------------------------
(* The composition *)

\* The parts a commit changes: the member, the grants that count, the
\* permissions of the roles, the overrides.
Counting == {g \in grants : role[g.role].status = "active"}
PermsByRole == [x \in Role |-> role[x].perms]
PartsMoved ==
    (IF member' # member THEN 1 ELSE 0) + (IF Counting' # Counting THEN 1 ELSE 0)
    + (IF PermsByRole' # PermsByRole THEN 1 ELSE 0) + (IF override' # override THEN 1 ELSE 0)

\* Between the beginning of a check and its decision.
InCheck == check.pc \in {"member", "reading"}

History ==
    CASE check'.pc = "idle" -> between' = {} /\ moved' = 0
      [] check.pc = "idle" /\ check'.pc = "member" ->
           between' = {Can(check'.perm, check'.scope)} /\ moved' = 0
      [] InCheck ->
           /\ between' = between \cup {Can(check.perm, check.scope)'}
           /\ moved' = IF moved + PartsMoved > 2 THEN 2 ELSE moved + PartsMoved
      [] OTHER -> UNCHANGED <<between, moved>>

AccessInit ==
    /\ Init
    /\ check = NoCheck
    /\ between = {} /\ moved = 0

Busy == Cardinality({r \in Req : ~On(r, "idle")}) + (IF check = NoCheck THEN 0 ELSE 1)

AccessNext ==
    /\ \/ Next /\ UNCHANGED check
       \/ CheckStep
    /\ History
    /\ Busy' <= MaxBusy

AccessSpec == AccessInit /\ [][AccessNext]_accessVars

-----------------------------------------------------------------------------
(* Properties *)

\* A decision is one that was right at some moment since the check began: a
\* role, a permission or an override that was taken away before has no effect
\* on it, and one change that falls between its reads gives the old or the new
\* answer.  Two parts that change meanwhile may give an answer of neither.
DecisionIsOfItsTime ==
    check.pc = "done" => check.allowed \in between \/ moved = 2

\* What a check would decide if it read at once what it has still to read.
RolesSoFar == IF "grants" \in check.unread THEN RolesAt(check.scope) ELSE check.roles
HoldsSoFar == IF "permissions" \in check.unread
              THEN check.perm \in PermsOf(RolesSoFar) ELSE check.holds
GrantedSoFar == IF "overrides" \in check.unread
                THEN OverridesAt(check.scope, check.perm, "grant") ELSE check.granted
DeniedSoFar == IF "overrides" \in check.unread
               THEN OverridesAt(check.scope, check.perm, "deny") ELSE check.denied
DecidedSoFar == Resolve(RolesSoFar, HoldsSoFar, GrantedSoFar, DeniedSoFar)

\* What it has read is still what the tables hold.
NothingMoved ==
    /\ member.active /\ ~member.developer
    /\ RolesSoFar = RolesAt(check.scope)
    /\ HoldsSoFar <=> check.perm \in PermsOf(RolesAt(check.scope))
    /\ GrantedSoFar <=> OverridesAt(check.scope, check.perm, "grant")
    /\ DeniedSoFar <=> OverridesAt(check.scope, check.perm, "deny")

\* Until a second part moves, a check is on its way to a decision that was right.
CheckInProgress ==
    /\ check \in CheckRecord /\ moved \in 0..2
    /\ InCheck => Can(check.perm, check.scope) \in between
    /\ check.pc = "member" => check.unread = Part
    /\ check.pc = "reading" =>
         /\ "grants" \in check.unread => "permissions" \in check.unread
         /\ moved = 0 => NothingMoved
         /\ moved < 2 => DecidedSoFar \in between

\* The inductive invariant of the composition.
AccessInv == IInv /\ CheckInProgress /\ DecisionIsOfItsTime

\* What a member may do for a club and not for the whole institute, the page of
\* the coordinators shows them (scopedLineagesFor), for grants and overrides.
NoClubOverlooked ==
    ~member.developer =>
        \A c \in Club, p \in Perm : Can(p, c) /\ ~Can(p, Everywhere) => c \in ManageableClubs({p})
=============================================================================
