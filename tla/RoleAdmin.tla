----------------------------- MODULE RoleAdmin -----------------------------
(***************************************************************************)
(* What decides what ONE member may do, and the administrators who change  *)
(* it: the roles and their permissions, the member's grants of roles, the  *)
(* overrides of single permissions (lib/users/admin.mjs).                  *)
(*                                                                         *)
(* Each call checks with reads of its own and writes in a transaction of   *)
(* its own; the transactions run at READ COMMITTED, where a statement sees *)
(* what was committed when it began and waits for the rows it changes.     *)
(* One academic year: a grant is for that year, or for no year in          *)
(* particular.                                                             *)
(***************************************************************************)
EXTENDS FiniteSets

CONSTANTS
    Role,           \* keys of roles
    Perm,           \* keys of permissions
    Club,           \* lineages of org units
    Everywhere,     \* stands for "no unit": a grant for all, a request without one
    SystemRole,     \* the roles that are protected
    GrantsAll,      \* those of them that open everything
    OneClubRole,    \* ONE_CLUB_ROLE_KEYS
    Req,            \* requests of administrators
    Subject,        \* what the requests of one behaviour are about (bound)
    Edited,         \* the roles the requests are about (bound)
    Grant,          \* the grants the requests are about (bound)
    Slot,           \* the overrides the requests are about (bound)
    Wish,           \* the whole sets of overrides that are asked for (bound)
    Before          \* the tables as earlier requests may have left them (bound)

Unit == Club \cup {Everywhere}

\* The subjects there are: a behaviour of the model sees requests about one.
AllSubjects == {"grants", "roles", "overrides"}

ASSUME RoleAssumption ==
    /\ GrantsAll \subseteq SystemRole /\ SystemRole \subseteq Role
    /\ Perm # {}
    /\ OneClubRole \subseteq Role /\ Everywhere \notin Club
    /\ Subject \subseteq AllSubjects
    /\ Edited \subseteq Role \ SystemRole
    /\ Grant \subseteq [role : Role, unit : Unit, yearly : BOOLEAN]
    /\ Slot \subseteq [perm : Perm, unit : Unit]
    /\ {[perm |-> p, unit |-> Everywhere] : p \in Perm} \subseteq Slot

VARIABLES
    subject,    \* what the requests of this behaviour are about
    member,     \* the row of app_user: may be active, may be a developer
    role,       \* role[x]: the row of role x, with its rows of role_permission
    grants,     \* the member's rows of role_assignment that are not revoked
    override,   \* the member's rows of user_permission_override
    req,        \* req[r]: where request r is
    overtaken   \* history: requests whose reading another one's write overtook

tables == <<member, role, grants, override>>
vars == <<subject, member, role, grants, override, req, overtaken>>

Member == [active : BOOLEAN, developer : BOOLEAN]
RoleRow == [status : {"none", "active", "archived"}, perms : SUBSET Perm]
Mode == {"grant", "deny"}
None == "none"                          \* no row

\* The row for the whole institute.
Institute(p) == [perm |-> p, unit |-> Everywhere]
InstituteWide == {Institute(p) : p \in Perm}

Idle == [pc |-> "idle"]
InsertRequest == [pc : {"insert", "copy"}, grant : Grant]
EditRequest == [pc : {"row", "delete", "create"}, role : Role, asked : SUBSET Perm,
                status : {"keep", "active", "archived"}, named : BOOLEAN,
                victims : SUBSET Perm]
\* A single override has no plan; a set of them has the modes it wishes, the
\* permissions it has still to set and those whose row it has still to remove.
OverrideRequest == [pc : {"apply", "write"}, whole : BOOLEAN, slot : Slot,
                    mode : Mode, found : Mode \cup {None},
                    wish : [Perm -> Mode \cup {None}], toSet : SUBSET Perm,
                    toRemove : SUBSET Perm, gone : SUBSET Slot]

Tables == [member : Member, role : [Role -> RoleRow], grants : SUBSET Grant,
           override : [Slot -> Mode \cup {None}]]

ASSUME BoundAssumption ==
    /\ Wish \subseteq [Perm -> Mode \cup {None}]
    /\ Before \subseteq Tables

Init ==
    /\ subject \in Subject
    /\ \E t \in Before : /\ member = t.member
                          /\ role = t.role
                          /\ grants = t.grants
                          /\ override = t.override
    /\ req = [r \in Req |-> Idle]
    /\ overtaken = {}

-----------------------------------------------------------------------------
(* Helpers *)

On(r, pc) == req[r].pc = pc
Goes(r, then) == req' = [req EXCEPT ![r] = then]
Ends(r) == Goes(r, Idle) /\ overtaken' = overtaken \ {r}
Starts(r, about) == On(r, "idle") /\ subject = about
Overtakes(r, readers) == overtaken' = (overtaken \ {r}) \cup (readers \ {r})

\* Two clubs in one year, of a role that is for one.
Clash(g, h) ==
    /\ g.role = h.role /\ g.role \in OneClubRole
    /\ g.yearly /\ h.yearly
    /\ Everywhere \notin {g.unit, h.unit} /\ g.unit # h.unit

\* Who is past its reading and has not yet written.
Inserting(g) == {d \in Req : On(d, "insert") /\ Clash(req[d].grant, g)}
Replacing(x) == {d \in Req : On(d, "create") /\ req[d].role = x}
SettingInstitute == {d \in Req : req[d].pc \in {"apply", "write"} /\ req[d].whole}

-----------------------------------------------------------------------------
(* The member *)

\* setUserStatus and the developer flag of updateUser: one row, one statement.
ChangeMember ==
    /\ subject = "grants"
    /\ \E m \in Member : m # member /\ member' = m
    /\ UNCHANGED <<subject, role, grants, override, req, overtaken>>

-----------------------------------------------------------------------------
(* Grants *)

\* The one-club rule, which neither asks a grant without a year nor finds one.
NoOtherClub(g) == \A h \in grants : ~Clash(g, h)

\* Mutant: the rule is not asked for.
GrantAnyClub(r, g) ==
    /\ Starts(r, "grants")
    /\ role[g.role].status = "active"
    /\ g \notin grants
    /\ Goes(r, [pc |-> "insert", grant |-> g])
    /\ overtaken' = overtaken \ {r}
    /\ UNCHANGED <<subject, tables>>

\* grantRole looks for the role, for the same grant and for another club.
GrantRole(r, g) ==
    /\ Starts(r, "grants")
    /\ role[g.role].status = "active"
    /\ g \notin grants
    /\ NoOtherClub(g)
    /\ Goes(r, [pc |-> "insert", grant |-> g])
    /\ overtaken' = overtaken \ {r}
    /\ UNCHANGED <<subject, tables>>

\* copyRoleAssignments of a transition into the year: the grants of the year before
\* that were not there when it began, without another question.
CopyGrant(r, g) ==
    /\ Starts(r, "grants")
    /\ g.yearly
    /\ g \notin grants
    /\ Goes(r, [pc |-> "copy", grant |-> g])
    /\ overtaken' = overtaken \ {r}
    /\ UNCHANGED <<subject, tables>>

\* role_assignment_unique_active_grant_uq refuses a second identical grant.
InsertGrant(r) ==
    /\ req[r].pc \in {"insert", "copy"}
    /\ LET g == req[r].grant IN
       IF g \in grants THEN Ends(r) /\ UNCHANGED grants
       ELSE /\ grants' = grants \cup {g}
            /\ Goes(r, Idle) /\ Overtakes(r, Inserting(g))
    /\ UNCHANGED <<subject, member, role, override>>

\* revokeRole: a revoked row stays revoked, so its check is never overtaken.
RevokeRole(g) ==
    /\ subject = "grants"
    /\ g \in grants
    /\ grants' = grants \ {g}
    /\ UNCHANGED <<subject, member, role, override, req, overtaken>>

-----------------------------------------------------------------------------
(* Roles *)

\* The row of role x is locked by a transaction that has already written it.
HoldsRow(d, x) == req[d].pc \in {"delete", "create"} /\ req[d].role = x /\ req[d].named
RowIsFree(x) == \A d \in Req : ~HoldsRow(d, x)

\* A system role is not edited.  createRole: the unique key makes its check and its insert one.
CreateRole(x, asked) ==
    /\ subject = "roles"
    /\ role[x].status = "none"
    /\ role' = [role EXCEPT ![x] = [status |-> "active", perms |-> asked]]
    /\ UNCHANGED <<subject, member, grants, override, req, overtaken>>

\* updateRole without permissions: one statement on the row.
UpdateRoleRow(x, status) ==
    /\ subject \in {"roles", "grants"}
    /\ role[x].status \notin {"none", status}
    /\ RowIsFree(x)
    /\ role' = [role EXCEPT ![x].status = status]
    /\ UNCHANGED <<subject, member, grants, override, req, overtaken>>

\* updateRole with permissions.  A patch with a name, a description or a status
\* writes the role's row first, and so waits for another one that did.
UpdateRole(r, x, asked, status, named) ==
    /\ Starts(r, "roles")
    /\ role[x].status # "none"
    /\ status # "keep" => named
    /\ Goes(r, [pc |-> IF named THEN "row" ELSE "delete", role |-> x, asked |-> asked,
                status |-> status, named |-> named, victims |-> {}])
    /\ overtaken' = overtaken \ {r}
    /\ UNCHANGED <<subject, tables>>

\* Mutant: the statement does not wait for the row.
TakeRow(r) ==
    /\ On(r, "row")
    /\ Goes(r, [req[r] EXCEPT !.pc = "delete"])
    /\ UNCHANGED <<subject, tables, overtaken>>

WriteRow(r) ==
    /\ On(r, "row")
    /\ RowIsFree(req[r].role)
    /\ Goes(r, [req[r] EXCEPT !.pc = "delete"])
    /\ UNCHANGED <<subject, tables, overtaken>>

\* The delete sees the rows committed now.  It waits for another delete of the
\* same rows; either order ends alike, so no order is kept.
DeletePermissions(r) ==
    /\ On(r, "delete")
    /\ Goes(r, [req[r] EXCEPT !.pc = "create", !.victims = role[req[r].role].perms])
    /\ UNCHANGED <<subject, tables, overtaken>>

\* Mutant: the permissions are added and none is taken away.
AddPermissions(r) ==
    /\ On(r, "create")
    /\ LET e == req[r] IN
       /\ role' = [role EXCEPT ![e.role] =
                      [@ EXCEPT !.perms = @ \cup e.asked,
                                !.status = IF e.status = "keep" THEN @ ELSE e.status]]
       /\ Overtakes(r, Replacing(e.role))
    /\ Goes(r, Idle)
    /\ UNCHANGED <<subject, member, grants, override>>

\* The insert and the commit: refused where a row was added since the delete,
\* and then the transaction is undone.  Rows this one deleted are not deleted
\* again by another.
CreatePermissions(r) ==
    /\ On(r, "create")
    /\ LET e == req[r]
           left == role[e.role].perms \ e.victims IN
       IF left \cap e.asked # {}
       THEN Ends(r) /\ UNCHANGED role
       ELSE /\ role' = [role EXCEPT ![e.role] =
                 [status |-> IF e.status = "keep" THEN @.status ELSE e.status,
                  perms |-> left \cup e.asked]]
            /\ req' = [d \in Req |->
                 IF d = r THEN Idle
                 ELSE IF d \in Replacing(e.role)
                      THEN [req[d] EXCEPT !.victims = @ \ e.victims] ELSE req[d]]
            /\ Overtakes(r, Replacing(e.role))
    /\ UNCHANGED <<subject, member, grants, override>>

-----------------------------------------------------------------------------
(* Overrides *)

\* Who has read the row of slot s to write it, or to remove it later.
HoldsRowOf(d, s) ==
    /\ req[d].pc \in {"apply", "write"}
    /\ \/ On(d, "write") /\ req[d].slot = s /\ req[d].found # None
       \/ \E p \in req[d].toRemove : s = Institute(p)

\* One commit of r about slot s; a row that is removed is gone for who read it.
SaveOverride(r, s, mode, then) ==
    /\ override' = [override EXCEPT ![s] = mode]
    /\ req' = [d \in Req |->
         IF d = r THEN then
         ELSE IF mode = None /\ HoldsRowOf(d, s)
              THEN [req[d] EXCEPT !.gone = @ \cup {s}] ELSE req[d]]
    /\ overtaken' = (IF then = Idle THEN overtaken \ {r} ELSE overtaken)
                    \cup (IF s \in InstituteWide THEN SettingInstitute \ {r} ELSE {})
    /\ UNCHANGED <<subject, member, role, grants>>

\* setUserOverride reads the row of the slot; one that is as wished is kept.
SetUserOverride(r, s, mode) ==
    /\ Starts(r, "overrides")
    /\ override[s] # mode
    /\ Goes(r, [pc |-> "write", whole |-> FALSE, slot |-> s, mode |-> mode,
                found |-> override[s], wish |-> [p \in Perm |-> None],
                toSet |-> {}, toRemove |-> {}, gone |-> {}])
    /\ overtaken' = overtaken \ {r}
    /\ UNCHANGED <<subject, tables>>

NoSlot == CHOOSE s \in Slot : TRUE     \* where none is being written

\* Who has written or found nothing to write goes on with its set, if it has one.
Onward(r) ==
    IF req[r].whole
    THEN [req[r] EXCEPT !.pc = "apply", !.slot = NoSlot, !.mode = "deny", !.found = None,
                        !.gone = @ \ {req[r].slot}]
    ELSE Idle

\* The index of user_permission_override refuses a second row of a slot, and a
\* row that is gone is not updated: the request fails.
WriteAccepted(r) ==
    LET e == req[r] IN
    IF e.found = None THEN override[e.slot] = None ELSE e.slot \notin e.gone

WriteOverride(r) ==
    /\ On(r, "write")
    /\ IF WriteAccepted(r)
       THEN SaveOverride(r, req[r].slot, req[r].mode, Onward(r))
       ELSE Ends(r) /\ UNCHANGED <<subject, tables>>

\* removeUserOverride: by the id of a row, so of one that is there.
RemoveUserOverride(r, s) ==
    /\ Starts(r, "overrides")
    /\ override[s] # None
    /\ SaveOverride(r, s, None, Idle)

\* setUserOverrides reads the institute-wide rows once.
SetUserOverrides(r, wish) ==
    /\ Starts(r, "overrides")
    /\ Goes(r, [pc |-> "apply", whole |-> TRUE, slot |-> NoSlot,
                mode |-> "deny", found |-> None, wish |-> wish, gone |-> {},
                toSet |-> {p \in Perm : wish[p] \notin {None, override[Institute(p)]}},
                toRemove |-> {p \in Perm : wish[p] = None /\ override[Institute(p)] # None}])
    /\ overtaken' = overtaken \ {r}
    /\ UNCHANGED <<subject, tables>>

\* Its loop over the rows to set is one of calls of setUserOverride.
ApplyOne(r, p) ==
    /\ On(r, "apply")
    /\ p \in req[r].toSet
    /\ LET s == Institute(p)
           mode == req[r].wish[p]
           left == [req[r] EXCEPT !.toSet = @ \ {p}] IN
       Goes(r, IF override[s] = mode THEN left
               ELSE [left EXCEPT !.pc = "write", !.slot = s, !.mode = mode,
                                 !.found = override[s], !.gone = @ \ {s}])
    /\ UNCHANGED <<subject, tables, overtaken>>

\* Then the rows it read and does not wish, by their ids; one that is gone is
\* not found, and ends the request.
RemoveOne(r, p) ==
    /\ On(r, "apply") /\ req[r].toSet = {}
    /\ p \in req[r].toRemove
    /\ IF Institute(p) \in req[r].gone
       THEN Ends(r) /\ UNCHANGED <<subject, tables>>
       ELSE SaveOverride(r, Institute(p), None, [req[r] EXCEPT !.toRemove = @ \ {p}])

SetDone(r) ==
    /\ On(r, "apply") /\ req[r].toSet = {} /\ req[r].toRemove = {}
    /\ Ends(r)
    /\ UNCHANGED <<subject, tables>>

-----------------------------------------------------------------------------
\* A statement fails, and with it the rest of its call.
Fail(r) ==
    /\ ~On(r, "idle")
    /\ Ends(r)
    /\ UNCHANGED <<subject, tables>>

RoleStep(r) ==
    \/ \E x \in Edited, asked \in SUBSET Perm, status \in {"keep", "active", "archived"},
          named \in BOOLEAN : UpdateRole(r, x, asked, status, named)
    \/ WriteRow(r) \/ DeletePermissions(r) \/ CreatePermissions(r)

OverrideStep(r) ==
    \/ \E s \in Slot, mode \in Mode : SetUserOverride(r, s, mode)
    \/ WriteOverride(r)
    \/ \E s \in Slot : RemoveUserOverride(r, s)
    \/ \E wish \in Wish : SetUserOverrides(r, wish)
    \/ \E p \in Perm : ApplyOne(r, p) \/ RemoveOne(r, p)
    \/ SetDone(r)

Next ==
    \/ ChangeMember
    \/ \E g \in Grant : RevokeRole(g)
    \/ \E x \in Edited, asked \in SUBSET Perm : CreateRole(x, asked)
    \/ \E x \in Edited, status \in {"active", "archived"} : UpdateRoleRow(x, status)
    \/ \E r \in Req : \/ \E g \in Grant : GrantRole(r, g) \/ CopyGrant(r, g)
                      \/ InsertGrant(r) \/ RoleStep(r) \/ OverrideStep(r) \/ Fail(r)

Spec == Init /\ [][Next]_vars

-----------------------------------------------------------------------------
(* Invariant *)

TypeOK ==
    /\ subject \in Subject
    /\ member \in Member
    /\ role \in [Role -> RoleRow]
    /\ grants \subseteq Grant
    /\ override \in [Slot -> Mode \cup {None}]
    /\ req \in [Req -> {Idle} \cup InsertRequest \cup EditRequest \cup OverrideRequest]
    /\ overtaken \subseteq Req

\* Two patches that write the row of one role never both stand between the
\* delete and the insert of its permissions.
OneHoldsRow ==
    \A c, d \in Req, x \in Role : HoldsRow(c, x) /\ HoldsRow(d, x) => c = d

\* A grant about to be inserted is for the one club, or was overtaken.
GrantStillFits ==
    \A r \in Req : On(r, "insert") /\ r \notin overtaken => NoOtherClub(req[r].grant)

\* A delete that no other replacement overtook covers every permission of a
\* role that is there.
DeletesAll ==
    \A r \in Req :
        /\ req[r].pc \in {"row", "delete", "create"} => role[req[r].role].status # "none"
        /\ On(r, "create") /\ r \notin overtaken =>
               role[req[r].role].perms \subseteq req[r].victims

\* A set of overrides that no other writer crossed: what it has not still to
\* do is as it wishes.
SetInProgress ==
    \A r \in Req, p \in Perm : req[r].pc \in {"apply", "write"} =>
        /\ p \in req[r].toSet => req[r].wish[p] # None
        /\ p \in req[r].toRemove => req[r].wish[p] = None
        /\ req[r].whole /\ r \notin overtaken =>
              /\ \/ override[Institute(p)] = req[r].wish[p]
                 \/ p \in req[r].toSet \cup req[r].toRemove
                 \/ On(r, "write") /\ req[r].slot = Institute(p)
              /\ On(r, "write") /\ req[r].slot = Institute(p) => req[r].mode = req[r].wish[p]

IInv == TypeOK /\ OneHoldsRow /\ GrantStillFits /\ DeletesAll /\ SetInProgress

-----------------------------------------------------------------------------
(* Properties *)

\* A coordinator coordinates one club in a year: only a grant that was checked before
\* a rival's was inserted, or one that a transition copies into the year, brings a
\* second one (admin.mjs, grantRole).  Grants without a year are outside the rule.
OneClubIn(held) == \A g, h \in held : ~Clash(g, h)

OneClubByRaceOnly ==
    [][OneClubIn(grants) =>
         \/ OneClubIn(grants')
         \/ \E r \in Req : /\ On(r, "copy") \/ (On(r, "insert") /\ r \in overtaken)
                           /\ grants' = grants \cup {req[r].grant}]_vars

\* A saved set of permissions is the role's whole set, unless another one of
\* the same role was saved between this one's delete and its insert; patches
\* that also write the role's row never cross one another (updateRole).
RoleIsAsAsked ==
    [][\A r \in Req : On(r, "create") /\ On(r, "idle")' /\ role' # role =>
         \/ role'[req[r].role].perms = req[r].asked
         \/ r \in overtaken]_vars

\* When a whole set of overrides is applied, the institute-wide rows are that
\* set, unless another administrator wrote one meanwhile (setUserOverrides).
AppliedInFull ==
    \A r \in SettingInstitute \ overtaken :
        On(r, "apply") /\ req[r].toSet = {} /\ req[r].toRemove = {} =>
            \A p \in Perm : override[Institute(p)] = req[r].wish[p]
=============================================================================
