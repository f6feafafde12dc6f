---------------------------- MODULE AccessProofs ----------------------------
(***************************************************************************)
(* Proofs about RoleAdmin and AccessCheck, for every number of roles,      *)
(* permissions, clubs and requests.                                        *)
(***************************************************************************)
EXTENDS AccessCheck, TLAPS

-----------------------------------------------------------------------------
(* What the invariant says of one request *)

Request == {Idle} \cup InsertRequest \cup EditRequest \cup OverrideRequest

\* Of a request that replaces permissions.
EditFits(q, clean) ==
    q.pc \in {"row", "delete", "create"} =>
        /\ role[q.role].status # "none"
        /\ q.pc = "create" /\ clean => role[q.role].perms \subseteq q.victims

\* Of a request that applies a whole set of overrides.
SetFits(q, clean) ==
    q.pc \in {"apply", "write"} =>
        \A p \in Perm :
            /\ p \in q.toSet => q.wish[p] # None
            /\ p \in q.toRemove => q.wish[p] = None
            /\ q.whole /\ clean =>
                  /\ \/ override[Institute(p)] = q.wish[p]
                     \/ p \in q.toSet \cup q.toRemove
                     \/ q.pc = "write" /\ q.slot = Institute(p)
                  /\ q.pc = "write" /\ q.slot = Institute(p) => q.mode = q.wish[p]

GrantFits(q, clean) == q.pc = "insert" /\ clean => NoOtherClub(q.grant)

Fits(q, clean) == GrantFits(q, clean) /\ EditFits(q, clean) /\ SetFits(q, clean)

\* The invariant, request by request.
LEMMA ByRequest ==
    IInv <=> /\ TypeOK /\ OneHoldsRow
             /\ \A r \in Req : Fits(req[r], r \notin overtaken)
<1>1. GrantStillFits <=> \A r \in Req : GrantFits(req[r], r \notin overtaken)
  BY DEF GrantStillFits, GrantFits, On
<1>2. DeletesAll <=> \A r \in Req : EditFits(req[r], r \notin overtaken)
  BY DEF DeletesAll, EditFits, On
<1>3. SetInProgress <=> \A r \in Req : SetFits(req[r], r \notin overtaken)
  BY DEF SetInProgress, SetFits, On
<1> QED
  BY <1>1, <1>2, <1>3 DEF IInv, Fits

\* The same of the next state.
LEMMA ByRequestNext ==
    ASSUME TypeOK', OneHoldsRow', \A r \in Req : Fits(req[r], r \notin overtaken)'
    PROVE  IInv'
<1>1. GrantStillFits'
  BY DEF Fits, GrantStillFits, GrantFits, On
<1>2. DeletesAll'
  BY DEF Fits, DeletesAll, EditFits, On
<1>3. SetInProgress'
  BY DEF Fits, SetInProgress, SetFits, On
<1> QED
  BY <1>1, <1>2, <1>3 DEF IInv

\* The kinds of requests are told apart by where they are.
LEMMA Kinds ==
    ASSUME NEW q \in Request
    PROVE  /\ q.pc \in {"idle", "insert", "copy", "row", "delete", "create", "apply", "write"}
           /\ q.pc = "idle" <=> q = Idle
           /\ q.pc \in {"insert", "copy"} => q \in InsertRequest
           /\ q.pc \in {"row", "delete", "create"} => q \in EditRequest
           /\ q.pc \in {"apply", "write"} => q \in OverrideRequest
  BY DEF Request, Idle, InsertRequest, EditRequest, OverrideRequest

\* Nothing is said of an idle request.
LEMMA IdleFits == \A clean \in BOOLEAN : Fits(Idle, clean)
  BY DEF Fits, GrantFits, EditFits, SetFits, Idle

\* What is not overtaken has more to satisfy.
LEMMA LessSaid ==
    ASSUME NEW q, NEW c \in BOOLEAN, NEW d \in BOOLEAN, d => c, Fits(q, c)
    PROVE  Fits(q, d)
  BY DEF Fits, GrantFits, EditFits, SetFits

\* A request that moves and writes no table.
LEMMA RequestMoves ==
    ASSUME IInv, NEW r \in Req, NEW then \in Request, Goes(r, then),
           overtaken' = overtaken \/ overtaken' = overtaken \ {r},
           Fits(then, r \notin overtaken'),
           then.pc \in {"delete", "create"} /\ then.named =>
               (On(r, "row") /\ RowIsFree(then.role)) \/ HoldsRow(r, then.role),
           UNCHANGED <<subject, tables>>
    PROVE  IInv'
<1>1. TypeOK /\ OneHoldsRow /\ \A d \in Req : Fits(req[d], d \notin overtaken)
  BY ByRequest
<1>2. /\ req'[r] = then
      /\ \A d \in Req \ {r} : req'[d] = req[d]
      /\ req' \in [Req -> Request]
  BY <1>1 DEF TypeOK, Goes, Request
<1>3. TypeOK'
  BY <1>1, <1>2 DEF TypeOK, tables, Request
<1>4. ASSUME NEW d \in Req PROVE Fits(req[d], d \notin overtaken)'
  <2>1. CASE d = r
    BY <2>1, <1>2 DEF Fits, GrantFits, EditFits, SetFits, NoOtherClub, tables
  <2>2. CASE d # r
    <3>1. Fits(req[d], d \notin overtaken')
      BY <2>2, <1>1, LessSaid
    <3> QED
      BY <2>2, <3>1, <1>2 DEF Fits, GrantFits, EditFits, SetFits, NoOtherClub, tables
  <2> QED
    BY <2>1, <2>2
<1>5. OneHoldsRow'
  <2> SUFFICES ASSUME NEW c \in Req, NEW d \in Req, NEW x \in Role,
                      HoldsRow(c, x)', HoldsRow(d, x)', c # d
               PROVE  FALSE
    BY DEF OneHoldsRow
  <2>1. \A e \in Req \ {r} : HoldsRow(e, x)' => HoldsRow(e, x)
    BY <1>2 DEF HoldsRow
  <2>2. CASE c # r /\ d # r
    BY <2>1, <2>2, <1>1 DEF OneHoldsRow
  <2>3. CASE c = r
    <3>1. then.pc \in {"delete", "create"} /\ then.named /\ then.role = x
      BY <2>3, <1>2 DEF HoldsRow
    <3>2. HoldsRow(d, x)
      BY <2>1, <2>3
    <3> QED
      BY <2>3, <3>1, <3>2, <1>1 DEF OneHoldsRow, RowIsFree
  <2>4. CASE d = r
    <3>1. then.pc \in {"delete", "create"} /\ then.named /\ then.role = x
      BY <2>4, <1>2 DEF HoldsRow
    <3>2. HoldsRow(c, x)
      BY <2>1, <2>4
    <3> QED
      BY <2>4, <3>1, <3>2, <1>1 DEF OneHoldsRow, RowIsFree
  <2> QED
    BY <2>2, <2>3, <2>4
<1> QED
  BY <1>3, <1>4, <1>5, ByRequestNext

\* A commit of request r that another one may be overtaken by: every other
\* request stays where it is, and what it relied on is as it was, or it is
\* overtaken.
LEMMA RequestCommits ==
    ASSUME IInv, NEW r \in Req, TypeOK',
           req'[r] \in Request, req'[r].pc \notin {"delete", "create"},
           Fits(req[r], r \notin overtaken)',
           \A d \in Req \ {r} :
               /\ req'[d].pc = req[d].pc
               /\ req[d].pc \in {"row", "delete", "create"} =>
                      req'[d].role = req[d].role /\ req'[d].named = req[d].named
               /\ Fits(req[d], d \notin overtaken)'
    PROVE  IInv'
<1>1. OneHoldsRow'
  <2> SUFFICES ASSUME NEW c \in Req, NEW d \in Req, NEW x \in Role,
                      HoldsRow(c, x)', HoldsRow(d, x)'
               PROVE  c = d
    BY DEF OneHoldsRow
  <2>1. \A e \in Req : HoldsRow(e, x)' => HoldsRow(e, x)
    BY DEF HoldsRow
  <2> QED
    BY <2>1 DEF OneHoldsRow, IInv
<1> QED
  BY <1>1, ByRequestNext

\* A change of a role's row, which no request that is at work on it notices.
LEMMA TablesMove ==
    ASSUME IInv, UNCHANGED <<subject, override, req, overtaken>>,
           member' \in Member, role' \in [Role -> RoleRow], grants' \subseteq grants,
           \A x \in Role : role[x].status # "none" =>
               role'[x].perms = role[x].perms /\ role'[x].status # "none"
    PROVE  IInv'
<1>1. TypeOK /\ OneHoldsRow /\ \A d \in Req : Fits(req[d], d \notin overtaken)
  BY ByRequest
<1>2. TypeOK' /\ OneHoldsRow'
  BY <1>1 DEF TypeOK, OneHoldsRow, HoldsRow
<1>3. ASSUME NEW d \in Req PROVE Fits(req[d], d \notin overtaken)'
  <2>1. GrantFits(req[d], d \notin overtaken)'
    BY <1>1 DEF Fits, GrantFits, NoOtherClub
  <2>2. EditFits(req[d], d \notin overtaken)'
    <3>1. req[d] \in Request
      BY <1>1 DEF TypeOK, Request
    <3>2. req[d].pc \in {"row", "delete", "create"} => req[d].role \in Role
      BY <3>1, Kinds DEF EditRequest
    <3> QED
      BY <1>1, <3>2 DEF Fits, EditFits
  <2>3. SetFits(req[d], d \notin overtaken)'
    BY <1>1 DEF Fits, SetFits
  <2> QED
    BY <2>1, <2>2, <2>3 DEF Fits
<1> QED
  BY <1>2, <1>3, ByRequestNext

-----------------------------------------------------------------------------
(* The actions *)

LEMMA ChangeMemberKeeps == IInv /\ ChangeMember => IInv'
  BY TablesMove DEF ChangeMember, IInv, TypeOK

LEMMA RevokeRoleKeeps == \A g : IInv /\ RevokeRole(g) => IInv'
  BY TablesMove DEF RevokeRole, IInv, TypeOK

LEMMA CreateRoleKeeps ==
    ASSUME NEW x \in Edited, NEW asked \in SUBSET Perm, IInv, CreateRole(x, asked)
    PROVE  IInv'
<1>1. x \in Role
  BY RoleAssumption
<1>2. /\ role' = [role EXCEPT ![x] = [status |-> "active", perms |-> asked]]
      /\ role[x].status = "none"
      /\ role \in [Role -> RoleRow]
  BY DEF CreateRole, IInv, TypeOK
<1>3. role' \in [Role -> RoleRow]
  BY <1>1, <1>2 DEF RoleRow
<1>4. \A y \in Role : role[y].status # "none" => role'[y] = role[y]
  BY <1>1, <1>2
<1> QED
  BY <1>3, <1>4, TablesMove DEF CreateRole, IInv, TypeOK

LEMMA UpdateRoleRowKeeps ==
    ASSUME NEW x \in Edited, NEW status \in {"active", "archived"}, IInv,
           UpdateRoleRow(x, status)
    PROVE  IInv'
<1>1. x \in Role
  BY RoleAssumption
<1>2. /\ role' = [role EXCEPT ![x].status = status]
      /\ role \in [Role -> RoleRow]
  BY DEF UpdateRoleRow, IInv, TypeOK
<1>3. \A y \in Role : /\ role'[y].perms = role[y].perms
                      /\ role[y].status # "none" => role'[y].status # "none"
  BY <1>1, <1>2 DEF RoleRow
<1>4. role' \in [Role -> RoleRow]
  BY <1>1, <1>2 DEF RoleRow
<1> QED
  BY <1>3, <1>4, TablesMove DEF UpdateRoleRow, IInv, TypeOK

LEMMA EndsKeeps ==
    ASSUME NEW r \in Req, IInv, Ends(r), UNCHANGED <<subject, tables>>
    PROVE  IInv'
<1>1. Idle \in Request /\ Idle.pc = "idle"
  BY DEF Request, Idle
<1> QED
  BY <1>1, IdleFits, RequestMoves DEF Ends

LEMMA GrantRoleKeeps ==
    ASSUME NEW r \in Req, NEW g \in Grant, IInv, GrantRole(r, g)
    PROVE  IInv'
<1> DEFINE then == [pc |-> "insert", grant |-> g]
<1>1. then \in Request /\ then.pc = "insert"
  BY DEF Request, InsertRequest
<1>2. Fits(then, r \notin overtaken')
  BY DEF GrantRole, Fits, GrantFits, EditFits, SetFits
<1>3. Goes(r, then) /\ overtaken' = overtaken \ {r} /\ UNCHANGED <<subject, tables>>
  BY DEF GrantRole
<1> HIDE DEF then
<1> QED
  BY <1>1, <1>2, <1>3, RequestMoves

LEMMA CopyGrantKeeps ==
    ASSUME NEW r \in Req, NEW g \in Grant, IInv, CopyGrant(r, g)
    PROVE  IInv'
<1> DEFINE then == [pc |-> "copy", grant |-> g]
<1>1. then \in Request /\ then.pc = "copy"
  BY DEF Request, InsertRequest
<1>2. Fits(then, r \notin overtaken')
  BY <1>1 DEF Fits, GrantFits, EditFits, SetFits
<1>3. Goes(r, then) /\ overtaken' = overtaken \ {r} /\ UNCHANGED <<subject, tables>>
  BY DEF CopyGrant
<1> HIDE DEF then
<1> QED
  BY <1>1, <1>2, <1>3, RequestMoves

LEMMA InsertGrantKeeps ==
    ASSUME NEW r \in Req, IInv, InsertGrant(r)
    PROVE  IInv'
<1> DEFINE g == req[r].grant
<1>1. TypeOK /\ OneHoldsRow /\ \A d \in Req : Fits(req[d], d \notin overtaken)
  BY ByRequest
<1>2. g \in Grant
  BY <1>1, Kinds DEF TypeOK, InsertGrant, On, InsertRequest, Request
<1>3. CASE g \in grants
  BY <1>3, EndsKeeps DEF InsertGrant, tables
<1>4. CASE g \notin grants
  <2>1. /\ grants' = grants \cup {g}
        /\ req' = [req EXCEPT ![r] = Idle]
        /\ overtaken' = (overtaken \ {r}) \cup (Inserting(g) \ {r})
        /\ UNCHANGED <<subject, member, role, override>>
    BY <1>4 DEF InsertGrant, Goes, Overtakes
  <2> HIDE DEF g
  <2>2. /\ req'[r] = Idle
        /\ \A d \in Req \ {r} : req'[d] = req[d]
        /\ Idle \in Request /\ Idle.pc = "idle"
    BY <2>1, <1>1 DEF TypeOK, Idle, Request
  <2>3. TypeOK'
    BY <1>1, <1>2, <2>1 DEF TypeOK, Inserting
  <2>4. Fits(req[r], r \notin overtaken)'
    BY <2>2 DEF Fits, GrantFits, EditFits, SetFits
  <2>5. ASSUME NEW d \in Req \ {r} PROVE Fits(req[d], d \notin overtaken)'
    <3>1. d \notin overtaken' => d \notin overtaken
      BY <2>1
    <3>2. Fits(req[d], d \notin overtaken')
      BY <3>1, <1>1, LessSaid
    <3>3. GrantFits(req[d], d \notin overtaken)'
      <4> SUFFICES ASSUME req[d].pc = "insert", d \notin overtaken' PROVE NoOtherClub(req[d].grant)'
        BY <2>2 DEF GrantFits
      <4>1. ~Clash(g, req[d].grant)
        BY <2>1 DEF Inserting, On, Clash
      <4>2. NoOtherClub(req[d].grant)
        BY <3>2 DEF Fits, GrantFits
      <4>3. \A h \in grants' : ~Clash(req[d].grant, h)
        BY <4>1, <4>2, <2>1 DEF NoOtherClub, Clash
      <4> QED
        BY <4>3, <2>2 DEF NoOtherClub
    <3> QED
      BY <3>2, <3>3, <2>1, <2>2 DEF Fits, EditFits, SetFits
  <2> QED
    BY <2>2, <2>3, <2>4, <2>5, RequestCommits
<1> QED
  BY <1>3, <1>4

LEMMA UpdateRoleKeeps ==
    ASSUME NEW r \in Req, NEW x \in Edited, NEW asked \in SUBSET Perm,
           NEW status \in {"keep", "active", "archived"}, NEW named \in BOOLEAN,
           IInv, UpdateRole(r, x, asked, status, named)
    PROVE  IInv'
<1> DEFINE then == [pc |-> IF named THEN "row" ELSE "delete", role |-> x, asked |-> asked,
                    status |-> status, named |-> named, victims |-> {}]
<1>1. /\ then \in EditRequest /\ then \in Request
      /\ then.role = x /\ then.named = named /\ then.pc # "create"
      /\ then.pc = "delete" => ~then.named
      /\ then.pc \in {"row", "delete"}
  BY RoleAssumption DEF Request, EditRequest
<1>2. /\ Goes(r, then) /\ overtaken' = overtaken \ {r} /\ UNCHANGED <<subject, tables>>
      /\ role[x].status # "none"
  BY DEF UpdateRole
<1> HIDE DEF then
<1>3. Fits(then, r \notin overtaken')
  BY <1>1, <1>2 DEF Fits, GrantFits, EditFits, SetFits
<1> QED
  BY <1>1, <1>2, <1>3, RequestMoves

LEMMA WriteRowKeeps ==
    ASSUME NEW r \in Req, IInv, WriteRow(r)
    PROVE  IInv'
<1> DEFINE then == [req[r] EXCEPT !.pc = "delete"]
<1>1. req[r] \in EditRequest /\ Fits(req[r], r \notin overtaken) /\ req[r].pc = "row"
  BY ByRequest, Kinds DEF TypeOK, WriteRow, On, Request
<1>2. /\ then \in EditRequest /\ then \in Request
      /\ then.role = req[r].role /\ then.pc = "delete"
  BY <1>1 DEF Request, EditRequest
<1>3. Goes(r, then) /\ UNCHANGED <<subject, tables, overtaken>> /\ RowIsFree(req[r].role)
  BY DEF WriteRow
<1> HIDE DEF then
<1>4. Fits(then, r \notin overtaken')
  BY <1>1, <1>2, <1>3 DEF Fits, GrantFits, EditFits, SetFits
<1> QED
  BY <1>1, <1>2, <1>3, <1>4, RequestMoves DEF On

LEMMA DeletePermissionsKeeps ==
    ASSUME NEW r \in Req, IInv, DeletePermissions(r)
    PROVE  IInv'
<1> DEFINE then == [req[r] EXCEPT !.pc = "create", !.victims = role[req[r].role].perms]
<1>1. /\ req[r] \in EditRequest /\ Fits(req[r], r \notin overtaken) /\ req[r].pc = "delete"
      /\ role \in [Role -> RoleRow]
  BY ByRequest, Kinds DEF TypeOK, DeletePermissions, On, Request
<1>2. /\ then \in EditRequest /\ then \in Request
      /\ then.role = req[r].role /\ then.pc = "create" /\ then.named = req[r].named
      /\ then.victims = role[req[r].role].perms
  BY <1>1 DEF Request, EditRequest, RoleRow
<1>3. Goes(r, then) /\ UNCHANGED <<subject, tables, overtaken>>
  BY DEF DeletePermissions
<1> HIDE DEF then
<1>4. Fits(then, r \notin overtaken')
  BY <1>1, <1>2, <1>3 DEF Fits, GrantFits, EditFits, SetFits
<1>5. then.named => HoldsRow(r, then.role)
  BY <1>1, <1>2 DEF HoldsRow
<1> QED
  BY <1>2, <1>3, <1>4, <1>5, RequestMoves

LEMMA CreatePermissionsKeeps ==
    ASSUME NEW r \in Req, IInv, CreatePermissions(r)
    PROVE  IInv'
<1> DEFINE e == req[r]
           left == role[e.role].perms \ e.victims
<1>1. TypeOK /\ OneHoldsRow /\ \A d \in Req : Fits(req[d], d \notin overtaken)
  BY ByRequest
<1>2. e \in EditRequest /\ e.pc = "create" /\ role[e.role].status # "none"
  BY <1>1, Kinds DEF TypeOK, CreatePermissions, On, Request, Fits, EditFits
<1>3. CASE left \cap e.asked # {}
  BY <1>3, EndsKeeps DEF CreatePermissions, tables
<1>4. CASE left \cap e.asked = {}
  <2> DEFINE row == [status |-> IF e.status = "keep" THEN role[e.role].status ELSE e.status,
                     perms |-> left \cup e.asked]
             shorter(d) == [req[d] EXCEPT !.victims = @ \ e.victims]
  <2>1. /\ role' = [role EXCEPT ![e.role] = row]
        /\ req' = [d \in Req |-> IF d = r THEN Idle
                                 ELSE IF d \in Replacing(e.role) THEN shorter(d) ELSE req[d]]
        /\ overtaken' = (overtaken \ {r}) \cup (Replacing(e.role) \ {r})
        /\ UNCHANGED <<subject, member, grants, override>>
    BY <1>2, <1>4 DEF CreatePermissions, Overtakes
  <2>2. row \in RoleRow /\ row.status # "none" /\ e.role \in Role
    BY <1>1, <1>2 DEF TypeOK, EditRequest, RoleRow
  <2>3. ASSUME NEW d \in Replacing(e.role)
        PROVE  /\ d \in Req
               /\ shorter(d) \in EditRequest /\ shorter(d).pc = req[d].pc
               /\ shorter(d).role = req[d].role /\ shorter(d).named = req[d].named
               /\ req[d].role = e.role /\ req[d].pc = "create"
    <3>1. req[d] \in EditRequest /\ req[d].role = e.role /\ req[d].pc = "create" /\ d \in Req
      BY <1>1, <2>3, Kinds DEF TypeOK, Replacing, On, Request
    <3> QED
      BY <3>1 DEF EditRequest
  <2> HIDE DEF row, shorter, e, left
  <2>4. /\ req'[r] = Idle
        /\ \A d \in Req \ {r} : req'[d] = IF d \in Replacing(e.role) THEN shorter(d) ELSE req[d]
        /\ Idle \in Request /\ Idle.pc = "idle"
    BY <2>1 DEF Idle, Request
  <2>5. TypeOK'
    <3>1. req' \in [Req -> Request]
      BY <1>1, <2>1, <2>3, <2>4 DEF TypeOK, Request
    <3>2. role' \in [Role -> RoleRow]
      BY <1>1, <2>1, <2>2 DEF TypeOK
    <3> QED
      BY <1>1, <2>1, <3>1, <3>2 DEF TypeOK, Request, Replacing
  <2>6. Fits(req[r], r \notin overtaken)'
    BY <2>4 DEF Fits, GrantFits, EditFits, SetFits
  <2>7. ASSUME NEW d \in Req \ {r}
        PROVE  /\ req'[d].pc = req[d].pc
               /\ req[d].pc \in {"row", "delete", "create"} =>
                      req'[d].role = req[d].role /\ req'[d].named = req[d].named
               /\ Fits(req[d], d \notin overtaken)'
    <3>1. CASE d \in Replacing(e.role)
      <4>1. req'[d] = shorter(d) /\ d \in overtaken' /\ role'[e.role] = row
        BY <3>1, <2>1, <2>2, <2>4, <1>1 DEF TypeOK
      <4> QED
        BY <3>1, <4>1, <2>2, <2>3 DEF Fits, GrantFits, EditFits, SetFits
    <3>2. CASE d \notin Replacing(e.role)
      <4>1. req'[d] = req[d] /\ (d \notin overtaken' => d \notin overtaken)
        BY <3>2, <2>1, <2>4
      <4>2. Fits(req[d], d \notin overtaken')
        BY <4>1, <1>1, LessSaid
      <4>3. req[d].pc \in {"row", "delete", "create"} => req[d].role \in Role
        BY <1>1, Kinds DEF TypeOK, Request, EditRequest
      <4>4. req[d].pc = "create" => req[d].role # e.role
        BY <3>2 DEF Replacing, On
      <4>5. EditFits(req[d], d \notin overtaken)'
        BY <4>1, <4>2, <4>3, <4>4, <2>1, <2>2, <1>1 DEF TypeOK, Fits, EditFits
      <4> QED
        BY <4>1, <4>2, <4>5, <2>1 DEF Fits, GrantFits, SetFits, NoOtherClub
    <3> QED
      BY <3>1, <3>2
  <2> QED
    BY <2>4, <2>5, <2>6, <2>7, RequestCommits
<1> QED
  BY <1>3, <1>4

-----------------------------------------------------------------------------
(* The overrides *)

LEMMA InstituteSlots ==
    /\ \A p \in Perm : Institute(p) \in Slot /\ Institute(p) \in InstituteWide
    /\ \A p, q \in Perm : Institute(p) = Institute(q) => p = q
  BY RoleAssumption DEF Institute, InstituteWide

\* A commit of r to slot s: those with a whole set are overtaken, or it was not
\* a row for the institute.
LEMMA OverrideSaved ==
    ASSUME IInv, NEW r \in Req, NEW s \in Slot, NEW mode \in Mode \cup {None},
           NEW then \in Request, SaveOverride(r, s, mode, then),
           then = Idle \/ then.pc = "apply",
           Fits(req[r], r \notin overtaken)'
    PROVE  IInv'
<1> DEFINE told(d) == [req[d] EXCEPT !.gone = @ \cup {s}]
<1>1. TypeOK /\ OneHoldsRow /\ \A d \in Req : Fits(req[d], d \notin overtaken)
  BY ByRequest
<1>2. /\ override' = [override EXCEPT ![s] = mode]
      /\ req' = [d \in Req |-> IF d = r THEN then
                   ELSE IF mode = None /\ HoldsRowOf(d, s) THEN told(d) ELSE req[d]]
      /\ s \in InstituteWide => SettingInstitute \ {r} \subseteq overtaken'
      /\ overtaken' \subseteq Req
      /\ \A d \in Req \ {r} : d \notin overtaken' => d \notin overtaken
      /\ UNCHANGED <<subject, member, role, grants>>
  BY <1>1 DEF SaveOverride, SettingInstitute, TypeOK
<1>3. ASSUME NEW d \in Req, HoldsRowOf(d, s)
      PROVE  /\ told(d) \in OverrideRequest
             /\ req[d].pc \in {"apply", "write"} /\ told(d).pc = req[d].pc
             /\ told(d).whole = req[d].whole /\ told(d).wish = req[d].wish
             /\ told(d).toSet = req[d].toSet /\ told(d).toRemove = req[d].toRemove
             /\ told(d).slot = req[d].slot /\ told(d).mode = req[d].mode
  <2>1. req[d].pc \in {"apply", "write"}
    BY <1>3 DEF HoldsRowOf
  <2>2. req[d] \in OverrideRequest
    BY <1>1, <2>1, Kinds DEF TypeOK, Request
  <2> QED
    BY <2>1, <2>2 DEF OverrideRequest
<1> HIDE DEF told
<1>4. /\ req'[r] = then
      /\ \A d \in Req \ {r} :
           req'[d] = IF mode = None /\ HoldsRowOf(d, s) THEN told(d) ELSE req[d]
      /\ \A d \in Req \ {r} : req'[d].pc = req[d].pc
  BY <1>2, <1>3
<1>5. TypeOK'
  <2>1. req' \in [Req -> Request]
    BY <1>1, <1>2, <1>3 DEF TypeOK, Request
  <2> QED
    BY <1>1, <1>2, <2>1 DEF TypeOK, Request
<1>6. then.pc \in {"idle", "apply"}
  BY DEF Idle
<1>7. ASSUME NEW d \in Req \ {r}
      PROVE  /\ req[d].pc \in {"row", "delete", "create"} =>
                    req'[d].role = req[d].role /\ req'[d].named = req[d].named
             /\ Fits(req[d], d \notin overtaken)'
  <2>1. Fits(req[d], d \notin overtaken')
    BY <1>1, <1>2, LessSaid
  <2>2. req[d].pc \notin {"apply", "write"} => req'[d] = req[d]
    BY <1>3, <1>4
  <2>3. GrantFits(req[d], d \notin overtaken)' /\ EditFits(req[d], d \notin overtaken)'
    BY <1>2, <1>4, <2>1, <2>2 DEF Fits, GrantFits, EditFits, NoOtherClub
  <2>4. SetFits(req[d], d \notin overtaken)'
    <3> SUFFICES ASSUME req'[d].pc \in {"apply", "write"}
                 PROVE  SetFits(req[d], d \notin overtaken)'
      BY DEF SetFits
    <3>1. /\ req[d].pc \in {"apply", "write"} /\ req'[d].pc = req[d].pc
          /\ req'[d].whole = req[d].whole /\ req'[d].wish = req[d].wish
          /\ req'[d].toSet = req[d].toSet /\ req'[d].toRemove = req[d].toRemove
          /\ req'[d].slot = req[d].slot /\ req'[d].mode = req[d].mode
      BY <1>3, <1>4
    <3>2. req[d].whole /\ d \notin overtaken' =>
            \A p \in Perm : override'[Institute(p)] = override[Institute(p)]
      <4> SUFFICES ASSUME req[d].whole, d \notin overtaken', NEW p \in Perm
                   PROVE  override'[Institute(p)] = override[Institute(p)]
        OBVIOUS
      <4>1. s \notin InstituteWide
        BY <1>2, <3>1 DEF SettingInstitute
      <4> QED
        BY <1>1, <1>2, <4>1, InstituteSlots DEF TypeOK
    <3> QED
      BY <2>1, <3>1, <3>2 DEF Fits, SetFits
  <2> QED
    BY <2>2, <2>3, <2>4 DEF Fits
<1> QED
  BY <1>4, <1>5, <1>6, <1>7, RequestCommits

LEMMA SetUserOverrideKeeps ==
    ASSUME NEW r \in Req, NEW s \in Slot, NEW mode \in Mode, IInv, SetUserOverride(r, s, mode)
    PROVE  IInv'
<1> DEFINE then == [pc |-> "write", whole |-> FALSE, slot |-> s, mode |-> mode,
                    found |-> override[s], wish |-> [p \in Perm |-> None],
                    toSet |-> {}, toRemove |-> {}, gone |-> {}]
<1>1. override[s] \in Mode \cup {None}
  BY DEF IInv, TypeOK
<1>2. then \in OverrideRequest /\ then \in Request /\ ~then.whole /\ then.pc = "write"
      /\ then.toSet = {} /\ then.toRemove = {}
  BY <1>1 DEF OverrideRequest, Request
<1>3. Goes(r, then) /\ overtaken' = overtaken \ {r} /\ UNCHANGED <<subject, tables>>
  BY DEF SetUserOverride
<1> HIDE DEF then
<1>4. Fits(then, r \notin overtaken')
  BY <1>2 DEF Fits, GrantFits, EditFits, SetFits
<1> QED
  BY <1>2, <1>3, <1>4, RequestMoves

LEMMA SetUserOverridesKeeps ==
    ASSUME NEW r \in Req, NEW wish \in Wish, IInv, SetUserOverrides(r, wish)
    PROVE  IInv'
<1> DEFINE toSet == {p \in Perm : wish[p] \notin {None, override[Institute(p)]}}
           toRemove == {p \in Perm : wish[p] = None /\ override[Institute(p)] # None}
           then == [pc |-> "apply", whole |-> TRUE, slot |-> NoSlot, mode |-> "deny",
                    found |-> None, wish |-> wish, gone |-> {}, toSet |-> toSet,
                    toRemove |-> toRemove]
<1>1. wish \in [Perm -> Mode \cup {None}]
  BY BoundAssumption
<1>2. Goes(r, then) /\ overtaken' = overtaken \ {r} /\ UNCHANGED <<subject, tables>>
  BY DEF SetUserOverrides
<1>3. NoSlot \in Slot
  BY RoleAssumption DEF NoSlot
<1>4. then \in OverrideRequest /\ then \in Request /\ then.pc = "apply"
  BY <1>1, <1>3 DEF OverrideRequest, Request, Mode
<1>5. Fits(then, r \notin overtaken')
  BY DEF Fits, GrantFits, EditFits, SetFits
<1> HIDE DEF then
<1> QED
  BY <1>2, <1>4, <1>5, RequestMoves

LEMMA ApplyOneKeeps ==
    ASSUME NEW r \in Req, NEW p \in Perm, IInv, ApplyOne(r, p)
    PROVE  IInv'
<1> DEFINE s == Institute(p)
           mode == req[r].wish[p]
           left == [req[r] EXCEPT !.toSet = @ \ {p}]
           at == [left EXCEPT !.pc = "write", !.slot = s, !.mode = mode,
                              !.found = override[s], !.gone = @ \ {s}]
<1>1. /\ req[r] \in OverrideRequest /\ Fits(req[r], r \notin overtaken)
      /\ req[r].pc = "apply" /\ p \in req[r].toSet
      /\ override \in [Slot -> Mode \cup {None}]
  BY ByRequest, Kinds DEF TypeOK, ApplyOne, On, Request
<1>2. s \in Slot /\ \A q \in Perm : Institute(q) = s => q = p
  BY InstituteSlots
<1>3. UNCHANGED <<subject, tables, overtaken>>
      /\ Goes(r, IF override[s] = mode THEN left ELSE at)
  BY DEF ApplyOne
<1>4. CASE override[s] = mode
  <2>1. /\ left \in OverrideRequest /\ left \in Request /\ left.pc = "apply"
        /\ left.whole = req[r].whole /\ left.wish = req[r].wish
        /\ left.toSet = req[r].toSet \ {p} /\ left.toRemove = req[r].toRemove
    BY <1>1 DEF OverrideRequest, Request
  <2> HIDE DEF left
  <2>2. Fits(left, r \notin overtaken')
    BY <1>1, <1>3, <1>4, <2>1 DEF Fits, GrantFits, EditFits, SetFits
  <2> QED
    BY <1>3, <1>4, <2>1, <2>2, RequestMoves
<1>5. CASE override[s] # mode
  <2>1. mode \in Mode
    BY <1>1 DEF OverrideRequest, Fits, SetFits
  <2>2. /\ at \in OverrideRequest /\ at \in Request /\ at.pc = "write"
        /\ at.whole = req[r].whole /\ at.wish = req[r].wish
        /\ at.toSet = req[r].toSet \ {p} /\ at.toRemove = req[r].toRemove
        /\ at.slot = s /\ at.mode = mode
    BY <1>1, <1>2, <2>1 DEF OverrideRequest, Request
  <2> HIDE DEF at, left
  <2>3. Fits(at, r \notin overtaken')
    BY <1>1, <1>2, <1>3, <2>2 DEF Fits, GrantFits, EditFits, SetFits
  <2> QED
    BY <1>3, <1>5, <2>2, <2>3, RequestMoves
<1> QED
  BY <1>4, <1>5

LEMMA WriteOverrideKeeps ==
    ASSUME NEW r \in Req, IInv, WriteOverride(r)
    PROVE  IInv'
<1> DEFINE then == Onward(r)
           s == req[r].slot
           mode == req[r].mode
<1>1. /\ req[r] \in OverrideRequest /\ Fits(req[r], r \notin overtaken)
      /\ req[r].pc = "write" /\ override \in [Slot -> Mode \cup {None}]
  BY ByRequest, Kinds DEF TypeOK, WriteOverride, On, Request
<1>2. s \in Slot /\ mode \in Mode
  BY <1>1 DEF OverrideRequest
<1>3. CASE ~WriteAccepted(r)
  BY <1>3, EndsKeeps DEF WriteOverride
<1>4. CASE WriteAccepted(r)
  <2>1. SaveOverride(r, s, mode, then)
    BY <1>4 DEF WriteOverride
  <2>2. override'[s] = mode /\ \A u \in Slot \ {s} : override'[u] = override[u]
    BY <1>1, <1>2, <2>1 DEF SaveOverride
  <2>3. r \notin overtaken' /\ then # Idle => r \notin overtaken
    BY <2>1 DEF SaveOverride
  <2>4. req'[r] = then
    BY <2>1 DEF SaveOverride
  <2>5. CASE ~req[r].whole
    <3>1. then = Idle /\ then \in Request
      BY <2>5 DEF Onward, Request
    <3> HIDE DEF then
    <3>2. Fits(req[r], r \notin overtaken)'
      BY <2>4, <3>1 DEF Fits, GrantFits, EditFits, SetFits, Idle
    <3> QED
      BY <1>2, <2>1, <3>1, <3>2, OverrideSaved
  <2>6. CASE req[r].whole
    <3>0. NoSlot \in Slot
      BY RoleAssumption DEF NoSlot
    <3>1. /\ then \in OverrideRequest /\ then \in Request /\ then.pc = "apply"
          /\ then.wish = req[r].wish /\ then.whole
          /\ then.toSet = req[r].toSet /\ then.toRemove = req[r].toRemove
      BY <1>1, <2>6, <3>0 DEF Onward, OverrideRequest, Request, Mode
    <3>2. then # Idle
      BY <3>1 DEF Idle
    <3> HIDE DEF then
    <3>3. Fits(req[r], r \notin overtaken)'
      <4> SUFFICES SetFits(req[r], r \notin overtaken)'
        BY <2>4, <3>1 DEF Fits, GrantFits, EditFits
      <4> SUFFICES ASSUME NEW p \in Perm
                   PROVE  /\ p \in then.toSet => then.wish[p] # None
                          /\ p \in then.toRemove => then.wish[p] = None
                          /\ r \notin overtaken' =>
                                \/ override'[Institute(p)] = then.wish[p]
                                \/ p \in then.toSet \cup then.toRemove
        BY <2>4, <3>1 DEF SetFits
      <4>1. Institute(p) \in Slot
        BY InstituteSlots
      <4> QED
        BY <1>1, <2>2, <2>3, <2>6, <3>1, <3>2, <4>1 DEF Fits, SetFits
    <3> QED
      BY <1>2, <2>1, <3>1, <3>3, OverrideSaved
  <2> QED
    BY <2>5, <2>6
<1> QED
  BY <1>3, <1>4

LEMMA RemoveUserOverrideKeeps ==
    ASSUME NEW r \in Req, NEW s \in Slot, IInv, RemoveUserOverride(r, s)
    PROVE  IInv'
<1>1. SaveOverride(r, s, None, Idle)
  BY DEF RemoveUserOverride
<1>2. Idle \in Request
  BY DEF Request
<1>3. req'[r] = Idle
  BY <1>1 DEF SaveOverride
<1>4. Fits(req[r], r \notin overtaken)'
  BY <1>3 DEF Fits, GrantFits, EditFits, SetFits, Idle
<1> QED
  BY <1>1, <1>2, <1>4, OverrideSaved

LEMMA RemoveOneKeeps ==
    ASSUME NEW r \in Req, NEW p \in Perm, IInv, RemoveOne(r, p)
    PROVE  IInv'
<1> DEFINE then == [req[r] EXCEPT !.toRemove = @ \ {p}]
           s == Institute(p)
<1>1. /\ req[r] \in OverrideRequest /\ Fits(req[r], r \notin overtaken)
      /\ req[r].pc = "apply" /\ req[r].toSet = {} /\ p \in req[r].toRemove
      /\ override \in [Slot -> Mode \cup {None}]
  BY ByRequest, Kinds DEF TypeOK, RemoveOne, On, Request
<1>2. CASE s \in req[r].gone
  BY <1>2, EndsKeeps DEF RemoveOne
<1>3. CASE s \notin req[r].gone
  <2>1. SaveOverride(r, s, None, then)
    BY <1>3 DEF RemoveOne
  <2>2. /\ then \in OverrideRequest /\ then \in Request /\ then.pc = "apply"
        /\ then.wish = req[r].wish /\ then.whole = req[r].whole
        /\ then.toSet = {} /\ then.toRemove = req[r].toRemove \ {p}
    BY <1>1 DEF OverrideRequest, Request
  <2>3. then # Idle
    BY <2>2 DEF Idle
  <2> HIDE DEF then
  <2>4. s \in Slot /\ override'[s] = None
        /\ \A u \in Slot \ {s} : override'[u] = override[u]
    BY <1>1, <2>1, InstituteSlots DEF SaveOverride
  <2>5. r \notin overtaken' => r \notin overtaken
    BY <2>1, <2>3 DEF SaveOverride
  <2>6. req'[r] = then
    BY <2>1 DEF SaveOverride
  <2>7. Fits(req[r], r \notin overtaken)'
    <3> SUFFICES ASSUME NEW q \in Perm
                 PROVE  /\ q \in then.toRemove => then.wish[q] = None
                        /\ then.whole /\ r \notin overtaken' =>
                              override'[Institute(q)] = then.wish[q] \/ q \in then.toRemove
      BY <2>2, <2>6 DEF Fits, GrantFits, EditFits, SetFits
    <3>1. Institute(q) \in Slot
      BY InstituteSlots
    <3>2. CASE q = p
      BY <1>1, <2>2, <2>4, <3>2 DEF Fits, SetFits
    <3>3. CASE q # p
      <4>1. Institute(q) # s
        BY <3>3, InstituteSlots
      <4>2. override'[Institute(q)] = override[Institute(q)]
        BY <2>4, <3>1, <4>1
      <4> QED
        BY <1>1, <2>2, <2>5, <3>3, <4>2 DEF Fits, SetFits
    <3> QED
      BY <3>2, <3>3
  <2> QED
    BY <2>1, <2>2, <2>4, <2>7, OverrideSaved
<1> QED
  BY <1>2, <1>3

-----------------------------------------------------------------------------
(* The invariant *)

LEMMA InitInv == Init => IInv
<1> SUFFICES ASSUME Init PROVE IInv
  OBVIOUS
<1>1. PICK t \in Before : /\ member = t.member
                          /\ role = t.role
                          /\ grants = t.grants
                          /\ override = t.override
  BY DEF Init
<1>2. t \in Tables
  BY BoundAssumption
<1>3. TypeOK
  BY <1>1, <1>2 DEF Init, TypeOK, Tables
<1>4. \A r \in Req : req[r].pc = "idle"
  BY DEF Init, Idle
<1>5. OneHoldsRow
  BY <1>4 DEF OneHoldsRow, HoldsRow
<1> QED
  BY <1>3, <1>4, <1>5 DEF IInv, GrantStillFits, DeletesAll, SetInProgress, On

LEMMA NextInv == IInv /\ [Next]_vars => IInv'
<1> SUFFICES ASSUME IInv, [Next]_vars PROVE IInv'
  OBVIOUS
<1>1. CASE ChangeMember
  BY <1>1, ChangeMemberKeeps
<1>2. CASE \E g \in Grant : RevokeRole(g)
  BY <1>2, RevokeRoleKeeps
<1>3. CASE \E x \in Edited, asked \in SUBSET Perm : CreateRole(x, asked)
  BY <1>3, CreateRoleKeeps
<1>4. CASE \E x \in Edited, status \in {"active", "archived"} : UpdateRoleRow(x, status)
  BY <1>4, UpdateRoleRowKeeps
<1>5. ASSUME NEW r \in Req,
             \/ \E g \in Grant : GrantRole(r, g) \/ CopyGrant(r, g)
             \/ InsertGrant(r) \/ RoleStep(r) \/ OverrideStep(r) \/ Fail(r)
      PROVE  IInv'
  <2>1. CASE (\E g \in Grant : GrantRole(r, g) \/ CopyGrant(r, g)) \/ InsertGrant(r)
    BY <2>1, GrantRoleKeeps, CopyGrantKeeps, InsertGrantKeeps
  <2>2. CASE RoleStep(r)
    BY <2>2, UpdateRoleKeeps, WriteRowKeeps, DeletePermissionsKeeps, CreatePermissionsKeeps
       DEF RoleStep
  <2>3. CASE OverrideStep(r)
    <3>1. CASE SetDone(r)
      BY <3>1, EndsKeeps DEF SetDone
    <3> QED
      BY <2>3, <3>1, SetUserOverrideKeeps, WriteOverrideKeeps, RemoveUserOverrideKeeps,
         SetUserOverridesKeeps, ApplyOneKeeps, RemoveOneKeeps DEF OverrideStep
  <2>4. CASE Fail(r)
    BY <2>4, EndsKeeps DEF Fail
  <2> QED
    BY <1>5, <2>1, <2>2, <2>3, <2>4
<1>6. CASE UNCHANGED vars
  BY <1>6 DEF vars, tables, IInv, TypeOK, OneHoldsRow, GrantStillFits, DeletesAll,
     SetInProgress, HoldsRow, NoOtherClub, On
<1> QED
  BY <1>1, <1>2, <1>3, <1>4, <1>5, <1>6 DEF Next

-----------------------------------------------------------------------------
(* Theorems of the composition *)

\* A check writes nothing that the administrators write.
LEMMA AccessStep == AccessNext => [Next]_vars
  BY DEF AccessNext, CheckStep, BeginCheck, ReadMember, ReadGrants, ReadPermissions,
     ReadOverrides, Decide, Answer, Reads

\* What every request relies on holds always.
THEOREM Invariance == AccessSpec => []IInv
<1>1. AccessInit => IInv
  BY InitInv DEF AccessInit
<1>2. IInv /\ [AccessNext]_accessVars => IInv'
  BY NextInv, AccessStep DEF accessVars
<1> QED
  BY <1>1, <1>2, PTL DEF AccessSpec

\* A set of overrides that no other administrator crossed is applied in full.
THEOREM SetsAreApplied == AccessSpec => []AppliedInFull
<1>1. IInv => AppliedInFull
  BY DEF IInv, SetInProgress, AppliedInFull, SettingInstitute, On
<1> QED
  BY <1>1, Invariance, PTL

\* No club is overlooked that a member may do something for: an in-scope source
\* of the permission that is not for the whole institute is one for the club.
THEOREM NothingOverlooked == AccessSpec => []NoClubOverlooked
<1>1. NoClubOverlooked
  <2> SUFFICES ASSUME ~member.developer, NEW c \in Club, NEW p \in Perm,
                      Can(p, c), ~Can(p, Everywhere)
               PROVE  c \in ManageableClubs({p})
    BY DEF NoClubOverlooked
  <2>1. member.active
    BY DEF Can
  <2>2. RolesAt(Everywhere) \subseteq RolesAt(c)
    BY DEF RolesAt, InScope
  <2>3. OverridesAt(Everywhere, p, "deny") => OverridesAt(c, p, "deny")
    BY DEF OverridesAt, InScope
  <2>4. \/ \E x \in RolesAt(c) : x \notin RolesAt(Everywhere)
        \/ OverridesAt(c, p, "grant") /\ ~OverridesAt(Everywhere, p, "grant")
    BY <2>1, <2>2, <2>3 DEF Can, Resolve, PermsOf
  <2>5. c \in Candidates
    BY <2>4 DEF RolesAt, OverridesAt, InScope, Candidates
  <2> QED
    BY <2>1, <2>5 DEF ManageableClubs
<1> QED
  BY <1>1, PTL

\* Only a grant whose reading was overtaken, or one that a transition copies, gives a
\* coordinator a second club in the year.
THEOREM SecondClubIsARace == AccessSpec => OneClubByRaceOnly
<1> DEFINE Raced ==
      OneClubIn(grants) =>
        \/ OneClubIn(grants')
        \/ \E r \in Req : /\ On(r, "copy") \/ (On(r, "insert") /\ r \in overtaken)
                          /\ grants' = grants \cup {req[r].grant}
<1>1. IInv /\ [Next]_vars => Raced
  <2> SUFFICES ASSUME IInv, [Next]_vars, OneClubIn(grants)
               PROVE  \/ OneClubIn(grants')
                      \/ \E r \in Req :
                            /\ On(r, "copy") \/ (On(r, "insert") /\ r \in overtaken)
                            /\ grants' = grants \cup {req[r].grant}
    OBVIOUS
  <2>1. CASE \E r \in Req : InsertGrant(r)
    <3>1. PICK r \in Req : InsertGrant(r)
      BY <2>1
    <3>2. grants' = grants \/ grants' = grants \cup {req[r].grant}
      BY <3>1 DEF InsertGrant
    <3>3. On(r, "insert") \/ On(r, "copy")
      BY <3>1 DEF InsertGrant, On
    <3>4. CASE On(r, "copy") \/ (On(r, "insert") /\ r \in overtaken)
      <4>1. CASE grants' = grants
        BY <4>1 DEF OneClubIn
      <4> QED
        BY <3>2, <3>4, <4>1
    <3>5. CASE On(r, "insert") /\ r \notin overtaken
      <4>1. \A h \in grants : ~Clash(req[r].grant, h)
        BY <3>5 DEF IInv, GrantStillFits, NoOtherClub
      <4>2. \A g, h : Clash(g, h) => Clash(h, g) /\ g # h
        BY DEF Clash
      <4> QED
        BY <3>2, <4>1, <4>2 DEF OneClubIn
    <3> QED
      BY <3>3, <3>4, <3>5
  <2>2. CASE \E g \in Grant : RevokeRole(g)
    BY <2>2 DEF RevokeRole, OneClubIn
  <2>3. CASE grants' = grants
    BY <2>3 DEF OneClubIn
  <2>4. ASSUME NEW r \in Req, RoleStep(r) \/ OverrideStep(r) \/ Fail(r)
                              \/ \E g \in Grant : GrantRole(r, g) \/ CopyGrant(r, g)
        PROVE  grants' = grants
    BY <2>4 DEF RoleStep, UpdateRole, WriteRow, DeletePermissions, CreatePermissions,
       OverrideStep, SetUserOverride, WriteOverride, RemoveUserOverride, SetUserOverrides,
       ApplyOne, RemoveOne, SetDone, SaveOverride, Fail, GrantRole, CopyGrant, tables
  <2>5. ChangeMember \/ (\E x \in Edited, asked \in SUBSET Perm : CreateRole(x, asked))
          \/ (\E x \in Edited, status \in {"active", "archived"} : UpdateRoleRow(x, status))
          \/ UNCHANGED vars
        => grants' = grants
    BY DEF ChangeMember, CreateRole, UpdateRoleRow, vars, tables
  <2> QED
    BY <2>1, <2>2, <2>3, <2>4, <2>5 DEF Next
<1>2. IInv /\ [AccessNext]_accessVars => [Raced]_vars
  BY <1>1, AccessStep DEF accessVars
<1> QED
  BY <1>2, Invariance, PTL DEF AccessSpec, OneClubByRaceOnly

\* The permissions a role ends with are those that were asked for, unless
\* another replacement was committed between the delete and the insert.
THEOREM ReplacedAsAsked == AccessSpec => RoleIsAsAsked
<1> DEFINE AsAsked ==
      \A r \in Req : On(r, "create") /\ On(r, "idle")' /\ role' # role =>
         \/ role'[req[r].role].perms = req[r].asked
         \/ r \in overtaken
<1>1. IInv /\ [Next]_vars => AsAsked
  <2> SUFFICES ASSUME IInv, [Next]_vars, NEW r \in Req,
                      On(r, "create"), On(r, "idle")', role' # role, r \notin overtaken
               PROVE  role'[req[r].role].perms = req[r].asked
    OBVIOUS
  <2>0. "create" # "idle" /\ req \in [Req -> Request] /\ role \in [Role -> RoleRow]
    BY DEF IInv, TypeOK, Request
  <2>1. CASE CreatePermissions(r)
    <3>1. role[req[r].role].perms \subseteq req[r].victims /\ req[r].role \in Role
      BY <2>0, Kinds DEF IInv, DeletesAll, On, EditRequest
    <3> DEFINE left == role[req[r].role].perms \ req[r].victims
               row == [status |-> IF req[r].status = "keep" THEN role[req[r].role].status
                                  ELSE req[r].status,
                       perms |-> left \cup req[r].asked]
    <3>2. left = {}
      BY <3>1
    <3>3. role' = [role EXCEPT ![req[r].role] = row]
      BY <2>1, <3>2 DEF CreatePermissions
    <3>4. row.perms = req[r].asked
      BY <3>2
    <3> HIDE DEF row
    <3> QED
      BY <2>0, <3>1, <3>3, <3>4
  <2>2. ASSUME NEW d \in Req \ {r}, CreatePermissions(d)
        PROVE  FALSE
    <3>1. CASE req'[r] = req[r]
      BY <3>1 DEF On
    <3>2. CASE req'[r] = [req[r] EXCEPT !.victims = @ \ req[d].victims]
      <4>1. req[r] \in EditRequest
        BY <2>0, Kinds DEF On
      <4>2. req'[r].pc = req[r].pc
        BY <3>2, <4>1 DEF EditRequest
      <4> QED
        BY <4>2 DEF On
    <3> QED
      BY <2>0, <2>2, <3>1, <3>2 DEF CreatePermissions, Ends, Goes
  <2>3. ASSUME NEW d \in Req, ~CreatePermissions(d),
               RoleStep(d) \/ OverrideStep(d) \/ Fail(d) \/ InsertGrant(d)
               \/ \E g \in Grant : GrantRole(d, g) \/ CopyGrant(d, g)
        PROVE  role' = role
    BY <2>3 DEF RoleStep, UpdateRole, WriteRow, DeletePermissions, InsertGrant,
       OverrideStep, SetUserOverride, WriteOverride, RemoveUserOverride, SetUserOverrides,
       ApplyOne, RemoveOne, SetDone, SaveOverride, Fail, GrantRole, CopyGrant, tables
  <2>4. ChangeMember \/ (\E g \in Grant : RevokeRole(g))
          \/ (\E x \in Edited, asked \in SUBSET Perm : CreateRole(x, asked))
          \/ (\E x \in Edited, status \in {"active", "archived"} : UpdateRoleRow(x, status))
          \/ UNCHANGED vars
        => role' = role \/ req' = req
    BY DEF ChangeMember, RevokeRole, CreateRole, UpdateRoleRow, vars, tables
  <2> QED
    BY <2>1, <2>2, <2>3, <2>4 DEF Next, On
<1>2. IInv /\ [AccessNext]_accessVars => [AsAsked]_vars
  BY <1>1, AccessStep DEF accessVars
<1> QED
  BY <1>2, Invariance, PTL DEF AccessSpec, RoleIsAsAsked
-----------------------------------------------------------------------------
(* A check among the commits of the administrators *)

\* The tables a decision depends on, part by part: what a part does not change,
\* a question about it does not see change.
LEMMA RolesByPart ==
    ASSUME Counting' = Counting, NEW scope
    PROVE  RolesAt(scope)' = RolesAt(scope)
<1>1. RolesAt(scope) = {g.role : g \in {h \in Counting : InScope(h.unit, scope)}}
  BY DEF RolesAt, Counting
<1>2. RolesAt(scope)' = {g.role : g \in {h \in Counting' : InScope(h.unit, scope)}}
  BY DEF RolesAt, Counting, InScope
<1> QED
  BY <1>1, <1>2

LEMMA PermsByPart ==
    ASSUME PermsByRole' = PermsByRole, NEW roles \in SUBSET Role
    PROVE  PermsOf(roles)' = PermsOf(roles)
<1>1. \A x \in Role : role'[x].perms = role[x].perms
  <2>1. ASSUME NEW x \in Role PROVE role'[x].perms = role[x].perms
    <3>1. PermsByRole[x] = role[x].perms /\ PermsByRole'[x] = role'[x].perms
      BY DEF PermsByRole
    <3> QED
      BY <3>1
  <2> QED
    BY <2>1
<1>2. {role'[x].perms : x \in roles} = {role[x].perms : x \in roles}
  BY <1>1
<1> QED
  BY <1>2 DEF PermsOf

LEMMA OverridesByPart ==
    ASSUME override' = override, NEW scope, NEW p, NEW mode
    PROVE  OverridesAt(scope, p, mode)' = OverridesAt(scope, p, mode)
  BY DEF OverridesAt, InScope

\* Roles held at a scope are roles.
LEMMA RolesHeld == ASSUME TypeOK, NEW scope PROVE RolesAt(scope) \subseteq Role
  BY RoleAssumption DEF TypeOK, RolesAt

\* A step that is counted as one part moved moves no other part.
LEMMA MovedOnce ==
    ASSUME moved \in 0..2, moved' = IF moved + PartsMoved > 2 THEN 2 ELSE moved + PartsMoved
    PROVE  /\ moved' \in 0..2 /\ moved <= moved'
           /\ moved' = moved /\ moved < 2 =>
                /\ member' = member /\ Counting' = Counting
                /\ PermsByRole' = PermsByRole /\ override' = override
           /\ moved = 0 /\ moved' = 1 =>
                \/ /\ Counting' = Counting /\ PermsByRole' = PermsByRole
                   /\ override' = override
                \/ /\ member' = member /\ PermsByRole' = PermsByRole
                   /\ override' = override
                \/ /\ member' = member /\ Counting' = Counting /\ override' = override
                \/ /\ member' = member /\ Counting' = Counting
                   /\ PermsByRole' = PermsByRole
<1> DEFINE a == IF member' # member THEN 1 ELSE 0
           b == IF Counting' # Counting THEN 1 ELSE 0
           c == IF PermsByRole' # PermsByRole THEN 1 ELSE 0
           d == IF override' # override THEN 1 ELSE 0
<1>1. PartsMoved = a + b + c + d
  BY DEF PartsMoved
<1>2. /\ a \in 0..1 /\ b \in 0..1 /\ c \in 0..1 /\ d \in 0..1
      /\ a = 0 => member' = member
      /\ b = 0 => Counting' = Counting
      /\ c = 0 => PermsByRole' = PermsByRole
      /\ d = 0 => override' = override
  OBVIOUS
<1> HIDE DEF a, b, c, d
<1> QED
  BY <1>1, <1>2

\* When nothing has moved, a check is on its way to the decision of now.
DecidesRightly == DecidedSoFar = Can(check.perm, check.scope)

LEMMA OnItsWay == NothingMoved => DecidesRightly
<1> SUFFICES ASSUME NothingMoved PROVE DecidedSoFar = Can(check.perm, check.scope)
  BY DEF DecidesRightly
<1>1. Can(check.perm, check.scope)
        <=> Resolve(RolesAt(check.scope), check.perm \in PermsOf(RolesAt(check.scope)),
                    OverridesAt(check.scope, check.perm, "grant"),
                    OverridesAt(check.scope, check.perm, "deny"))
  BY DEF NothingMoved, Can
<1>2. DecidedSoFar <=> Can(check.perm, check.scope)
  BY <1>1 DEF NothingMoved, DecidedSoFar, Resolve
<1> QED
  BY <1>2 DEF DecidedSoFar, Can, Resolve

\* The first part to move during a check leaves it on its way to the decision
\* of before, if it has read that part, or else to the one of now.
LEMMA FirstMove ==
    ASSUME TypeOK, TypeOK', check' = check, check \in CheckRecord,
           check.pc = "reading", NothingMoved,
           "grants" \in check.unread => "permissions" \in check.unread,
           \/ /\ Counting' = Counting /\ PermsByRole' = PermsByRole
              /\ override' = override
           \/ /\ member' = member /\ PermsByRole' = PermsByRole
              /\ override' = override
           \/ /\ member' = member /\ Counting' = Counting /\ override' = override
           \/ /\ member' = member /\ Counting' = Counting
              /\ PermsByRole' = PermsByRole
    PROVE  \/ DecidedSoFar' <=> DecidedSoFar
           \/ DecidedSoFar' <=> Can(check.perm, check.scope)'
<1> DEFINE q == check.scope
           p == check.perm
<1>0. check.roles \in SUBSET Role /\ RolesAt(q) \in SUBSET Role /\ RolesAt(q)' \in SUBSET Role
  <2>1. RolesAt(q) \subseteq Role
    BY RolesHeld
  <2>2. RolesAt(q)' \subseteq Role
    BY RoleAssumption DEF TypeOK, RolesAt
  <2> QED
    BY <2>1, <2>2 DEF CheckRecord
<1>a. RolesSoFar \in SUBSET Role
  BY <1>0 DEF RolesSoFar
<1>b. member.active /\ ~member.developer
  BY DEF NothingMoved
<1>c. member' = member =>
        (Can(p, q)' <=> Resolve(RolesAt(q)', p \in PermsOf(RolesAt(q))',
                                OverridesAt(q, p, "grant")', OverridesAt(q, p, "deny")'))
  BY <1>b DEF Can, Resolve
<1>1. ASSUME Counting' = Counting
      PROVE  RolesAt(q)' = RolesAt(q) /\ RolesSoFar' = RolesSoFar
  BY <1>1, RolesByPart DEF RolesSoFar
<1>2. ASSUME PermsByRole' = PermsByRole, RolesSoFar' = RolesSoFar
      PROVE  HoldsSoFar' <=> HoldsSoFar
  BY <1>2, <1>a, PermsByPart DEF HoldsSoFar, PermsOf
<1>3. ASSUME override' = override
      PROVE  (GrantedSoFar' <=> GrantedSoFar) /\ (DeniedSoFar' <=> DeniedSoFar)
  BY <1>3 DEF GrantedSoFar, DeniedSoFar, OverridesAt, InScope
<1>4. ASSUME RolesSoFar' = RolesSoFar, HoldsSoFar' <=> HoldsSoFar,
             GrantedSoFar' <=> GrantedSoFar, DeniedSoFar' <=> DeniedSoFar
      PROVE  DecidedSoFar' <=> DecidedSoFar
  BY <1>4 DEF DecidedSoFar, Resolve
<1>5. ASSUME RolesSoFar' = RolesAt(q)', HoldsSoFar' <=> p \in PermsOf(RolesAt(q))',
             GrantedSoFar' <=> OverridesAt(q, p, "grant")',
             DeniedSoFar' <=> OverridesAt(q, p, "deny")', member' = member
      PROVE  DecidedSoFar' <=> Can(p, q)'
  BY <1>c, <1>5 DEF DecidedSoFar, Resolve
\* The member has been read before anything else.
<1>6. CASE /\ Counting' = Counting /\ PermsByRole' = PermsByRole
           /\ override' = override
  BY <1>1, <1>2, <1>3, <1>4, <1>6
\* The grants.
<1>7. CASE /\ member' = member /\ PermsByRole' = PermsByRole
           /\ override' = override
  <2>1. CASE "grants" \in check.unread
    <3>1. RolesSoFar' = RolesAt(q)'
      BY <2>1 DEF RolesSoFar
    <3>2. HoldsSoFar' <=> p \in PermsOf(RolesAt(q))'
      BY <2>1, <3>1 DEF HoldsSoFar, PermsOf
    <3>3. /\ GrantedSoFar' <=> OverridesAt(q, p, "grant")'
          /\ DeniedSoFar' <=> OverridesAt(q, p, "deny")'
      BY <1>3, <1>7 DEF NothingMoved, OverridesAt, InScope
    <3> QED
      BY <1>5, <1>7, <3>1, <3>2, <3>3
  <2>2. CASE "grants" \notin check.unread
    <3>1. RolesSoFar' = RolesSoFar
      BY <2>2 DEF RolesSoFar
    <3> QED
      BY <1>2, <1>3, <1>4, <1>7, <3>1
  <2> QED
    BY <2>1, <2>2
\* The permissions of the roles.
<1>8. CASE /\ member' = member /\ Counting' = Counting /\ override' = override
  <2>0. RolesAt(q)' = RolesAt(q) /\ RolesSoFar' = RolesSoFar
    BY <1>1, <1>8
  <2>1. CASE "permissions" \in check.unread
    <3>1. RolesSoFar' = RolesAt(q)'
      BY <2>0 DEF NothingMoved
    <3>2. HoldsSoFar' <=> p \in PermsOf(RolesAt(q))'
      BY <2>1, <3>1 DEF HoldsSoFar, PermsOf
    <3>3. /\ GrantedSoFar' <=> OverridesAt(q, p, "grant")'
          /\ DeniedSoFar' <=> OverridesAt(q, p, "deny")'
      BY <1>3, <1>8 DEF NothingMoved, OverridesAt, InScope
    <3> QED
      BY <1>5, <1>8, <3>1, <3>2, <3>3
  <2>2. CASE "permissions" \notin check.unread
    <3>1. HoldsSoFar' <=> HoldsSoFar
      BY <2>2 DEF HoldsSoFar
    <3> QED
      BY <1>3, <1>4, <1>8, <2>0, <3>1
  <2> QED
    BY <2>1, <2>2
\* The overrides.
<1>9. CASE /\ member' = member /\ Counting' = Counting
           /\ PermsByRole' = PermsByRole
  <2>0. RolesAt(q)' = RolesAt(q) /\ RolesSoFar' = RolesSoFar /\ (HoldsSoFar' <=> HoldsSoFar)
    BY <1>1, <1>2, <1>9
  <2>1. CASE "overrides" \in check.unread
    <3>1. RolesSoFar' = RolesAt(q)'
      BY <2>0 DEF NothingMoved
    <3>2. p \in PermsOf(RolesAt(q))' <=> p \in PermsOf(RolesAt(q))
      BY <1>0, <1>9, <2>0, PermsByPart DEF PermsOf
    <3>3. HoldsSoFar' <=> p \in PermsOf(RolesAt(q))'
      BY <2>0, <3>2 DEF NothingMoved
    <3>4. /\ GrantedSoFar' <=> OverridesAt(q, p, "grant")'
          /\ DeniedSoFar' <=> OverridesAt(q, p, "deny")'
      BY <2>1 DEF GrantedSoFar, DeniedSoFar
    <3> QED
      BY <1>5, <1>9, <3>1, <3>3, <3>4
  <2>2. CASE "overrides" \notin check.unread
    <3>1. (GrantedSoFar' <=> GrantedSoFar) /\ (DeniedSoFar' <=> DeniedSoFar)
      BY <2>2 DEF GrantedSoFar, DeniedSoFar
    <3> QED
      BY <1>4, <2>0, <3>1
  <2> QED
    BY <2>1, <2>2
<1> QED
  BY <1>6, <1>7, <1>8, <1>9

\* What a check has read, and will read of tables that did not move, stays.
LEMMA NothingElse ==
    ASSUME TypeOK, check \in CheckRecord, check' = check,
           member' = member, Counting' = Counting,
           PermsByRole' = PermsByRole, override' = override
    PROVE  /\ NothingMoved => NothingMoved'
           /\ DecidedSoFar' = DecidedSoFar
<1> DEFINE q == check.scope
           p == check.perm
<1>1. RolesAt(q)' = RolesAt(q) /\ RolesSoFar' = RolesSoFar
  BY RolesByPart DEF RolesSoFar
<1>2. RolesAt(q) \in SUBSET Role /\ RolesSoFar \in SUBSET Role
  BY RolesHeld DEF RolesSoFar, CheckRecord
<1>3. p \in PermsOf(RolesAt(q))' <=> p \in PermsOf(RolesAt(q))
  BY <1>1, <1>2, PermsByPart DEF PermsOf
<1>4. HoldsSoFar' <=> HoldsSoFar
  BY <1>1, <1>2, PermsByPart DEF HoldsSoFar, PermsOf
<1>5. /\ GrantedSoFar' <=> GrantedSoFar
      /\ DeniedSoFar' <=> DeniedSoFar
      /\ OverridesAt(q, p, "grant")' <=> OverridesAt(q, p, "grant")
      /\ OverridesAt(q, p, "deny")' <=> OverridesAt(q, p, "deny")
  BY DEF GrantedSoFar, DeniedSoFar, OverridesAt, InScope
<1>6. DecidedSoFar' <=> DecidedSoFar
  BY <1>1, <1>4, <1>5 DEF DecidedSoFar, Resolve
<1>7. DecidedSoFar' = DecidedSoFar
  BY <1>6 DEF DecidedSoFar, Resolve
<1>8. NothingMoved => NothingMoved'
  BY <1>1, <1>3, <1>4, <1>5 DEF NothingMoved
<1> QED
  BY <1>7, <1>8

\* A commit of the administrators while a check is in progress, or is not.
LEMMA TablesMoveUnderCheck ==
    ASSUME TypeOK, TypeOK', CheckInProgress, DecisionIsOfItsTime, check' = check, History
    PROVE  CheckInProgress' /\ DecisionIsOfItsTime'
<1> DEFINE q == check.scope
           p == check.perm
<1>1. CASE check.pc \in {"idle", "done"}
  <2>1. moved' \in 0..2 /\ (check.pc = "done" => between' = between /\ moved' = moved)
    BY <1>1 DEF History, CheckInProgress, InCheck
  <2> QED
    BY <1>1, <2>1 DEF CheckInProgress, DecisionIsOfItsTime, InCheck
<1>2. CASE check.pc \in {"member", "reading"}
  <2>1. /\ between' = between \cup {Can(p, q)'}
        /\ moved' = IF moved + PartsMoved > 2 THEN 2 ELSE moved + PartsMoved
    BY <1>2 DEF History, InCheck
  <2>2. check \in CheckRecord /\ moved \in 0..2
    BY DEF CheckInProgress
  <2>3. moved' \in 0..2 /\ moved <= moved'
    BY <2>1, <2>2, MovedOnce
  <2>4. Can(p, q)' \in between'
    BY <2>1
  <2>5. ASSUME check.pc = "reading"
        PROVE  /\ moved' = 0 => NothingMoved'
               /\ moved' < 2 => DecidedSoFar' \in between'
    <3>1. /\ "grants" \in check.unread => "permissions" \in check.unread
          /\ moved = 0 => NothingMoved
          /\ moved < 2 => DecidedSoFar \in between
      BY <2>5 DEF CheckInProgress
    <3>2. CASE moved' = moved /\ moved < 2
      <4>1. /\ member' = member /\ Counting' = Counting
            /\ PermsByRole' = PermsByRole /\ override' = override
        BY <2>1, <2>2, <3>2, MovedOnce
      <4>2. DecidedSoFar' = DecidedSoFar /\ (NothingMoved => NothingMoved')
        BY <2>2, <4>1, NothingElse
      <4> QED
        BY <2>1, <3>1, <3>2, <4>2
    <3>3. CASE moved = 0 /\ moved' = 1
      <4>1. \/ DecidedSoFar' <=> DecidedSoFar
            \/ DecidedSoFar' <=> Can(p, q)'
        BY <2>1, <2>2, <2>5, <3>1, <3>3, MovedOnce, FirstMove
      <4>2. DecidedSoFar' = DecidedSoFar \/ DecidedSoFar' = Can(p, q)'
        BY <4>1 DEF DecidedSoFar, Resolve, Can
      <4> QED
        BY <2>1, <3>1, <3>3, <4>2
    <3>4. CASE moved' = 2
      BY <3>4
    <3> QED
      BY <2>2, <2>3, <3>2, <3>3, <3>4
  <2> QED
    BY <1>2, <2>2, <2>3, <2>4, <2>5 DEF CheckInProgress, DecisionIsOfItsTime, InCheck
<1> QED
  BY <1>1, <1>2 DEF CheckInProgress, CheckRecord

\* A step of the check reads tables that do not move.
LEMMA ReadsHoldStill ==
    ASSUME UNCHANGED vars
    PROVE  /\ PartsMoved = 0
           /\ \A p, q : Can(p, q)' = Can(p, q)
           /\ \A q : RolesAt(q)' = RolesAt(q)
           /\ \A p, q, mode : OverridesAt(q, p, mode)' = OverridesAt(q, p, mode)
           /\ \A roles : PermsOf(roles)' = PermsOf(roles)
<1>1. UNCHANGED <<member, role, grants, override>>
  BY DEF vars, tables
<1>2. PartsMoved = 0
  BY <1>1 DEF PartsMoved, Counting, PermsByRole
<1> QED
  BY <1>1, <1>2 DEF Can, RolesAt, OverridesAt, InScope, PermsOf, Resolve

\* The history of a check that goes on.
LEMMA GoesOn ==
    ASSUME UNCHANGED vars, CheckInProgress, InCheck, History, check'.pc # "idle",
           check'.perm = check.perm, check'.scope = check.scope
    PROVE  /\ moved' = moved /\ moved' \in 0..2
           /\ between' = between \cup {Can(check.perm, check.scope)}
<1>1. /\ between' = between \cup {Can(check.perm, check.scope)'}
      /\ moved' = IF moved + PartsMoved > 2 THEN 2 ELSE moved + PartsMoved
  BY DEF History, InCheck
<1>2. moved \in 0..2
  BY DEF CheckInProgress
<1>3. PartsMoved = 0
  BY ReadsHoldStill
<1>4. Can(check.perm, check.scope)' = Can(check.perm, check.scope)
  BY ReadsHoldStill DEF Can, RolesAt, OverridesAt, InScope, PermsOf, Resolve, vars, tables
<1> QED
  BY <1>1, <1>2, <1>3, <1>4

\* What a decision leaves.
LEMMA Decided ==
    ASSUME CheckInProgress, NEW allowed \in BOOLEAN, check' = Decides(allowed)
    PROVE  /\ check' \in CheckRecord /\ check'.pc = "done" /\ check'.allowed = allowed
           /\ check'.perm = check.perm /\ check'.scope = check.scope
  BY DEF Decides, Nothing, CheckInProgress, CheckRecord, Part

LEMMA BeginCheckKeeps ==
    ASSUME CheckInProgress, NEW q \in Question, BeginCheck(q.perm, q.unit), History
    PROVE  CheckInProgress' /\ DecisionIsOfItsTime'
<1>1. /\ UNCHANGED vars /\ check.pc = "idle"
      /\ check' = Nothing("member", q.perm, q.unit)
  BY DEF BeginCheck, Reads, NoCheck, Nothing
<1>2. /\ check' \in CheckRecord /\ check'.pc = "member" /\ check'.unread = Part
  BY <1>1, QuestionAssumption DEF Nothing, CheckRecord, Part
<1>3. between' = {Can(check'.perm, check'.scope)} /\ moved' = 0
  BY <1>1, <1>2 DEF History, InCheck
<1>4. Can(check.perm, check.scope)' \in between'
  BY <1>1, <1>3, ReadsHoldStill DEF Can, RolesAt, OverridesAt, InScope, PermsOf, Resolve, vars, tables
<1> QED
  BY <1>2, <1>3, <1>4 DEF CheckInProgress, DecisionIsOfItsTime

LEMMA ReadMemberKeeps ==
    ASSUME CheckInProgress, ReadMember, History
    PROVE  CheckInProgress' /\ DecisionIsOfItsTime'
<1> DEFINE q == check.scope
           p == check.perm
<1>1. UNCHANGED vars /\ InCheck /\ check.unread = Part /\ check \in CheckRecord
  BY DEF ReadMember, Reads, InCheck, CheckInProgress
<1>2. CASE ~member.active \/ member.developer
  <2>1. PICK allowed \in BOOLEAN : check' = Decides(allowed) /\ allowed = Can(p, q)
    BY <1>2 DEF ReadMember, Reads, Can
  <2>2. /\ check' \in CheckRecord /\ check'.pc = "done" /\ check'.allowed = Can(p, q)
        /\ check'.perm = p /\ check'.scope = q
    BY <2>1, Decided
  <2>3. moved' \in 0..2 /\ Can(p, q) \in between'
    BY <1>1, <2>2, GoesOn
  <2> QED
    BY <2>2, <2>3 DEF CheckInProgress, DecisionIsOfItsTime, InCheck
<1>3. CASE member.active /\ ~member.developer
  <2>1. check' = [check EXCEPT !.pc = "reading"]
    BY <1>3 DEF ReadMember, Reads
  <2>2. /\ check' \in CheckRecord /\ check'.pc = "reading" /\ check'.unread = Part
        /\ check'.scope = q /\ check'.perm = p
    BY <1>1, <2>1 DEF CheckRecord, Part
  <2>3. moved' \in 0..2 /\ Can(p, q) \in between'
    BY <1>1, <2>2, GoesOn
  <2>4. NothingMoved'
    BY <1>1, <1>3, <2>2 DEF NothingMoved, RolesSoFar, HoldsSoFar, GrantedSoFar, DeniedSoFar,
       Part, vars, tables
  <2>5. Can(p, q)' = Can(p, q) /\ Can(check.perm, check.scope)' = Can(p, q)
    BY <1>1, <2>2, ReadsHoldStill DEF Can, RolesAt, OverridesAt, InScope, PermsOf, Resolve,
       vars, tables
  <2>6. DecidesRightly'
    BY <2>4, OnItsWay, PTL
  <2> QED
    BY <2>2, <2>3, <2>4, <2>5, <2>6 DEF DecidesRightly, CheckInProgress, DecisionIsOfItsTime, InCheck, Part
<1> QED
  BY <1>2, <1>3

\* A read that takes what the tables hold now changes nothing of the decision.
LEMMA ReadKeeps ==
    ASSUME CheckInProgress, UNCHANGED vars, History, check.pc = "reading",
           check' \in CheckRecord, check'.pc = "reading",
           check'.perm = check.perm, check'.scope = check.scope,
           "grants" \in check'.unread => "permissions" \in check'.unread,
           RolesSoFar' = RolesSoFar, HoldsSoFar' = HoldsSoFar,
           GrantedSoFar' = GrantedSoFar, DeniedSoFar' = DeniedSoFar
    PROVE  CheckInProgress' /\ DecisionIsOfItsTime'
<1> DEFINE q == check.scope
           p == check.perm
<1>1. moved' = moved /\ moved' \in 0..2 /\ between' = between \cup {Can(p, q)}
  BY GoesOn DEF InCheck
<1>2. DecidedSoFar' = DecidedSoFar
  BY DEF DecidedSoFar, Resolve
<1>3. Can(check.perm, check.scope)' = Can(p, q)
  BY DEF Can, RolesAt, OverridesAt, InScope, PermsOf, Resolve, vars, tables
<1>4. NothingMoved => NothingMoved'
  BY DEF NothingMoved, RolesAt, OverridesAt, InScope, PermsOf, vars, tables
<1> QED
  BY <1>1, <1>2, <1>3, <1>4 DEF CheckInProgress, DecisionIsOfItsTime, InCheck

LEMMA ReadGrantsKeeps ==
    ASSUME TypeOK, CheckInProgress, ReadGrants, History
    PROVE  CheckInProgress' /\ DecisionIsOfItsTime'
<1>1. /\ UNCHANGED vars /\ check.pc = "reading" /\ check \in CheckRecord
      /\ "grants" \in check.unread /\ "permissions" \in check.unread
      /\ check' = [check EXCEPT !.unread = @ \ {"grants"}, !.roles = RolesAt(check.scope)]
      /\ RolesAt(check.scope) \subseteq Role
  BY RolesHeld DEF ReadGrants, Reading, Reads, CheckInProgress
<1>2. /\ check' \in CheckRecord /\ check'.pc = "reading"
      /\ check'.perm = check.perm /\ check'.scope = check.scope
      /\ check'.unread = check.unread \ {"grants"} /\ check'.roles = RolesAt(check.scope)
      /\ check'.granted = check.granted /\ check'.denied = check.denied
  BY <1>1 DEF CheckRecord
<1>3. RolesSoFar' = RolesSoFar
  BY <1>1, <1>2 DEF RolesSoFar
<1>4. HoldsSoFar' = HoldsSoFar
  BY <1>1, <1>2, <1>3, ReadsHoldStill DEF HoldsSoFar, PermsOf, vars, tables
<1>5. GrantedSoFar' = GrantedSoFar /\ DeniedSoFar' = DeniedSoFar
  BY <1>1, <1>2 DEF GrantedSoFar, DeniedSoFar, OverridesAt, InScope, vars, tables
<1> QED
  BY <1>1, <1>2, <1>3, <1>4, <1>5, ReadKeeps

LEMMA ReadPermissionsKeeps ==
    ASSUME CheckInProgress, ReadPermissions, History
    PROVE  CheckInProgress' /\ DecisionIsOfItsTime'
<1> DEFINE holds == check.perm \in PermsOf(check.roles)
<1>0. holds \in BOOLEAN
  OBVIOUS
<1>1. /\ UNCHANGED vars /\ check.pc = "reading" /\ check \in CheckRecord
      /\ "grants" \notin check.unread /\ "permissions" \in check.unread
      /\ check' = [check EXCEPT !.unread = @ \ {"permissions"}, !.holds = holds]
  BY DEF ReadPermissions, Reading, Reads, CheckInProgress
<1>a. "grants" \notin check.unread /\ "permissions" \in check.unread =>
        HoldsSoFar = holds
  BY DEF HoldsSoFar, RolesSoFar
<1> HIDE DEF holds
<1>2. /\ check' \in CheckRecord /\ check'.pc = "reading"
      /\ check'.perm = check.perm /\ check'.scope = check.scope
      /\ check'.unread = check.unread \ {"permissions"} /\ check'.roles = check.roles
      /\ check'.holds = holds
      /\ check'.granted = check.granted /\ check'.denied = check.denied
  BY <1>0, <1>1 DEF CheckRecord
<1>3. RolesSoFar' = RolesSoFar /\ RolesSoFar = check.roles
  BY <1>1, <1>2 DEF RolesSoFar
<1>4. HoldsSoFar' = HoldsSoFar
  BY <1>1, <1>2, <1>a DEF HoldsSoFar
<1>5. GrantedSoFar' = GrantedSoFar /\ DeniedSoFar' = DeniedSoFar
  BY <1>1, <1>2 DEF GrantedSoFar, DeniedSoFar, OverridesAt, InScope, vars, tables
<1> QED
  BY <1>1, <1>2, <1>3, <1>4, <1>5, ReadKeeps

LEMMA ReadOverridesKeeps ==
    ASSUME CheckInProgress, ReadOverrides, History
    PROVE  CheckInProgress' /\ DecisionIsOfItsTime'
<1> DEFINE granted == OverridesAt(check.scope, check.perm, "grant")
           denied == OverridesAt(check.scope, check.perm, "deny")
<1>1. /\ UNCHANGED vars /\ check.pc = "reading" /\ check \in CheckRecord
      /\ "overrides" \in check.unread
      /\ "grants" \in check.unread => "permissions" \in check.unread
      /\ check' = [check EXCEPT !.unread = @ \ {"overrides"},
                                !.granted = granted, !.denied = denied]
  BY DEF ReadOverrides, Reading, Reads, CheckInProgress
<1>2. granted \in BOOLEAN /\ denied \in BOOLEAN
  BY DEF OverridesAt
<1>3. GrantedSoFar = granted /\ DeniedSoFar = denied
  BY <1>1 DEF GrantedSoFar, DeniedSoFar
<1> HIDE DEF granted, denied
<1>4. /\ check' \in CheckRecord /\ check'.pc = "reading"
      /\ check'.perm = check.perm /\ check'.scope = check.scope
      /\ check'.unread = check.unread \ {"overrides"} /\ check'.roles = check.roles
      /\ check'.holds = check.holds
      /\ check'.granted = granted /\ check'.denied = denied
  BY <1>1, <1>2 DEF CheckRecord
<1>5. RolesSoFar' = RolesSoFar
  BY <1>1, <1>4 DEF RolesSoFar, RolesAt, InScope, vars, tables
<1>6. HoldsSoFar' = HoldsSoFar
  BY <1>1, <1>4, <1>5 DEF HoldsSoFar, PermsOf, vars, tables
<1>7. GrantedSoFar' = GrantedSoFar /\ DeniedSoFar' = DeniedSoFar
  BY <1>3, <1>4 DEF GrantedSoFar, DeniedSoFar
<1> QED
  BY <1>1, <1>4, <1>5, <1>6, <1>7, ReadKeeps

LEMMA DecideKeeps ==
    ASSUME CheckInProgress, Decide, History
    PROVE  CheckInProgress' /\ DecisionIsOfItsTime'
<1> DEFINE allowed == Resolve(check.roles, check.holds, check.granted, check.denied)
<1>1. /\ UNCHANGED vars /\ InCheck /\ check.pc = "reading" /\ check.unread = {}
      /\ check' = Decides(allowed) /\ allowed \in BOOLEAN
  BY DEF Decide, Reads, InCheck, Resolve
<1>2. allowed = DecidedSoFar
  BY <1>1 DEF DecidedSoFar, RolesSoFar, HoldsSoFar, GrantedSoFar, DeniedSoFar
<1> HIDE DEF allowed
<1>3. /\ check' \in CheckRecord /\ check'.pc = "done" /\ check'.allowed = allowed
      /\ check'.perm = check.perm /\ check'.scope = check.scope
  BY <1>1, Decided
<1>4. moved' = moved /\ moved' \in 0..2 /\ between \subseteq between'
  BY <1>1, <1>3, GoesOn
<1>5. moved < 2 => allowed \in between
  BY <1>1, <1>2 DEF CheckInProgress
<1> QED
  BY <1>3, <1>4, <1>5 DEF CheckInProgress, DecisionIsOfItsTime, InCheck

\* A check that is over, and one that never began.
LEMMA NoCheckKeeps ==
    ASSUME NoCheck \in CheckRecord, check' = NoCheck, moved' = 0
    PROVE  CheckInProgress' /\ DecisionIsOfItsTime'
<1>1. NoCheck.pc = "idle"
  BY DEF NoCheck, Nothing
<1> QED
  BY <1>1 DEF CheckInProgress, DecisionIsOfItsTime, InCheck

LEMMA NoCheckIsOne == NoCheck \in CheckRecord /\ NoCheck.pc = "idle"
<1>1. (CHOOSE p \in Perm : TRUE) \in Perm
  BY RoleAssumption
<1> QED
  BY <1>1 DEF NoCheck, Nothing, CheckRecord, Part, Unit

LEMMA CheckInit == AccessInit => CheckInProgress /\ DecisionIsOfItsTime
  BY NoCheckIsOne DEF AccessInit, CheckInProgress, DecisionIsOfItsTime, InCheck

LEMMA CheckStepKeeps ==
    ASSUME TypeOK, TypeOK', CheckInProgress, DecisionIsOfItsTime, AccessNext
    PROVE  CheckInProgress' /\ DecisionIsOfItsTime'
<1>0. History
  BY DEF AccessNext
<1>1. CASE check' = check
  BY <1>0, <1>1, TablesMoveUnderCheck
<1>2. CASE CheckStep
  <2>1. CASE \E q \in Question : BeginCheck(q.perm, q.unit)
    BY <1>0, <2>1, BeginCheckKeeps
  <2>2. CASE Answer
    <3>1. check' = NoCheck /\ moved' = 0
      BY <1>0, <2>2, NoCheckIsOne DEF Answer, Reads, History, InCheck
    <3> QED
      BY <3>1, NoCheckIsOne, NoCheckKeeps
  <2> QED
    BY <1>0, <1>2, <2>1, <2>2, ReadMemberKeeps, ReadGrantsKeeps, ReadPermissionsKeeps,
       ReadOverridesKeeps, DecideKeeps DEF CheckStep
<1> QED
  BY <1>1, <1>2 DEF AccessNext

\* What a check relies on holds always, whatever is committed between its reads.
THEOREM CheckInvariance == AccessSpec => []AccessInv
<1>1. AccessInit => AccessInv
  BY InitInv, CheckInit DEF AccessInit, AccessInv
<1>2. AccessInv /\ [AccessNext]_accessVars => AccessInv'
  <2> SUFFICES ASSUME AccessInv, [AccessNext]_accessVars PROVE AccessInv'
    OBVIOUS
  <2>1. IInv'
    BY NextInv, AccessStep DEF AccessInv, accessVars
  <2>2. CASE AccessNext
    BY <2>1, <2>2, CheckStepKeeps DEF AccessInv, IInv
  <2>3. CASE UNCHANGED accessVars
    <3>1. UNCHANGED <<member, role, grants, override, check, between, moved>>
      BY <2>3 DEF accessVars, checkVars, vars, tables
    <3>2. /\ RolesSoFar' = RolesSoFar
          /\ RolesAt(check.scope)' = RolesAt(check.scope)
      BY <3>1 DEF RolesSoFar, RolesAt, InScope
    <3>3. /\ HoldsSoFar' = HoldsSoFar
          /\ PermsOf(RolesAt(check.scope))' = PermsOf(RolesAt(check.scope))
      BY <3>1, <3>2 DEF HoldsSoFar, PermsOf
    <3>4. /\ GrantedSoFar' = GrantedSoFar /\ DeniedSoFar' = DeniedSoFar
          /\ OverridesAt(check.scope, check.perm, "grant")'
                = OverridesAt(check.scope, check.perm, "grant")
          /\ OverridesAt(check.scope, check.perm, "deny")'
                = OverridesAt(check.scope, check.perm, "deny")
      BY <3>1 DEF GrantedSoFar, DeniedSoFar, OverridesAt, InScope
    <3>5. DecidedSoFar' = DecidedSoFar
      BY <3>2, <3>3, <3>4 DEF DecidedSoFar
    <3>6. NothingMoved => NothingMoved'
      BY <3>1, <3>2, <3>3, <3>4 DEF NothingMoved
    <3>7. Can(check.perm, check.scope)' = Can(check.perm, check.scope)
      BY <3>1, <3>2, <3>3, <3>4 DEF Can
    <3>8. CheckInProgress' /\ DecisionIsOfItsTime'
      BY <3>1, <3>5, <3>6, <3>7 DEF AccessInv, CheckInProgress, DecisionIsOfItsTime, InCheck
    <3> QED
      BY <2>1, <3>8 DEF AccessInv
  <2> QED
    BY <2>2, <2>3
<1> QED
  BY <1>1, <1>2, PTL DEF AccessSpec

\* A decision was right at some moment since its check began, or two parts of
\* the tables have changed meanwhile.
THEOREM DecisionsAreOfTheirTime == AccessSpec => []DecisionIsOfItsTime
<1>1. AccessInv => DecisionIsOfItsTime
  BY DEF AccessInv
<1> QED
  BY <1>1, CheckInvariance, PTL
=============================================================================
