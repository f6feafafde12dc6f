---------------------------- MODULE MCAccessCheck ----------------------------
(* Small instances of AccessCheck for TLC. *)
EXTENDS AccessCheck, TLC

CONSTANTS coordinator, editor, super, manage, publish, c1, c2, r1, r2

ThreeRoles == {coordinator, editor, super}
TwoPerms == {manage, publish}
TwoClubs == {c1, c2}
Super == {super}
Editor == {editor}
Coordinators == {coordinator}
TwoRequests == {r1, r2}

Roles(permsOfEditor, status) ==
    coordinator :> [status |-> "active", perms |-> {manage}]
    @@ editor :> [status |-> status, perms |-> permsOfEditor]
    @@ super :> [status |-> "active", perms |-> {}]

NoOverride == [s \in Slot |-> None]

\* An institute-wide denial with a grant for one club, a grant alone, or none.
SomeOverrides ==
    {NoOverride,
     [NoOverride EXCEPT ![Institute(manage)] = "deny",
                        ![[perm |-> publish, unit |-> c1]] = "grant"]}

\* Grants of the year, and for no year in particular.
OfYear(x, u) == [role |-> x, unit |-> u, yearly |-> TRUE]
OfNoYear(x, u) == [role |-> x, unit |-> u, yearly |-> FALSE]

InUse == {OfYear(coordinator, c1), OfYear(coordinator, c2), OfNoYear(coordinator, c2),
          OfNoYear(editor, Everywhere), OfNoYear(super, c1)}
SlotsInUse == InstituteWide \cup {[perm |-> publish, unit |-> c1]}

Usual == [active |-> TRUE, developer |-> FALSE]

TwoQuestions == {[perm |-> manage, unit |-> c1], [perm |-> publish, unit |-> Everywhere]}

\* Wishes(m, p): the mode wished for each of the two permissions.
Wishes(m, p) == manage :> m @@ publish :> p
ThreeWishes == {Wishes("grant", "grant"), Wishes("deny", None), Wishes(None, None)}

SomeTables ==
    {[member |-> Usual, role |-> Roles({publish}, "active"),
      grants |-> {OfNoYear(editor, Everywhere), OfYear(coordinator, c1)},
      override |-> o] : o \in SomeOverrides}
    \cup {[member |-> Usual, role |-> Roles({}, "none"), grants |-> {}, override |-> NoOverride]}

Symmetric == Permutations(Req)
=============================================================================
