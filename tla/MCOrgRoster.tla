----------------------------- MODULE MCOrgRoster -----------------------------
(* A small instance of OrgRoster for TLC. *)
EXTENDS OrgRoster, TLC

CONSTANTS a, b, c, i1, i2, i3, r1, script

ThreePeople == {a, b, c}
ThreeRows == {i1, i2, i3}
TwoRequests == {r1, script}

\* A singleton position, one for two people, and one without a limit.
ThreeSlots == {[limit |-> 1, wanted |-> {b}],
               [limit |-> 2, wanted |-> {a, b}],
               [limit |-> Unlimited, wanted |-> {b}]}

Of(p, s) == [person |-> p, status |-> s, archived |-> FALSE]
\* a holds the position, b held it before, and one more row may be written.
SomeTables ==
    {[i \in Appt |-> CASE i = h -> Of(a, "published")
                      [] i = k -> [Of(b, "archived") EXCEPT !.archived = TRUE]
                      [] OTHER -> Absent] : <<h, k>> \in {x \in Appt \X Appt : x[1] # x[2]}}

JustDrafts == {"draft"}
SomePatches == {<<b, "keep">>, <<NoPerson, "archived">>, <<NoPerson, "draft">>}

\* Two rows differ by nothing but their identity.
Symmetric == Permutations(Appt)
=============================================================================
