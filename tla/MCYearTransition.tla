-------------------------- MODULE MCYearTransition --------------------------
(* Small instances of YearTransition for TLC. *)
EXTENDS YearTransition, TLC

CONSTANTS y1, y2, r1, r2, council, club, head, a, b, page, coordinator

TwoYears == {y1, y2}
TwoRequests == {r1, r2}
TwoUnits == {council, club}
Heads == {[unit |-> club, position |-> head, person |-> p] : p \in {a, b}}
OnePosition == {head}
ClubPage == {page}
PageOfClub == [i \in {page} |-> club]
OneGrant == {coordinator}

\* A council with a club under it, the club's head, page and coordinator.
LastYear == [units |-> (council :> NoUnit @@ club :> council),
             roster |-> {[unit |-> club, position |-> head, person |-> a]},
             items |-> {page}, grants |-> {coordinator}]

WholeCopy == {AllPhases}
Symmetric == Permutations(Req)
=============================================================================
