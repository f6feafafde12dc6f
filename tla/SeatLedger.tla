----------------------------- MODULE SeatLedger -----------------------------
(***************************************************************************)
(* What the registrations of an event promise to the members: each account *)
(* has at most one seat in the ledger, and a change is about one account,  *)
(* or hands seats to members who wait for one.  Nobody loses a seat, or a  *)
(* place in the line, by a request about somebody else.                    *)
(***************************************************************************)
CONSTANT User

VARIABLE seat    \* seat[u]: "none", "waitlisted" or "confirmed"

Init == seat = [u \in User |-> "none"]

\* From one ledger to the next, these accounts change, and these of them get
\* the seat they were waiting for.
Changed(old, new) == {u \in User : new[u] # old[u]}

Given(old, new) ==
    {u \in Changed(old, new) : old[u] = "waitlisted" /\ new[u] = "confirmed"}

\* A raised capacity: waiting members get seats.
Fill(old, new) == Changed(old, new) \subseteq Given(old, new)

\* One account joins, leaves or is moved; at most one waiting member gets the
\* seat it may have given up.
Change(old, new) ==
    \E u \in Changed(old, new) :
        /\ Changed(old, new) \ {u} \subseteq Given(old, new)
        /\ \A v, w \in Changed(old, new) \ {u} : v = w

Next == Fill(seat, seat') \/ Change(seat, seat')

Spec == Init /\ [][Next]_seat
=============================================================================
