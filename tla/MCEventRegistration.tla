------------------------ MODULE MCEventRegistration ------------------------
(* Small instances of EventRegistration for TLC. *)
EXTENDS EventRegistration, TLC

CONSTANTS r1, r2, r3, u1, u2, u3

OneRequest == {r1}
TwoRequests == {r1, r2}
TwoUsers == {u1, u2}
ThreeUsers == {u1, u2, u3}

\* Raised, lowered, closed (0) and removed capacities.
AnyCaps == {0, 1, 2, Unlimited}
TwoCaps == {1, 2}
NoCaps == {}

RegisterOps == {"register"}
LockingOps == {"register", "cancel", "setStatus"}
ConcurrentOps == AllOps \ {"add", "setStatus"}

\* What the rest of a behaviour depends on.  No guard reads the board or the
\* counts on their way to it, a request past a statement no longer uses what it
\* read for it, and nobody looks at the owner of a row that is gone.
LiveReads(q) ==
    IF At(q, "counts") \/ At(q, "announce") THEN [Idle EXCEPT !.pc = req[q].pc]
    ELSE [req[q] EXCEPT
            !.seenCap = IF @ # Unlimited
                           /\ req[q].pc \in {"find", "count", "seats", "pick"}
                        THEN @ ELSE Unlimited,
            !.room = IF At(q, "pick") THEN @ ELSE 0]

LiveOwner(i) ==
    IF reg[i] = "absent" /\ \A q \in Req : pend[q][i] = "same"
    THEN NoUser ELSE owner[i]

View == <<reg, [i \in RowId |-> LiveOwner(i)], last, cap, pend,
          [q \in Req |-> LiveReads(q)], stale>>

\* Requests and accounts are interchangeable.
Symmetric == Permutations(Req) \cup Permutations(User)
=============================================================================
