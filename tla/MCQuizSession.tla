--------------------------- MODULE MCQuizSession ---------------------------
(* Small instances of QuizSession for TLC. *)
EXTENDS QuizSession, TLC

CONSTANTS r1, r2, m1

OneRequest == {r1}
TwoRequests == {r1, r2}
OneMember == {m1}

SessionOps == {"create", "next", "reveal", "end"}
HostsOps == SessionOps \cup {"answer", "reorder", "edit", "editOrder"}
KeptOrderOps == AllOps \ {"reorder", "editOrder"}

\* Requests are interchangeable when each of them may be a host's.
Symmetric == Permutations(Req)
=============================================================================
