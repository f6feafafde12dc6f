------------------------- MODULE MCContentLifecycle -------------------------
(* Small instances of ContentLifecycle for TLC. *)
EXTENDS ContentLifecycle, TLC

CONSTANTS r1, r2

TwoRequests == {r1, r2}
Symmetric == Permutations(Req)
=============================================================================
