------------------------- MODULE MCAccountRecovery -------------------------
(* Small instances of AccountRecovery for TLC. *)
EXTENDS AccountRecovery

CONSTANTS a1, a2, f1, f2, b1, g1, g2, g3

TwoAdmins == {a1, a2}
TwoForms == {f1, f2}
OneTab == {b1}
ThreeGenerated == {g1, g2, g3}
=============================================================================
