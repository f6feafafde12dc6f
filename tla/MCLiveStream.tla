---------------------------- MODULE MCLiveStream ----------------------------
(* A small instance of LiveStream for TLC. *)
EXTENDS LiveStream

CONSTANTS h1, h2, v1, v2, p1, p2

TwoHosts == {h1, h2}
OneViewer == {v1}
TwoViewers == {v1, v2}
OneProcess == {p1}
TwoProcesses == {p1, p2}

Of(hs, vs, ps, os, w, t) ==
    [hosts |-> hs, viewers |-> vs, players |-> ps, processes |-> os,
     writes |-> w, trouble |-> t]

RacingHosts == Of({h1, h2}, {v1}, {}, {p1}, 2, 0)
RacingPlayers == Of({h1}, {v1, v2}, {v1, v2}, {p1}, 1, 0)
ApartOnProcesses == Of({h1}, {v1}, {}, {p1, p2}, 2, 1)
PlayerInTrouble == Of({h1}, {v1}, {v1}, {p1}, 2, 1)
FourScenes == {RacingHosts, RacingPlayers, ApartOnProcesses, PlayerInTrouble}
=============================================================================
