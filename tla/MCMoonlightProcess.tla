------------------------- MODULE MCMoonlightProcess -------------------------
(* Instances of MoonlightProcess for TLC.                                  *)
EXTENDS MoonlightProcess

CONSTANTS p1, p2, p3

ThreePids == {p1, p2, p3}
TwoPids == {p1, p2}
CallFaults == {"prepare", "fork", "pidfile", "reuse"}
CrashFaults == {"crash", "fork"}
NoFaults == {}
=============================================================================
