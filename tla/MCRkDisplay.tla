---------------------------- MODULE MCRkDisplay ----------------------------
(* Instances of RkDisplay for TLC.                                         *)
EXTENDS RkDisplay, TLC

CONSTANTS b1, b2, b3, b4, b5

ThreeBuffers == {b1, b2, b3}
FourBuffers == {b1, b2, b3, b4}
FiveBuffers == {b1, b2, b3, b4, b5}
Symmetry == Permutations({b1, b2, b3, b4, b5})
\* Everything that can fail, except turning the plane off.
RunFaults == FaultKinds \ {"disable", "offwait"}
AllFaults == FaultKinds
NoFaults == {}
=============================================================================
