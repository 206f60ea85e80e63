---------------------------- MODULE MCVTunCalls ----------------------------
(* Values for the constants of VTunCalls: two pings and a request.         *)
EXTENDS VTunCalls

CONSTANTS p1, p2, r1, i1, i2

TwoPings == {p1, p2}
OneRequest == {r1}
TwoIdents == {i1, i2}
=============================================================================
