--------------------------- MODULE MCRunnerSession ---------------------------
(* Values for the constants of RunnerSession.  Two SOCKS connections make  *)
(* the accept loop run again after a connection; two websocket clients let *)
(* one handler overtake another, a third arrives after both.               *)
EXTENDS RunnerSession

CONSTANTS c1, c2, c3, s1, s2

TwoConns == {c1, c2}
ThreeConns == {c1, c2, c3}
TwoSocks == {s1, s2}
=============================================================================
