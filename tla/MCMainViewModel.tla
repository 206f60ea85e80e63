--------------------------- MODULE MCMainViewModel ---------------------------
(* Values for the constants of MainViewModel: the screen's two threads and *)
(* the sessions of three connects.                                         *)
EXTENDS MainViewModel

CONSTANTS s1, s2, s3

TwoThreads == {Vm, Clear}
ThreeSessions == {s1, s2, s3}
=============================================================================
