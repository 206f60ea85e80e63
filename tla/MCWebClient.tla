----------------------------- MODULE MCWebClient -----------------------------
(* Values for the constants of WebClient: three calls at once and two      *)
(* connections in all.                                                     *)
EXTENDS WebClient

CONSTANTS k1, k2, k3, c1, c2

ThreeCalls == {k1, k2, k3}
TwoConns == {c1, c2}
=============================================================================
