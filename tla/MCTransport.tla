---------------------------- MODULE MCTransport ----------------------------
(* Values for the constants of Transport: two calls of Close, at one end   *)
(* or at both.                                                             *)
EXTENDS Transport

CONSTANTS c1, c2

TwoClosers == {c1, c2}
=============================================================================
