------------------------------- MODULE MCLogs -------------------------------
(* Values for the constants of Logs.                                       *)
EXTENDS Logs

CONSTANTS t1, t2

TwoThreads == {t1, t2}
=============================================================================
