--------------------------- MODULE MCClientSession ---------------------------
(* Values for the constants of ClientSession: three goroutines that Wait.  *)
EXTENDS ClientSession

CONSTANTS o1, o2, o3

ThreeOwners == {o1, o2, o3}
=============================================================================
