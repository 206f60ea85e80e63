---------------------------- MODULE MCVpnService ----------------------------
(* Values for the constants of VpnService: two clicks.                     *)
EXTENDS VpnService

CONSTANTS j1, j2

TwoJobs == {j1, j2}
=============================================================================
