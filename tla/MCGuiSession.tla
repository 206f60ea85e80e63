---------------------------- MODULE MCGuiSession ----------------------------
(* Values for the constants of GuiSession: two sessions, the second one    *)
(* started after the first, and two requests or pings in flight.           *)
EXTENDS GuiSession

CONSTANTS a, b, t1, t2

TwoSessions == {a, b}
TwoTasks == {t1, t2}
=============================================================================
