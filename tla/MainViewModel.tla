--------------------------- MODULE MainViewModel ---------------------------
(***************************************************************************)
(* The Android demo's screen over one mobile client (MainViewModel.kt and  *)
(* the buttons of MainActivity.kt).  A click is accepted when its button   *)
(* is enabled and nothing is busy; the call runs on an IO thread (caller   *)
(* Vm) and the screen is refreshed when it returns.  When the screen is    *)
(* gone for good, onCleared disconnects on the main thread (caller Clear), *)
(* whatever the IO thread is doing.                                        *)
(***************************************************************************)
EXTENDS MobileClient

CONSTANTS Vm, Clear

ASSUME ViewModelAssumption == Vm # Clear /\ Callers = {Vm, Clear}

VARIABLES
  shown,       \* MainUiState.status
  busy,        \* MainUiState.busy
  asked,       \* the call handed to the IO dispatcher and not begun
  clearing,    \* onCleared: "no", "called", "disconnecting", "done"
  racing       \* history: a connect was under way when onCleared was called

screenVars == <<shown, busy, asked, clearing, racing>>
vars == <<mobileVars, screenVars>>

TypeOK ==
  /\ MobileTypeOK
  /\ shown \in Statuses
  /\ busy \in BOOLEAN
  /\ asked \in {"nothing", "connect", "disconnect", "use"}
  /\ clearing \in {"no", "called", "disconnecting", "done"}
  /\ racing \in BOOLEAN

Init ==
  /\ MobileInit
  /\ shown = "idle"
  /\ busy = FALSE
  /\ asked = "nothing"
  /\ clearing = "no"
  /\ racing = FALSE
-----------------------------------------------------------------------------
(* Connect is enabled unless the status is "connected", the other buttons  *)
(* only then.                                                              *)
Enabled(call) == (call = "connect") = (shown # "connected")

Click(call) ==
  /\ clearing = "no"
  /\ ~busy
  /\ Enabled(call)
  /\ busy' = TRUE
  /\ asked' = call
  /\ UNCHANGED <<mobileVars, shown, clearing, racing>>

(* The IO thread enters the client.                                        *)
Begin ==
  /\ \/ asked = "connect" /\ (ConnectRefused(Vm) \/ ConnectBegins(Vm))
     \/ asked = "disconnect" /\ TakeSession(Vm)
     \/ asked = "use" /\ (UseRefused(Vm) \/ UseBegins(Vm))
  /\ asked' = "nothing"
  /\ UNCHANGED <<shown, busy, clearing, racing>>

(* The scope is cancelled before the IO thread took the call.              *)
Dropped ==
  /\ clearing # "no"
  /\ asked # "nothing"
  /\ asked' = "nothing"
  /\ UNCHANGED <<mobileVars, shown, busy, clearing, racing>>

(* The mutant: the refresh is not in the finally block.                    *)
Refresh_OnlyAfterSuccess ==
  /\ busy
  /\ asked = "nothing" /\ pc[Vm] = "ready"
  /\ outcome[Vm] = "ok"
  /\ shown' = status
  /\ busy' = FALSE
  /\ UNCHANGED <<mobileVars, asked, clearing, racing>>

Refresh ==
  /\ busy
  /\ asked = "nothing" /\ pc[Vm] = "ready"
  /\ shown' = status
  /\ busy' = FALSE
  /\ UNCHANGED <<mobileVars, asked, clearing, racing>>
-----------------------------------------------------------------------------
OnCleared ==
  /\ clearing = "no"
  /\ clearing' = "called"
  /\ racing' = (asked = "connect" \/ pc[Vm] \in Connecting)
  /\ UNCHANGED <<mobileVars, shown, busy, asked>>

(* The mutant: onCleared does not disconnect.                              *)
ClearTakes_Nothing ==
  /\ clearing = "called"
  /\ clearing' = "done"
  /\ UNCHANGED <<mobileVars, shown, busy, asked, racing>>

ClearTakes ==
  /\ clearing = "called"
  /\ TakeSession(Clear)
  /\ clearing' = "disconnecting"
  /\ UNCHANGED <<shown, busy, asked, racing>>

ClearReturns ==
  /\ clearing = "disconnecting"
  /\ pc[Clear] = "ready"
  /\ clearing' = "done"
  /\ UNCHANGED <<mobileVars, shown, busy, asked, racing>>

ClientSteps ==
  /\ \/ \E c \in Callers : Steps(c)
     \/ \E s \in Sessions : SessionCloses(s)
  /\ UNCHANGED screenVars

Next ==
  \/ \E call \in {"connect", "disconnect", "use"} : Click(call)
  \/ Begin \/ Dropped \/ Refresh
  \/ OnCleared \/ ClearTakes \/ ClearReturns
  \/ ClientSteps

Spec == Init /\ [][Next]_vars

(* Every thread keeps running and a stopped session closes.  The dial has  *)
(* no time limit (context.Background()), so nothing is assumed of it: it   *)
(* may never come back.                                                    *)
Fairness ==
  /\ WF_vars(Begin)
  /\ WF_vars(Refresh)
  /\ WF_vars(ClearTakes)
  /\ WF_vars(ClearReturns)
  /\ WF_vars(\E s \in Sessions : SessionCloses(s) /\ UNCHANGED screenVars)
  /\ \A c \in Callers :
       WF_vars(Steps(c) /\ pc[c] # "dial" /\ UNCHANGED screenVars)

FairSpec == Spec /\ Fairness
-----------------------------------------------------------------------------
Up(s) == life[s] \in {"up", "stopped"}

(* The demo never holds two tunnels: a new Connect comes after the old     *)
(* session was stopped and waited for, even when a failed request has      *)
(* enabled the Connect button on a live session.  Only a Connect that      *)
(* onCleared overtook may dial beside the session being closed.            *)
OneSession == ~racing => \A s, t \in Sessions : Up(s) /\ Up(t) => s = t

(* A screen at rest that says "connected" has a session that is up: no     *)
(* late answer of a request writes "connected" over a disconnect.          *)
ShownConnectedIsTrue ==
  clearing = "no" /\ ~busy /\ shown = "connected" =>
    session # None /\ life[session] = "up"

(* A screen at rest without the Disconnect button has no live session,     *)
(* unless a request or ping failed (client.go:109, 128 overwrite the       *)
(* status and leave the session) or Connect was refused after that.        *)
LiveIsStoppable ==
  clearing = "no" /\ ~busy /\ session # None /\ shown # "connected" =>
    outcome[Vm] \in {"useFailed", "refused"}

(* The buttons of a screen at rest are those that fit the session.         *)
ScreenTellsTruth == ShownConnectedIsTrue /\ LiveIsStoppable

(* When every call of a cleared screen has returned nothing is left open,  *)
(* except when onCleared overtook a Connect.                               *)
ClearedReleases ==
  /\ clearing = "done" /\ ~racing
  /\ asked = "nothing" /\ pc[Vm] = "ready"
  => \A s \in Sessions : ~Up(s)

(* The screen becomes usable again after every click, unless it waits for  *)
(* a dial.                                                                 *)
BusyEnds == (busy /\ asked # "connect" /\ pc[Vm] # "dial") ~> ~busy

(* onCleared, on the main thread, returns.                                 *)
ClearReturnsInTime == (clearing = "called") ~> (clearing = "done")

(* Neither of the two threads is stuck in a call, the dial apart.          *)
CallsReturn == BusyEnds /\ ClearReturnsInTime
=============================================================================
