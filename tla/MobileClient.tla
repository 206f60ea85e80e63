---------------------------- MODULE MobileClient ----------------------------
(***************************************************************************)
(* The Go object behind the Android demo (mobilelib/client.go): Connect,   *)
(* Disconnect, Request and Ping on one Client, each called from a thread   *)
(* of its own.  The mutex is held only around the fields; every method     *)
(* leaves it while it works, so that calls interleave at each step below.  *)
(*                                                                         *)
(* A session is what SessionHandle promises: it is up until it is stopped  *)
(* and closed some time later.                                             *)
(***************************************************************************)
EXTENDS Naturals, FiniteSets

CONSTANTS
  Callers,     \* threads that call the client's methods
  Sessions,    \* identities of the sessions Connect may create
  None         \* the nil session

ASSUME MobileAssumption == None \notin Sessions

VARIABLES
  session,     \* Client.session
  status,      \* Client.status; every "... failed: ..." text is "failed"
  pc,          \* per caller: where it is in its method
  my,          \* per caller: its local variable session
  outcome,     \* per caller: how its last call ended
  life,        \* per session: what it holds
  overlapped   \* history: two Connects were once past their check at once

callVars == <<pc, my, outcome>>
mobileVars == <<session, status, callVars, life, overlapped>>

Statuses == {"idle", "connecting", "connected", "disconnecting", "failed"}
Connecting == {"dial", "store"}

MobileTypeOK ==
  /\ session \in Sessions \cup {None}
  /\ status \in Statuses
  /\ pc \in [Callers -> {"ready", "dial", "store", "taken", "wait", "use", "answered"}]
  /\ my \in [Callers -> Sessions \cup {None}]
  /\ outcome \in [Callers -> {"none", "ok", "refused", "connectFailed", "useFailed"}]
  /\ life \in [Sessions -> {"unused", "up", "stopped", "closed"}]
  /\ overlapped \in BOOLEAN

MobileInit ==
  /\ session = None
  /\ status = "idle"
  /\ pc = [c \in Callers |-> "ready"]
  /\ my = [c \in Callers |-> None]
  /\ outcome = [c \in Callers |-> "none"]
  /\ life = [s \in Sessions |-> "unused"]
  /\ overlapped = FALSE

Goto(c, step, local) ==
  /\ pc' = [pc EXCEPT ![c] = step]
  /\ my' = [my EXCEPT ![c] = local]
  /\ UNCHANGED outcome

Return(c, how) ==
  /\ pc' = [pc EXCEPT ![c] = "ready"]
  /\ my' = [my EXCEPT ![c] = None]
  /\ outcome' = [outcome EXCEPT ![c] = how]
-----------------------------------------------------------------------------
(* Connect.                                                                *)

(* The mutant: the refusal is reported in the status, too.                 *)
ConnectRefused_Reports(c) ==
  /\ pc[c] = "ready"
  /\ session # None
  /\ status' = "already connected"
  /\ Return(c, "refused")
  /\ UNCHANGED <<session, life, overlapped>>

ConnectRefused(c) ==
  /\ pc[c] = "ready"
  /\ session # None
  /\ Return(c, "refused")
  /\ UNCHANGED <<session, status, life, overlapped>>

(* The check and the assignment are in two critical sections.              *)
ConnectBegins(c) ==
  /\ pc[c] = "ready"
  /\ session = None
  /\ \E s \in Sessions : life[s] = "unused"
  /\ status' = "connecting"
  /\ Goto(c, "dial", None)
  /\ overlapped' = (overlapped \/ \E d \in Callers : pc[d] \in Connecting)
  /\ UNCHANGED <<session, life>>

DialOk(c) ==
  /\ pc[c] = "dial"
  /\ \E s \in Sessions :
       /\ life[s] = "unused"
       /\ life' = [life EXCEPT ![s] = "up"]
       /\ Goto(c, "store", s)
  /\ UNCHANGED <<session, status, overlapped>>

DialFails(c) ==
  /\ pc[c] = "dial"
  /\ status' = "failed"
  /\ Return(c, "connectFailed")
  /\ UNCHANGED <<session, life, overlapped>>

(* The mutant: the new session is assigned to a shadowing local variable.  *)
ConnectStores_Shadowed(c) ==
  /\ pc[c] = "store"
  /\ status' = "connected"
  /\ Return(c, "ok")
  /\ UNCHANGED <<session, life, overlapped>>

(* The mutant: the status is left as it was.                               *)
ConnectStores_OldStatus(c) ==
  /\ pc[c] = "store"
  /\ session' = my[c]
  /\ Return(c, "ok")
  /\ UNCHANGED <<status, life, overlapped>>

ConnectStores(c) ==
  /\ pc[c] = "store"
  /\ session' = my[c]
  /\ status' = "connected"
  /\ Return(c, "ok")
  /\ UNCHANGED <<life, overlapped>>
-----------------------------------------------------------------------------
(* Disconnect.                                                             *)

TakeSession(c) ==
  /\ pc[c] = "ready"
  /\ session' = None
  /\ status' = "disconnecting"
  /\ Goto(c, "taken", session)
  /\ UNCHANGED <<life, overlapped>>

DisconnectNothing(c) ==
  /\ pc[c] = "taken" /\ my[c] = None
  /\ status' = "idle"
  /\ Return(c, "ok")
  /\ UNCHANGED <<session, life, overlapped>>

StopSession(c) ==
  /\ pc[c] = "taken" /\ my[c] # None
  /\ life' = [life EXCEPT ![my[c]] = IF @ = "up" THEN "stopped" ELSE @]
  /\ Goto(c, "wait", my[c])
  /\ UNCHANGED <<session, status, overlapped>>

(* The mutant: Stop without Wait.                                          *)
DisconnectReturns_NoWait(c) ==
  /\ pc[c] = "wait"
  /\ status' = "idle"
  /\ Return(c, "ok")
  /\ UNCHANGED <<session, life, overlapped>>

DisconnectReturns(c) ==
  /\ pc[c] = "wait"
  /\ life[my[c]] = "closed"
  /\ status' = "idle"
  /\ Return(c, "ok")
  /\ UNCHANGED <<session, life, overlapped>>
-----------------------------------------------------------------------------
(* Request and Ping: the same steps, under different time limits.          *)

UseRefused(c) ==
  /\ pc[c] = "ready"
  /\ session = None
  /\ Return(c, "refused")
  /\ UNCHANGED <<session, status, life, overlapped>>

UseBegins(c) ==
  /\ pc[c] = "ready"
  /\ session # None
  /\ Goto(c, "use", session)
  /\ UNCHANGED <<session, status, life, overlapped>>

(* An answer needs an open session; the status is set later.               *)
UseAnswered(c) ==
  /\ pc[c] = "use"
  /\ life[my[c]] # "closed"
  /\ Goto(c, "answered", my[c])
  /\ UNCHANGED <<session, status, life, overlapped>>

UseReturns(c) ==
  /\ pc[c] = "answered"
  /\ status' = "connected"
  /\ Return(c, "ok")
  /\ UNCHANGED <<session, life, overlapped>>

(* An error, or the time limit.                                            *)
UseFails(c) ==
  /\ pc[c] = "use"
  /\ status' = "failed"
  /\ Return(c, "useFailed")
  /\ UNCHANGED <<session, life, overlapped>>
-----------------------------------------------------------------------------
(* The session's closing goroutine.                                        *)
SessionCloses(s) ==
  /\ life[s] = "stopped"
  /\ life' = [life EXCEPT ![s] = "closed"]
  /\ UNCHANGED <<session, status, callVars, overlapped>>

Calls(c) == ConnectRefused(c) \/ ConnectBegins(c) \/ TakeSession(c) \/ UseRefused(c) \/ UseBegins(c)

Steps(c) ==
  \/ DialOk(c) \/ DialFails(c) \/ ConnectStores(c)
  \/ DisconnectNothing(c) \/ StopSession(c) \/ DisconnectReturns(c)
  \/ UseAnswered(c) \/ UseReturns(c) \/ UseFails(c)

MobileNext ==
  \/ \E c \in Callers : Calls(c) \/ Steps(c)
  \/ \E s \in Sessions : SessionCloses(s)

MobileSpec == MobileInit /\ [][MobileNext]_mobileVars
-----------------------------------------------------------------------------
(* A session is stopped and waited for by one Disconnect only, however     *)
(* many are called at once (takeSession, client.go:154-165).               *)
TakenOnce ==
  \A c, d \in Callers :
    my[c] # None /\ my[c] = my[d] /\ {pc[c], pc[d]} \subseteq {"taken", "wait"} => c = d

(* Every session that is up can still be reached: it is the client's, or   *)
(* in the hands of a call that is about to store or stop it.  The one way  *)
(* to lose one is two Connects that are both past the check.               *)
NoSessionLost ==
  overlapped \/
    \A s \in Sessions : life[s] = "up" =>
      \/ session = s
      \/ \E c \in Callers : my[c] = s /\ pc[c] \in {"store", "taken"}
=============================================================================
