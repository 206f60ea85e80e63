---------------------------- MODULE ClientSession ----------------------------
(***************************************************************************)
(* The client-only sessions of clientcore: VTunClientSession (desktop GUI, *)
(* Android demo, browser) and AndroidTunClientSession (Android VpnService).*)
(* One constructor, which returns a session or an error, and one goroutine *)
(* that closes everything once the context is done.  The two differ in the *)
(* order in which the constructor takes the device and the websocket.      *)
(***************************************************************************)

CONSTANTS
  Owners,          \* goroutines that hold the session and Wait for it
  Kinds,           \* subset of AllKinds
  ParentCancels    \* the parent context can be cancelled: the GUI's root
                   \* context can, context.Background() of mobilelib cannot

AllKinds == {"vtun", "android"}

ASSUME ClientAssumption ==
  /\ Kinds \subseteq AllKinds
  /\ ParentCancels \in BOOLEAN

VARIABLES
  kind,
  pc,          \* where the constructor is
  cancelled,   \* ctx is done
  fd,          \* the TUN descriptor that Android hands over, detached
  dev,         \* the TUN device
  conn,        \* the websocket
  p2p,         \* the bridge between them
  closer,      \* the goroutine that closes: its next step
  owner        \* what each owner is doing about Wait

vars == <<kind, pc, cancelled, fd, dev, conn, p2p, closer, owner>>

Starting == {"new", "first", "second", "devFailed", "dialFailed"}
Handle == {"none", "open", "closed"}

TypeOK ==
  /\ kind \in AllKinds
  /\ pc \in Starting \cup {"failed", "up"}
  /\ cancelled \in BOOLEAN
  /\ fd \in Handle /\ dev \in Handle
  /\ conn \in Handle \cup {"lost"}
  /\ p2p \in {"none", "on", "stopped"}
  /\ closer \in {"none", "bridge", "conn", "dev", "done", "exited"}
  /\ owner \in [Owners -> {"away", "waiting", "returned"}]

Init ==
  /\ kind \in Kinds
  /\ pc = "new"
  /\ cancelled = FALSE
  /\ fd = IF kind = "android" THEN "open" ELSE "none"
  /\ dev = "none" /\ conn = "none" /\ p2p = "none"
  /\ closer = "none"
  /\ owner = [o \in Owners |-> "away"]
-----------------------------------------------------------------------------
(* The constructor.                                                        *)

(* A missing URL, an invalid address or descriptor.  A descriptor that was *)
(* already handed over stays open.                                         *)
Refuse ==
  /\ pc = "new"
  /\ pc' = "failed"
  /\ UNCHANGED <<kind, cancelled, fd, dev, conn, p2p, closer, owner>>

Accepted ==
  /\ pc = "new"
  /\ pc' = "first"
  /\ UNCHANGED <<kind, cancelled, fd, dev, conn, p2p, closer, owner>>

(* The vtun client dials and then builds its device; the Android client    *)
(* takes the descriptor first and then dials.                              *)
AtDial == pc = IF kind = "vtun" THEN "first" ELSE "second"
AtDev == pc = IF kind = "vtun" THEN "second" ELSE "first"

(* The last of the two: the bridge is set up and the closer is spawned.    *)
FinishIfSecond ==
  \/ pc = "first" /\ pc' = "second" /\ UNCHANGED <<p2p, closer>>
  \/ pc = "second" /\ pc' = "up" /\ p2p' = "on" /\ closer' = "bridge"

DialOk ==
  /\ AtDial
  /\ conn' = "open"
  /\ FinishIfSecond
  /\ UNCHANGED <<kind, cancelled, fd, dev, owner>>

(* The device takes the descriptor over.                                   *)
DevOk ==
  /\ AtDev
  /\ dev' = "open"
  /\ fd' = IF fd = "open" THEN "closed" ELSE fd
  /\ FinishIfSecond
  /\ UNCHANGED <<kind, cancelled, conn, owner>>

DialFails ==
  /\ AtDial
  /\ pc' = "dialFailed"
  /\ cancelled' = TRUE
  /\ UNCHANGED <<kind, fd, dev, conn, p2p, closer, owner>>

DevFails ==
  /\ AtDev
  /\ pc' = "devFailed"
  /\ cancelled' = TRUE
  /\ UNCHANGED <<kind, fd, dev, conn, p2p, closer, owner>>

(* The mutant: the error path returns without closing the device.          *)
CleanDial_KeepsDev ==
  /\ pc = "dialFailed"
  /\ pc' = "failed"
  /\ UNCHANGED <<kind, cancelled, fd, dev, conn, p2p, closer, owner>>

(* The mutant: the error path calls Wait, whose goroutine does not exist.  *)
CleanDial_Waits ==
  /\ pc = "dialFailed"
  /\ closer = "exited"
  /\ pc' = "failed"
  /\ dev' = IF dev = "open" THEN "closed" ELSE dev
  /\ UNCHANGED <<kind, cancelled, fd, conn, p2p, closer, owner>>

(* Each error path gives back what the first of the two had taken.         *)
CleanDial ==
  /\ pc = "dialFailed"
  /\ pc' = "failed"
  /\ dev' = IF dev = "open" THEN "closed" ELSE dev
  /\ UNCHANGED <<kind, cancelled, fd, conn, p2p, closer, owner>>

CleanDev ==
  /\ pc = "devFailed"
  /\ pc' = "failed"
  /\ conn' = IF conn # "none" THEN "closed" ELSE conn
  /\ UNCHANGED <<kind, cancelled, fd, dev, p2p, closer, owner>>
-----------------------------------------------------------------------------
(* Stop, through the handle; or the parent context, during the start too.  *)
Stop ==
  /\ ~cancelled
  /\ pc = "up" \/ (ParentCancels /\ pc \in Starting)
  /\ cancelled' = TRUE
  /\ UNCHANGED <<kind, pc, fd, dev, conn, p2p, closer, owner>>

(* The peer or the network ends the websocket: the session stays as it is. *)
ConnLost ==
  /\ conn = "open"
  /\ conn' = "lost"
  /\ UNCHANGED <<kind, pc, cancelled, fd, dev, p2p, closer, owner>>
-----------------------------------------------------------------------------
(* closeResources, then close(done).                                       *)

(* The mutant: a lost websocket ends the session too.                      *)
StopBridge_OnLoss ==
  /\ closer = "bridge" /\ (cancelled \/ conn = "lost")
  /\ p2p' = "stopped"
  /\ closer' = "conn"
  /\ UNCHANGED <<kind, pc, cancelled, fd, dev, conn, owner>>

StopBridge ==
  /\ closer = "bridge" /\ cancelled
  /\ p2p' = "stopped"
  /\ closer' = "conn"
  /\ UNCHANGED <<kind, pc, cancelled, fd, dev, conn, owner>>

CloseConn ==
  /\ closer = "conn"
  /\ conn' = "closed"
  /\ closer' = "dev"
  /\ UNCHANGED <<kind, pc, cancelled, fd, dev, p2p, owner>>

CloseDev ==
  /\ closer = "dev"
  /\ dev' = "closed"
  /\ closer' = "done"
  /\ UNCHANGED <<kind, pc, cancelled, fd, conn, p2p, owner>>

CloseDone ==
  /\ closer = "done"
  /\ closer' = "exited"
  /\ UNCHANGED <<kind, pc, cancelled, fd, dev, conn, p2p, owner>>
-----------------------------------------------------------------------------
(* Wait: several goroutines may wait for the same session (the GUI's       *)
(* waiter and its exit path, or a Disconnect).                             *)

CallWait(o) ==
  /\ pc = "up" /\ owner[o] = "away"
  /\ owner' = [owner EXCEPT ![o] = "waiting"]
  /\ UNCHANGED <<kind, pc, cancelled, fd, dev, conn, p2p, closer>>

WaitReturns(o) ==
  /\ owner[o] = "waiting" /\ closer = "exited"
  /\ owner' = [owner EXCEPT ![o] = "returned"]
  /\ UNCHANGED <<kind, pc, cancelled, fd, dev, conn, p2p, closer>>
-----------------------------------------------------------------------------
Constructor ==
  Refuse \/ Accepted \/ DialOk \/ DialFails \/ DevOk \/ DevFails \/ CleanDial \/ CleanDev

Closer == StopBridge \/ CloseConn \/ CloseDev \/ CloseDone

Next ==
  \/ Constructor \/ Stop \/ ConnLost \/ Closer
  \/ \E o \in Owners : CallWait(o) \/ WaitReturns(o)

Spec == Init /\ [][Next]_vars

(* The goroutines run; a dial may hang until its context is cancelled.     *)
(* Nobody has to call Stop or Wait.                                        *)
Fairness ==
  /\ WF_vars((AtDial => cancelled) /\ Constructor)
  /\ WF_vars(Closer)
  /\ \A o \in Owners : WF_vars(WaitReturns(o))

FairSpec == Spec /\ Fairness
-----------------------------------------------------------------------------
Released == dev # "open" /\ conn \notin {"open", "lost"} /\ p2p # "on"

(* Whoever gets back from Wait finds the bridge stopped and the websocket  *)
(* and the device closed (vtun_client.go:112-116, 137-147).                *)
WaitMeansReleased == \A o \in Owners : owner[o] = "returned" => Released

(* A constructor that fails leaves nothing open, the Android descriptor    *)
(* apart: it is given back only by a device that was made from it, so that *)
(* a missing URL or an error of CreateUnmonitoredTUNFromFD keeps it open   *)
(* (android_tun_client_android.go:37-57).                                  *)
FailedMeansReleased ==
  pc = "failed" =>
    /\ Released
    /\ fd = "open" => dev = "none" /\ conn = "none"

(* The constructor returns once its context is cancelled, and whenever it  *)
(* is not waiting for the dial.                                            *)
ConstructorReturns ==
  (pc \in Starting /\ (cancelled \/ pc \in {"devFailed", "dialFailed"}))
    ~> (pc \notin Starting)

(* Every Wait on a session that was stopped returns.                       *)
WaitIsAnswered ==
  \A o \in Owners : (owner[o] = "waiting" /\ cancelled) ~> (owner[o] = "returned")

(* Whoever calls a constructor or Wait gets an answer.                     *)
CallsReturn == ConstructorReturns /\ WaitIsAnswered

Phase ==
  IF closer = "exited" THEN "done" ELSE IF pc \in Starting THEN "starting" ELSE pc

Handled == INSTANCE SessionHandle WITH phase <- Phase, held <- ~Released

(* Both sessions keep the promise their owners rely on (SessionHandle).    *)
ImplementsHandle == Handled!Spec
=============================================================================
