------------------------- MODULE ClientSessionProofs -------------------------
(***************************************************************************)
(* What ClientSession guarantees for any owners, for both kinds of session *)
(* and whether or not the parent context can be cancelled.                 *)
(*                                                                         *)
(* The inductive invariant says what the constructor has taken at each of  *)
(* its places (Taken) and what the closer has closed at each of its        *)
(* (Closed); an owner only gets back from Wait behind the closer's end.    *)
(***************************************************************************)
EXTENDS ClientSession, TLAPS

Nothing == dev = "none" /\ conn = "none"

Taken ==
  /\ pc # "up" => p2p = "none" /\ closer = "none"
  /\ pc \in {"new", "first"} => Nothing
  /\ pc \in {"new", "first"} /\ kind = "android" => fd = "open"
  /\ pc = "second" /\ kind = "vtun" => dev = "none"
  /\ pc = "second" /\ kind = "android" => conn = "none"
  /\ pc = "devFailed" => dev = "none" /\ (fd = "open" => conn = "none")
  /\ pc = "dialFailed" => conn = "none" /\ fd # "open"
  /\ pc \in {"second", "up"} => fd # "open"
  /\ pc = "up" => closer # "none"
  /\ kind = "vtun" => fd = "none"

Closed ==
  /\ closer = "bridge" => p2p = "on"
  /\ closer \in {"conn", "dev", "done", "exited"} => p2p = "stopped" /\ cancelled
  /\ closer \in {"dev", "done", "exited"} => conn = "closed"
  /\ closer \in {"done", "exited"} => dev = "closed"
  /\ \A o \in Owners : owner[o] = "returned" => closer = "exited"

(* The inductive invariant.                                                *)
CInv == TypeOK /\ Taken /\ Closed /\ FailedMeansReleased
-----------------------------------------------------------------------------
USE DEF Starting, Handle, AllKinds

LEMMA CInvInit == Init => CInv
<1> SUFFICES ASSUME Init PROVE CInv
  OBVIOUS
<1>1. kind \in AllKinds
  BY ClientAssumption DEF Init
<1> QED
  BY <1>1 DEF Init, CInv, TypeOK, Taken, Closed, FailedMeansReleased, Released, Nothing

LEMMA CInvStep == CInv /\ [Next]_vars => CInv'
<1> SUFFICES ASSUME CInv, [Next]_vars PROVE CInv'
  OBVIOUS
<1> USE DEF CInv, TypeOK, Taken, Closed, FailedMeansReleased, Released, Nothing
<1>1. CASE Refuse
  BY <1>1 DEF Refuse
<1>2. CASE Accepted
  BY <1>2 DEF Accepted
<1>3. CASE DialOk
  BY <1>3 DEF DialOk, AtDial, FinishIfSecond
<1>4. CASE DialFails
  BY <1>4 DEF DialFails, AtDial
<1>5. CASE DevOk
  BY <1>5 DEF DevOk, AtDev, FinishIfSecond
<1>6. CASE DevFails
  BY <1>6 DEF DevFails, AtDev
<1>7. CASE CleanDial
  BY <1>7 DEF CleanDial
<1>8. CASE CleanDev
  BY <1>8 DEF CleanDev
<1>9. CASE Stop
  BY <1>9 DEF Stop
<1>10. CASE ConnLost
  BY <1>10 DEF ConnLost
<1>11. CASE StopBridge
  BY <1>11 DEF StopBridge
<1>12. CASE CloseConn
  BY <1>12 DEF CloseConn
<1>13. CASE CloseDev
  BY <1>13 DEF CloseDev
<1>14. CASE CloseDone
  BY <1>14 DEF CloseDone
<1>15. ASSUME NEW o \in Owners, CallWait(o) \/ WaitReturns(o) PROVE CInv'
  BY <1>15 DEF CallWait, WaitReturns
<1>16. CASE UNCHANGED vars
  BY <1>16 DEF vars
<1> QED
  BY <1>1, <1>2, <1>3, <1>4, <1>5, <1>6, <1>7, <1>8, <1>9, <1>10, <1>11, <1>12,
     <1>13, <1>14, <1>15, <1>16 DEF Next, Constructor, Closer

LEMMA CInvariance == Spec => []CInv
  BY CInvInit, CInvStep, PTL DEF Spec

(* Every reachable state is well typed.                                    *)
THEOREM ClientTypeCorrect == Spec => []TypeOK
<1>1. CInv => TypeOK
  BY DEF CInv
<1> QED
  BY <1>1, CInvariance, PTL

(* Whoever gets back from Wait finds everything closed, whoever else waits *)
(* (vtun_client.go:112-116, android_tun_client_android.go:88-92).          *)
THEOREM WaitReleases == Spec => []WaitMeansReleased
<1>1. CInv => WaitMeansReleased
  BY DEF CInv, Closed, WaitMeansReleased, Released
<1> QED
  BY <1>1, CInvariance, PTL

(* A constructor that fails leaves nothing open but a descriptor that no   *)
(* device was made from.                                                   *)
THEOREM ConstructorReleases == Spec => []FailedMeansReleased
<1>1. CInv => FailedMeansReleased
  BY DEF CInv
<1> QED
  BY <1>1, CInvariance, PTL
-----------------------------------------------------------------------------
(* Every step is a step of SessionHandle or is not seen there.             *)
LEMMA ClientHandleStep ==
  CInv /\ CInv' /\ [Next]_vars => [Handled!Next]_(Handled!vars)
<1> SUFFICES ASSUME CInv, CInv', [Next]_vars
             PROVE  [Handled!Next]_(Handled!vars)
  OBVIOUS
<1> USE DEF CInv, TypeOK, Taken, Closed, Phase, Released, Nothing
<1>1. CASE Refuse
  <2>1. Handled!StartFail
    BY <1>1 DEF Refuse, Handled!StartFail
  <2> QED
    BY <2>1 DEF Handled!Next
<1>2. CASE Accepted
  BY <1>2 DEF Accepted, Handled!vars
<1>3. CASE DialOk \/ DevOk
  <2>1. CASE pc = "first"
    <3>1. Handled!Acquire
      BY <1>3, <2>1 DEF DialOk, DevOk, AtDial, AtDev, FinishIfSecond, Handled!Acquire
    <3> QED
      BY <3>1 DEF Handled!Next
  <2>2. CASE pc = "second"
    <3>1. Handled!StartOk
      BY <1>3, <2>2 DEF DialOk, DevOk, AtDial, AtDev, FinishIfSecond, Handled!StartOk
    <3> QED
      BY <3>1 DEF Handled!Next
  <2> QED
    BY <1>3, <2>1, <2>2 DEF DialOk, DevOk, FinishIfSecond
<1>4. CASE DialFails \/ DevFails \/ Stop
  <2>1. Handled!Cancel
    BY <1>4 DEF DialFails, DevFails, Stop, AtDial, AtDev, Handled!Cancel
  <2> QED
    BY <2>1 DEF Handled!Next
<1>5. CASE CleanDial \/ CleanDev
  <2>1. Handled!StartFail
    BY <1>5 DEF CleanDial, CleanDev, Handled!StartFail
  <2> QED
    BY <2>1 DEF Handled!Next
<1>6. CASE ConnLost
  BY <1>6 DEF ConnLost, Handled!vars
<1>7. CASE StopBridge \/ CloseConn \/ CloseDev
  <2>1. Phase = "up" /\ Phase' = "up" /\ cancelled /\ cancelled'
    BY <1>7 DEF StopBridge, CloseConn, CloseDev
  <2>2. Released => Released'
    BY <1>7 DEF StopBridge, CloseConn, CloseDev
  <2>3. CASE Released'
    <3>1. Handled!Release
      BY <2>1, <2>3 DEF Handled!Release
    <3> QED
      BY <3>1 DEF Handled!Next
  <2>4. CASE ~Released'
    BY <2>1, <2>2, <2>4 DEF Handled!vars
  <2> QED
    BY <2>3, <2>4
<1>8. CASE CloseDone
  <2>1. Handled!Finish
    BY <1>8 DEF CloseDone, Handled!Finish
  <2> QED
    BY <2>1 DEF Handled!Next
<1>9. CASE UNCHANGED vars \/ \E o \in Owners : CallWait(o) \/ WaitReturns(o)
  BY <1>9 DEF vars, CallWait, WaitReturns, Handled!vars
<1> QED
  BY <1>1, <1>2, <1>3, <1>4, <1>5, <1>6, <1>7, <1>8, <1>9 DEF Next, Constructor, Closer

(* Both client sessions implement SessionHandle.                           *)
THEOREM ClientRefinement == Spec => ImplementsHandle
<1>1. Init => Handled!Init
  BY DEF Init, Handled!Init, Phase, Released
<1> QED
  BY <1>1, CInvariance, ClientHandleStep, PTL DEF Spec, ImplementsHandle, Handled!Spec
=============================================================================
