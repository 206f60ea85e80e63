---------------------------- MODULE MobileProofs ----------------------------
(***************************************************************************)
(* What MobileClient guarantees for any number of threads and sessions,    *)
(* and what the screen of MainViewModel makes of it.                       *)
(*                                                                         *)
(* A session belongs to the client, or to one call that is about to store, *)
(* stop or wait for it (Owned); and as long as no two Connects have        *)
(* crossed, a Connect under way finds no session to overwrite (Serial).    *)
(*                                                                         *)
(* The screen calls from one thread at a time until onCleared calls from a *)
(* second one (Threads), so that no Connects cross; a session that is not  *)
(* closed is in the field or in the hands of one of the two (Held,         *)
(* OnePlace), and the status at rest says whether there is one (Reported). *)
(***************************************************************************)
EXTENDS MainViewModel, TLAPS

Owning == {"store", "taken", "wait"}

Owned ==
  /\ \A c, d \in Callers :
       my[c] # None /\ my[c] = my[d] /\ {pc[c], pc[d]} \subseteq Owning => c = d
  /\ \A c \in Callers : pc[c] \in Owning /\ my[c] # None =>
       my[c] # session /\ life[my[c]] # "unused"
  /\ session # None => life[session] # "unused"

Serial ==
  ~overlapped =>
    /\ \A c, d \in Callers : {pc[c], pc[d]} \subseteq Connecting => c = d
    /\ session # None => \A c \in Callers : pc[c] \notin Connecting

(* The inductive invariant.                                                *)
MInv == MobileTypeOK /\ Owned /\ Serial /\ NoSessionLost
-----------------------------------------------------------------------------
USE DEF Statuses, Connecting, Owning, callVars

LEMMA MInvInit == MobileInit => MInv
  BY MobileAssumption DEF MobileInit, MInv, MobileTypeOK, Owned, Serial, NoSessionLost

LEMMA MInvStep == MInv /\ [MobileNext]_mobileVars => MInv'
<1> SUFFICES ASSUME MInv, [MobileNext]_mobileVars PROVE MInv'
  OBVIOUS
<1> USE MobileAssumption DEF MInv, MobileTypeOK, Owned, Serial, NoSessionLost
<1>1. ASSUME NEW x \in Callers, ConnectBegins(x) PROVE MInv'
  <2>1. pc' = [pc EXCEPT ![x] = "dial"] /\ my' = [my EXCEPT ![x] = None]
        /\ UNCHANGED <<session, life, outcome>> /\ status' = "connecting"
        /\ session = None
    BY <1>1 DEF ConnectBegins, Goto
  <2>2. overlapped' \in BOOLEAN
    BY <1>1 DEF ConnectBegins
  <2>3. ~overlapped' => ~overlapped /\ \A d \in Callers : pc[d] \notin Connecting
    BY <1>1, Zenon DEF ConnectBegins
  <2>4. MobileTypeOK'
    BY <2>1, <2>2
  <2>5. Owned'
    BY <2>1
  <2>6. Serial'
    BY <2>1, <2>3
  <2>7. NoSessionLost'
    <3> SUFFICES ASSUME ~overlapped', NEW s \in Sessions, life'[s] = "up"
                 PROVE  \E c \in Callers : my'[c] = s /\ pc'[c] \in {"store", "taken"}
      BY DEF NoSessionLost
    <3>1. life[s] = "up" /\ session # s
      BY <2>1
    <3>2. PICK c \in Callers : my[c] = s /\ pc[c] \in {"store", "taken"}
      BY <2>3, <3>1
    <3>3. c # x
      BY <1>1, <3>2 DEF ConnectBegins
    <3> QED
      BY <2>1, <3>2, <3>3
  <2> QED
    BY <2>4, <2>5, <2>6, <2>7
<1>2. ASSUME NEW x \in Callers, ConnectRefused(x) \/ UseRefused(x) PROVE MInv'
  BY <1>2 DEF ConnectRefused, UseRefused, Return
<1>3. ASSUME NEW x \in Callers, TakeSession(x) PROVE MInv'
  BY <1>3 DEF TakeSession, Goto
<1>4. ASSUME NEW x \in Callers, UseBegins(x) \/ UseAnswered(x) PROVE MInv'
  BY <1>4 DEF UseBegins, UseAnswered, Goto
<1>5. ASSUME NEW x \in Callers, DialOk(x) PROVE MInv'
  BY <1>5 DEF DialOk, Goto
<1>6. ASSUME NEW x \in Callers, DialFails(x) PROVE MInv'
  BY <1>6 DEF DialFails, Return
<1>7. ASSUME NEW x \in Callers, ConnectStores(x) PROVE MInv'
  BY <1>7 DEF ConnectStores, Return
<1>8. ASSUME NEW x \in Callers, DisconnectNothing(x) \/ DisconnectReturns(x) PROVE MInv'
  BY <1>8 DEF DisconnectNothing, DisconnectReturns, Return
<1>9. ASSUME NEW x \in Callers, StopSession(x) PROVE MInv'
  BY <1>9 DEF StopSession, Goto
<1>10. ASSUME NEW x \in Callers, UseReturns(x) \/ UseFails(x) PROVE MInv'
  BY <1>10 DEF UseReturns, UseFails, Return
<1>11. ASSUME NEW s \in Sessions, SessionCloses(s) PROVE MInv'
  BY <1>11 DEF SessionCloses
<1>12. CASE UNCHANGED mobileVars
  BY <1>12 DEF mobileVars
<1> QED
  BY <1>1, <1>2, <1>3, <1>4, <1>5, <1>6, <1>7, <1>8, <1>9, <1>10, <1>11, <1>12
     DEF MobileNext, Calls, Steps

LEMMA MInvariance == MobileSpec => []MInv
  BY MInvInit, MInvStep, PTL DEF MobileSpec

(* Every reachable state is well typed.                                    *)
THEOREM MobileTypeCorrect == MobileSpec => []MobileTypeOK
<1>1. MInv => MobileTypeOK
  BY DEF MInv
<1> QED
  BY <1>1, MInvariance, PTL

(* A session has one stopper, for any number of threads that disconnect    *)
(* (takeSession empties the field under the mutex, client.go:154-165).     *)
THEOREM OneStopper == MobileSpec => []TakenOnce
<1>1. MInv => TakenOnce
  BY DEF MInv, Owned, TakenOnce
<1> QED
  BY <1>1, MInvariance, PTL

(* Nothing but two crossing Connects loses a session that is up: Connect   *)
(* checks the field and assigns it in two critical sections (client.go).   *)
THEOREM NothingLost == MobileSpec => []NoSessionLost
<1>1. MInv => NoSessionLost
  BY DEF MInv
<1> QED
  BY <1>1, MInvariance, PTL
-----------------------------------------------------------------------------
(* The screen.                                                             *)

Holds(c) == pc[c] \in Owning /\ my[c] # None

(* Which thread may be where.                                              *)
Threads ==
  /\ ~overlapped
  /\ pc[Clear] \in {"ready", "taken", "wait"}
  /\ clearing # "disconnecting" => pc[Clear] = "ready"
  /\ pc[Vm] # "ready" => busy /\ asked = "nothing"
  /\ asked # "nothing" => busy
  /\ clearing = "no" => ~racing

(* A session that is not closed is in the field, or in a call's hands; in  *)
(* the field and in a Connect about to store it is up.                     *)
Held == \A s \in Sessions : Up(s) => session = s \/ \E c \in Callers : Holds(c) /\ my[c] = s

Live ==
  /\ \A c \in Callers : pc[c] = "store" => my[c] # None /\ life[my[c]] = "up"
  /\ session # None => life[session] = "up"

(* Until onCleared overtakes a Connect there is one place for a session.   *)
OnePlace ==
  ~racing =>
    /\ session # None => \A c \in Callers : ~Holds(c)
    /\ ~(Holds(Vm) /\ Holds(Clear))
    /\ clearing # "no" => asked # "connect" /\ pc[Vm] \notin Connecting
    /\ clearing \in {"disconnecting", "done"} => session = None

(* What the status says of the session while the screen is there.          *)
Reported ==
  clearing = "no" =>
    /\ ~busy => shown = status
    /\ status = "connected" => session # None
    /\ pc[Vm] \in {"use", "answered"} => session # None
    /\ pc[Vm] \in {"taken", "wait"} => session = None
    /\ pc[Vm] = "ready" /\ session # None /\ status # "connected" =>
         outcome[Vm] \in {"useFailed", "refused"}

(* The inductive invariant of the screen, beside the client's.             *)
SInv == TypeOK /\ Threads /\ Held /\ Live /\ OnePlace /\ Reported
-----------------------------------------------------------------------------
LEMMA SInvInit == Init => SInv
  BY MobileAssumption, ViewModelAssumption
     DEF Init, MobileInit, SInv, TypeOK, MobileTypeOK, Threads, Held, Live, OnePlace, Holds, Reported, Up

(* What the screen does to the client, the client's callers may do.        *)
LEMMA ScreenCalls == [Next]_vars => [MobileNext]_mobileVars
<1> SUFFICES ASSUME [Next]_vars PROVE [MobileNext]_mobileVars
  OBVIOUS
<1>1. Vm \in Callers /\ Clear \in Callers
  BY ViewModelAssumption
<1>2. CASE Begin
  BY <1>1, <1>2 DEF Begin, MobileNext, Calls
<1>3. CASE ClearTakes
  BY <1>1, <1>3 DEF ClearTakes, MobileNext, Calls
<1>4. CASE ClientSteps
  BY <1>4 DEF ClientSteps, MobileNext
<1>5. CASE (\E call \in {"connect", "disconnect", "use"} : Click(call))
           \/ Dropped \/ Refresh \/ OnCleared \/ ClearReturns
  BY <1>5 DEF Click, Dropped, Refresh, OnCleared, ClearReturns
<1>6. CASE UNCHANGED vars
  BY <1>6 DEF vars
<1> QED
  BY <1>2, <1>3, <1>4, <1>5, <1>6 DEF Next

LEMMA SInvStep == MInv /\ MInv' /\ SInv /\ [Next]_vars => SInv'
<1> SUFFICES ASSUME MInv, MInv', SInv, [Next]_vars PROVE SInv'
  OBVIOUS
<1>a. \A c \in Callers : pc[c] \in Connecting => c = Vm /\ session = None
  BY ViewModelAssumption DEF MInv, Serial, SInv, Threads
<1>b. \A c \in Callers : Holds(c) =>
        /\ my[c] # session
        /\ \A d \in Callers : Holds(d) /\ my[c] = my[d] => c = d
  BY DEF MInv, Owned, Holds
<1> USE MobileAssumption, ViewModelAssumption
    DEF MInv, MobileTypeOK, SInv, TypeOK, Threads, Held, Live, OnePlace, Holds, Reported, Up
<1>1. ASSUME NEW call \in {"connect", "disconnect", "use"}, Click(call) PROVE SInv'
  BY <1>1 DEF Click, Enabled, mobileVars
<1>2. CASE Begin
  <2>1. CASE asked = "connect" /\ ConnectRefused(Vm)
    BY <1>2, <2>1 DEF Begin, ConnectRefused, Return
  <2>2. CASE asked = "connect" /\ ConnectBegins(Vm)
    <3>1. ~overlapped'
      BY <2>2, Zenon DEF ConnectBegins
    <3> QED
      BY <1>2, <2>2, <3>1 DEF Begin, ConnectBegins, Goto
  <2>3. CASE asked = "disconnect" /\ TakeSession(Vm)
    BY <1>2, <2>3 DEF Begin, TakeSession, Goto
  <2>4. CASE asked = "use" /\ UseRefused(Vm)
    BY <1>2, <2>4 DEF Begin, UseRefused, Return
  <2>5. CASE asked = "use" /\ UseBegins(Vm)
    BY <1>2, <2>5 DEF Begin, UseBegins, Goto
  <2> QED
    BY <1>2, <2>1, <2>2, <2>3, <2>4, <2>5 DEF Begin
<1>3. CASE Dropped
  BY <1>3 DEF Dropped, mobileVars
<1>31. CASE Refresh
  <2>1. TypeOK'
    BY <1>31 DEF Refresh, mobileVars
  <2>2. Threads'
    BY <1>31 DEF Refresh, mobileVars
  <2>3. Held'
    BY <1>31 DEF Refresh, mobileVars
  <2>4. Live'
    BY <1>31 DEF Refresh, mobileVars
  <2>5. OnePlace'
    BY <1>31 DEF Refresh, mobileVars
  <2>6. Reported'
    BY <1>31 DEF Refresh, mobileVars
  <2> QED
    BY <2>1, <2>2, <2>3, <2>4, <2>5, <2>6
<1>4. CASE OnCleared
  <2>1. TypeOK'
    BY <1>4 DEF OnCleared, mobileVars
  <2>2. Threads'
    BY <1>4 DEF OnCleared, mobileVars
  <2>3. Held'
    BY <1>4 DEF OnCleared, mobileVars
  <2>4. Live'
    BY <1>4 DEF OnCleared, mobileVars
  <2>5. OnePlace'
    BY <1>4 DEF OnCleared, mobileVars
  <2>6. Reported'
    BY <1>4 DEF OnCleared, mobileVars
  <2> QED
    BY <2>1, <2>2, <2>3, <2>4, <2>5, <2>6
<1>41. CASE ClearReturns
  <2>1. TypeOK'
    BY <1>41 DEF ClearReturns, mobileVars
  <2>2. Threads'
    BY <1>41 DEF ClearReturns, mobileVars
  <2>3. Held'
    BY <1>41 DEF ClearReturns, mobileVars
  <2>4. Live'
    BY <1>41 DEF ClearReturns, mobileVars
  <2>5. OnePlace'
    BY <1>41 DEF ClearReturns, mobileVars
  <2>6. Reported'
    BY <1>41 DEF ClearReturns, mobileVars
  <2> QED
    BY <2>1, <2>2, <2>3, <2>4, <2>5, <2>6
<1>5. CASE ClearTakes
  BY <1>5 DEF ClearTakes, TakeSession, Goto
<1>6. ASSUME NEW c \in Callers, DialOk(c), UNCHANGED screenVars PROVE SInv'
  <2>1. TypeOK'
    BY <1>6 DEF DialOk, Goto, screenVars
  <2>2. Threads'
    BY <1>6 DEF DialOk, Goto, screenVars
  <2>3. Held'
    BY <1>6 DEF DialOk, Goto, screenVars
  <2>4. Live'
    BY <1>6 DEF DialOk, Goto, screenVars
  <2>5. OnePlace'
    <3>1. c = Vm /\ session' = None
      BY <1>6, <1>a DEF DialOk
    <3>2. ~racing => ~Holds(Clear) /\ clearing = "no"
      BY <1>6, <3>1 DEF DialOk
    <3>3. ~Holds(Clear) => ~Holds(Clear)'
      BY <1>6, <3>1 DEF DialOk, Goto
    <3> QED
      BY <1>6, <3>1, <3>2, <3>3 DEF screenVars
  <2>6. Reported'
    BY <1>6 DEF DialOk, Goto, screenVars
  <2> QED
    BY <2>1, <2>2, <2>3, <2>4, <2>5, <2>6
<1>61. ASSUME NEW c \in Callers, DialFails(c), UNCHANGED screenVars PROVE SInv'
  <2>1. TypeOK'
    BY <1>61 DEF DialFails, Return, screenVars
  <2>2. Threads'
    BY <1>61 DEF DialFails, Return, screenVars
  <2>3. Held'
    BY <1>61 DEF DialFails, Return, screenVars
  <2>4. Live'
    BY <1>61 DEF DialFails, Return, screenVars
  <2>5. OnePlace'
    BY <1>61 DEF DialFails, Return, screenVars
  <2>6. Reported'
    <3>1. c = Vm /\ session' = None
      BY <1>61, <1>a DEF DialFails
    <3> QED
      BY <1>61, <3>1 DEF DialFails, Return, screenVars
  <2> QED
    BY <2>1, <2>2, <2>3, <2>4, <2>5, <2>6
<1>7. ASSUME NEW c \in Callers, ConnectStores(c), UNCHANGED screenVars PROVE SInv'
  <2>1. TypeOK'
    BY <1>7 DEF ConnectStores, Return, screenVars
  <2>2. Threads'
    BY <1>7 DEF ConnectStores, Return, screenVars
  <2>3. Held'
    <3>1. session = None
      BY <1>7, <1>a DEF ConnectStores
    <3>2. \A d \in Callers : d # c => pc'[d] = pc[d] /\ my'[d] = my[d]
      BY <1>7 DEF ConnectStores, Return
    <3> QED
      BY <1>7, <3>1, <3>2 DEF ConnectStores
  <2>4. Live'
    BY <1>7 DEF ConnectStores, Return, screenVars
  <2>5. OnePlace'
    BY <1>7 DEF ConnectStores, Return, screenVars
  <2>6. Reported'
    BY <1>7 DEF ConnectStores, Return, screenVars
  <2> QED
    BY <2>1, <2>2, <2>3, <2>4, <2>5, <2>6
<1>8. ASSUME NEW c \in Callers, DisconnectNothing(c), UNCHANGED screenVars PROVE SInv'
  <2>1. TypeOK'
    BY <1>8 DEF DisconnectNothing, Return, screenVars
  <2>2. Threads'
    BY <1>8 DEF DisconnectNothing, Return, screenVars
  <2>3. Held'
    BY <1>8 DEF DisconnectNothing, Return, screenVars
  <2>4. Live'
    BY <1>8 DEF DisconnectNothing, Return, screenVars
  <2>5. OnePlace'
    BY <1>8 DEF DisconnectNothing, Return, screenVars
  <2>6. Reported'
    BY <1>8 DEF DisconnectNothing, Return, screenVars
  <2> QED
    BY <2>1, <2>2, <2>3, <2>4, <2>5, <2>6
<1>81. ASSUME NEW c \in Callers, DisconnectReturns(c), UNCHANGED screenVars PROVE SInv'
  <2>1. TypeOK'
    BY <1>81 DEF DisconnectReturns, Return, screenVars
  <2>2. Threads'
    BY <1>81 DEF DisconnectReturns, Return, screenVars
  <2>3. Held'
    BY <1>81 DEF DisconnectReturns, Return, screenVars
  <2>4. Live'
    BY <1>81 DEF DisconnectReturns, Return, screenVars
  <2>5. OnePlace'
    BY <1>81 DEF DisconnectReturns, Return, screenVars
  <2>6. Reported'
    BY <1>81 DEF DisconnectReturns, Return, screenVars
  <2> QED
    BY <2>1, <2>2, <2>3, <2>4, <2>5, <2>6
<1>9. ASSUME NEW c \in Callers, StopSession(c), UNCHANGED screenVars PROVE SInv'
  <2>1. TypeOK'
    BY <1>9 DEF StopSession, Goto, screenVars
  <2>2. Threads'
    BY <1>9 DEF StopSession, Goto, screenVars
  <2>3. Held'
    BY <1>9 DEF StopSession, Goto, screenVars
  <2>4. Live'
    <3>1. my[c] # session /\ \A s \in Sessions : s # my[c] => life'[s] = life[s]
      BY <1>9, <1>b DEF StopSession
    <3>2. \A d \in Callers : pc'[d] = "store" => d # c /\ pc[d] = "store" /\ my'[d] = my[d]
      BY <1>9 DEF StopSession, Goto
    <3>3. \A d \in Callers : pc[d] = "store" => Holds(d) /\ my[d] \in Sessions /\ my[d] # my[c]
      BY <1>9, <1>b DEF StopSession
    <3> QED
      BY <1>9, <3>1, <3>2, <3>3 DEF StopSession
  <2>5. OnePlace'
    BY <1>9 DEF StopSession, Goto, screenVars
  <2>6. Reported'
    BY <1>9 DEF StopSession, Goto, screenVars
  <2> QED
    BY <2>1, <2>2, <2>3, <2>4, <2>5, <2>6
<1>10. ASSUME NEW c \in Callers, UseAnswered(c), UNCHANGED screenVars PROVE SInv'
  BY <1>10 DEF UseAnswered, Goto, screenVars
<1>11. ASSUME NEW c \in Callers, UseReturns(c) \/ UseFails(c), UNCHANGED screenVars PROVE SInv'
  BY <1>11 DEF UseReturns, UseFails, Return, screenVars
<1>12. ASSUME NEW s \in Sessions, SessionCloses(s), UNCHANGED screenVars PROVE SInv'
  BY <1>12 DEF SessionCloses, screenVars
<1>13. CASE UNCHANGED vars
  BY <1>13 DEF vars, mobileVars, screenVars
<1> QED
  BY <1>1, <1>2, <1>3, <1>31, <1>4, <1>41, <1>5, <1>6, <1>61, <1>7, <1>8, <1>81, <1>9, <1>10,
     <1>11, <1>12, <1>13
     DEF Next, ClientSteps, Steps

LEMMA SInvariance == Spec => [](MInv /\ SInv)
<1>1. Init => MInv /\ SInv
  BY MInvInit, SInvInit DEF Init
<1>2. MInv /\ SInv /\ [Next]_vars => (MInv /\ SInv)'
  BY ScreenCalls, MInvStep, SInvStep
<1> QED
  BY <1>1, <1>2, PTL DEF Spec

(* The screen is one of the programs MobileSpec is about: whatever it does *)
(* to the client, two threads that call its methods may do.                *)
THEOREM ScreenIsAClient == Spec => MobileSpec
<1>1. Init => MobileInit
  BY DEF Init
<1> QED
  BY <1>1, ScreenCalls, PTL DEF Spec, MobileSpec

(* Every reachable state of screen and client is well typed.               *)
THEOREM ScreenTypeCorrect == Spec => []TypeOK
<1>1. SInv => TypeOK
  BY DEF SInv
<1> QED
  BY <1>1, SInvariance, PTL

(* Behind the screen no two Connects cross, and no session is lost, even   *)
(* with the disconnect of onCleared in between (MainViewModel.kt:125).     *)
THEOREM ScreenLosesNothing == Spec => []NoSessionLost /\ []~overlapped
<1>1. MInv /\ SInv => NoSessionLost /\ ~overlapped
  BY DEF MInv, SInv, Threads
<1> QED
  BY <1>1, SInvariance, PTL

(* There are never two tunnels, unless onCleared overtook a Connect:       *)
(* Disconnect waits for the end before Connect is offered again.           *)
THEOREM OneTunnelShown == Spec => []OneSession
<1>1. MInv /\ SInv => OneSession
  <2> SUFFICES ASSUME MInv, SInv, ~racing, NEW s \in Sessions, NEW t \in Sessions, Up(s), Up(t)
               PROVE  s = t
    BY DEF OneSession
  <2>1. Clear \in Callers /\ Vm \in Callers /\ \A c \in Callers : c = Vm \/ c = Clear
    BY ViewModelAssumption
  <2>2. \A c, d \in Callers : Holds(c) /\ Holds(d) => c = d
    BY <2>1 DEF SInv, OnePlace
  <2>3. session = s \/ \E c \in Callers : Holds(c) /\ my[c] = s
    BY DEF SInv, Held
  <2>4. session = t \/ \E c \in Callers : Holds(c) /\ my[c] = t
    BY DEF SInv, Held
  <2>5. (\E c \in Callers : Holds(c)) => session = None
    BY DEF SInv, OnePlace
  <2> QED
    BY <2>2, <2>3, <2>4, <2>5, MobileAssumption
<1> QED
  BY <1>1, SInvariance, PTL

(* At rest the buttons fit the session: "connected" has one that is up,    *)
(* and without it none is left but behind a failed request (client.go:109) *)
THEOREM ScreenIsTrue == Spec => []ScreenTellsTruth
<1>1. MInv /\ SInv => ScreenTellsTruth
  BY DEF SInv, Threads, Live, Reported, ScreenTellsTruth, ShownConnectedIsTrue, LiveIsStoppable
<1> QED
  BY <1>1, SInvariance, PTL

(* A cleared screen has released everything when its calls are back,       *)
(* unless onCleared overtook a Connect (MainViewModel.kt:125).             *)
THEOREM ClearingReleases == Spec => []ClearedReleases
<1>1. MInv /\ SInv => ClearedReleases
  BY ViewModelAssumption, MobileAssumption
     DEF SInv, Threads, Held, OnePlace, Holds, ClearedReleases
<1> QED
  BY <1>1, SInvariance, PTL
=============================================================================
