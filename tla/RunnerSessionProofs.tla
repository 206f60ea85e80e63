------------------------- MODULE RunnerSessionProofs -------------------------
(***************************************************************************)
(* What RunnerSession guarantees for any sets of websocket clients and of  *)
(* SOCKS connections, any mode and backend: its invariants, the WaitGroup  *)
(* discipline, and that it implements SessionHandle.                       *)
(*                                                                         *)
(* The inductive invariant says, for every place Start can be at, which    *)
(* goroutines exist (Stages), and, for every goroutine, what it has done   *)
(* once it has exited (Exits).  At WgZero the second half, for exactly the *)
(* goroutines the first half lists, gives the released session.            *)
(***************************************************************************)
EXTENDS RunnerSession, TLAPS

NoGoroutine ==
  /\ \A x \in Goroutines : g[x] = "none"
  /\ \A s \in SocksConns : socks[s] = "none"

TunSpawned ==
  /\ g["devCloser"] # "none"
  /\ tunType = "native" => g["tunServe"] = "none" /\ g["tunCloser"] = "none"
  /\ tunType # "native" => g["tunServe"] # "none" /\ g["tunCloser"] # "none"

NoLink ==
  /\ g["linkCloser"] = "none" /\ g["serve"] = "none"
  /\ conn = "none" /\ srvLn = "none"

LinkSpawned ==
  /\ g["linkCloser"] # "none"
  /\ p2p # "none"
  /\ mode = "client" => g["serve"] = "none" /\ srvLn = "none" /\ conn # "none"
  /\ mode = "server" => g["serve"] # "none" /\ srvLn # "none" /\ conn = "none"

Stages ==
  /\ pc \in {"tun", "native", "crashed"} =>
       NoGoroutine /\ NoLink /\ tunLn = "none" /\ p2p = "none"
  /\ pc = "tun" => dev = "none"
  /\ pc = "native" => tunType = "native" /\ dev = "open"
  /\ pc \in {"link", "stop", "close", "wait"} => TunSpawned /\ NoLink /\ p2p # "on"
  /\ pc = "link" => p2p = "none"
  /\ pc \in {"close", "wait"} => cancelled
  /\ pc = "wait" => dev = "closed"
  /\ pc = "up" => TunSpawned /\ LinkSpawned
  /\ done => pc = "up" /\ WgZero

Exits ==
  /\ g["devCloser"] = "exited" => dev = "closed" /\ cancelled
  /\ g["linkCloser"] \in {"mid", "exited"} => p2p = "stopped"
  /\ g["linkCloser"] = "exited" /\ mode = "client" => conn = "closed"
  /\ g["serve"] = "exited" => srvLn = "closed"
  /\ tunType = "vtun+http" /\ g["tunServe"] = "exited" => tunLn = "closed"
  /\ tunType = "vtun+socks" /\ g["tunCloser"] = "exited" => tunLn = "closed"
  /\ g["tunServe"] = "none" => tunLn = "none"

(* With TypeOK, the inductive invariant.                                   *)
Core == Stages /\ Exits /\ FailedMeansReleased
-----------------------------------------------------------------------------
(* The definitions every step of the invariant's proof needs.              *)
USE DEF configVars, tunVars, linkVars, wsVars, Goroutines, Starting, PcStates,
        GStates, Handle, Active, AllModes, AllTunTypes

(* The type invariant holds at the start and is kept by every step.        *)
LEMMA TypeInit == Init => TypeOK
<1> SUFFICES ASSUME Init PROVE TypeOK
  OBVIOUS
<1>1. mode \in AllModes /\ tunType \in AllTunTypes
  BY ConfigAssumption DEF Init
<1>2. arrivals \in Seq(Conns)
  BY DEF Init
<1> QED
  BY <1>1, <1>2 DEF Init, TypeOK

LEMMA TypeStep == TypeOK /\ [Next]_vars => TypeOK'
<1> SUFFICES ASSUME TypeOK, [Next]_vars PROVE TypeOK'
  OBVIOUS
<1>1. CASE Starter
  <2>1. CASE RefuseConfig
    BY <2>1 DEF RefuseConfig, TypeOK
  <2>2. CASE VTunReady
    BY <2>2 DEF VTunReady, SpawnTun, TypeOK
  <2>3. CASE VTunFails
    BY <2>3 DEF VTunFails, DevAfterListenError, TypeOK
  <2>4. CASE NativeFails
    BY <2>4 DEF NativeFails, TypeOK
  <2>5. CASE NativeCreated
    BY <2>5 DEF NativeCreated, TypeOK
  <2>6. CASE NativeReady
    BY <2>6 DEF NativeReady, SpawnTun, TypeOK
  <2>7. CASE NativeCommandFails
    <3>1. cancelled' \in BOOLEAN /\ pc' \in PcStates
      BY <2>7 DEF NativeCommandFails, TypeOK
    <3> QED
      BY <2>7, <3>1 DEF NativeCommandFails, TypeOK
  <2>8. CASE DialOk
    BY <2>8 DEF DialOk, TypeOK
  <2>9. CASE DialFails
    BY <2>9 DEF DialFails, TypeOK
  <2>10. CASE ListenOk
    BY <2>10 DEF ListenOk, TypeOK
  <2>11. CASE ListenFails
    BY <2>11 DEF ListenFails, TypeOK
  <2>12. CASE FailStop
    BY <2>12 DEF FailStop, TypeOK
  <2>13. CASE FailClose
    BY <2>13 DEF FailClose, TypeOK
  <2>14. CASE FailReturn
    BY <2>14 DEF FailReturn, TypeOK
  <2> QED
    BY <1>1, <2>1, <2>2, <2>3, <2>4, <2>5, <2>6, <2>7, <2>8, <2>9, <2>10, <2>11, <2>12, <2>13, <2>14 DEF Starter
<1>2. CASE CloseDone
  BY <1>2 DEF CloseDone, TypeOK
<1>3. CASE Closers
  <2>1. CASE CloseDev
    BY <2>1 DEF CloseDev, TypeOK
  <2>2. CASE CloseTun
    <3>1. tunShut' \in BOOLEAN /\ tunLn' \in Handle
      BY <2>2 DEF CloseTun, TypeOK
    <3> QED
      BY <2>2, <3>1 DEF CloseTun, TypeOK
  <2>3. CASE LinkStop
    BY <2>3 DEF LinkStop, TypeOK
  <2>4. CASE LinkClose
    <3>1. srvShut' \in BOOLEAN /\ srvLn' \in Handle /\ conn' \in Handle \cup {"lost"}
      BY <2>4 DEF LinkClose, TypeOK
    <3> QED
      BY <2>4, <3>1 DEF LinkClose, TypeOK
  <2> QED
    BY <1>3, <2>1, <2>2, <2>3, <2>4 DEF Closers
<1>4. CASE Servers
  BY <1>4 DEF Servers, TunHttpServe, TunHttpReturn, ServeStart, ServeReturn,
     SocksLoopReturn, SocksSpawn, TypeOK
<1>5. CASE Handlers
  BY <1>5 DEF Handlers, WsAcceptOk, WsAcceptFails, WsAttach, TypeOK
<1>6. CASE Environment
  <2>4. CASE Cancel
    BY <2>4 DEF Cancel, TypeOK
  <2>5. CASE TunHttpFails \/ ServeFails \/ ConnLost
    BY <2>5 DEF TunHttpFails, ServeFails, ConnLost, TypeOK
  <2>6. CASE SocksAccept \/ SocksLoopFails
    BY <2>6 DEF SocksAccept, SocksLoopFails, TypeOK
  <2>2. ASSUME NEW s \in SocksConns, SocksConnEnd(s) PROVE TypeOK'
    BY <2>2 DEF SocksConnEnd, TypeOK
  <2>3. ASSUME NEW c \in Conns, WsRequest(c) PROVE TypeOK'
    <3>1. arrivals' \in Seq(Conns)
      BY <2>3 DEF WsRequest, TypeOK
    <3>2. settled' \in [Conns -> SUBSET Conns]
      BY <2>3 DEF WsRequest, TypeOK
    <3> QED
      BY <2>3, <3>1, <3>2 DEF WsRequest, TypeOK
  <2> QED
    BY <1>6, <2>2, <2>3, <2>4, <2>5, <2>6 DEF Environment
<1>7. CASE UNCHANGED vars
  BY <1>7 DEF vars, TypeOK
<1> QED
  BY <1>1, <1>2, <1>3, <1>4, <1>5, <1>6, <1>7 DEF Next

(* Every reachable state is well typed.                                    *)
THEOREM TypeCorrect == Spec => []TypeOK
  BY TypeInit, TypeStep, PTL DEF Spec
-----------------------------------------------------------------------------
LEMMA CoreInit == Init => Core
  BY DEF Init, Core, Stages, Exits, FailedMeansReleased, NoGoroutine, NoLink

LEMMA CoreStep == TypeOK /\ TypeOK' /\ Core /\ [Next]_vars => Core'
<1> SUFFICES ASSUME TypeOK, TypeOK', Core, [Next]_vars PROVE Core'
  OBVIOUS
<1> USE DEF Core, Stages, Exits, FailedMeansReleased, NoGoroutine, TunSpawned,
        NoLink, LinkSpawned, WgZero, NothingOpen
<1>1. CASE Starter
  <2>1. CASE RefuseConfig
    BY <2>1 DEF RefuseConfig, TypeOK
  <2>2. CASE VTunReady
    BY <2>2 DEF VTunReady, SpawnTun, TypeOK
  <2>3. CASE VTunFails
    BY <2>3 DEF VTunFails, DevAfterListenError, TypeOK
  <2>4. CASE NativeFails
    BY <2>4 DEF NativeFails, TypeOK
  <2>5. CASE NativeCreated
    BY <2>5 DEF NativeCreated, TypeOK
  <2>6. CASE NativeReady
    BY <2>6 DEF NativeReady, SpawnTun, TypeOK
  <2>7. CASE NativeCommandFails
    BY <2>7 DEF NativeCommandFails, TypeOK
  <2>8. CASE DialOk
    BY <2>8 DEF DialOk, TypeOK
  <2>9. CASE DialFails
    BY <2>9 DEF DialFails, TypeOK
  <2>10. CASE ListenOk
    BY <2>10 DEF ListenOk, TypeOK
  <2>11. CASE ListenFails
    BY <2>11 DEF ListenFails, TypeOK
  <2>12. CASE FailStop
    BY <2>12 DEF FailStop, TypeOK
  <2>13. CASE FailClose
    BY <2>13 DEF FailClose, TypeOK
  <2>14. CASE FailReturn
    BY <2>14 DEF FailReturn, TypeOK
  <2> QED
    BY <1>1, <2>1, <2>2, <2>3, <2>4, <2>5, <2>6, <2>7, <2>8, <2>9, <2>10, <2>11, <2>12, <2>13, <2>14 DEF Starter
<1>2. CASE CloseDone
  BY <1>2 DEF CloseDone, TypeOK
<1>3. CASE Closers
  <2>1. CASE CloseDev
    BY <2>1 DEF CloseDev, TypeOK
  <2>2. CASE CloseTun
    BY <2>2 DEF CloseTun, TypeOK
  <2>3. CASE LinkStop
    BY <2>3 DEF LinkStop, TypeOK
  <2>4. CASE LinkClose
    BY <2>4 DEF LinkClose, TypeOK
  <2> QED
    BY <1>3, <2>1, <2>2, <2>3, <2>4 DEF Closers
<1>4. CASE Servers
  <2>1. CASE TunHttpServe
    BY <2>1 DEF TunHttpServe, TypeOK
  <2>2. CASE TunHttpReturn
    BY <2>2 DEF TunHttpReturn, TypeOK
  <2>3. CASE ServeStart
    BY <2>3 DEF ServeStart, TypeOK
  <2>4. CASE ServeReturn
    BY <2>4 DEF ServeReturn, TypeOK
  <2>5. CASE SocksLoopReturn
    BY <2>5 DEF SocksLoopReturn, TypeOK
  <2>6. ASSUME NEW s \in SocksConns, SocksSpawn(s) PROVE Core'
    BY <2>6 DEF SocksSpawn, TypeOK
  <2> QED
    BY <1>4, <2>1, <2>2, <2>3, <2>4, <2>5, <2>6 DEF Servers
<1>5. CASE Handlers
  BY <1>5 DEF Handlers, WsAcceptOk, WsAcceptFails, WsAttach
<1>6. CASE Environment
  <2>1. CASE Cancel
    BY <2>1 DEF Cancel, TypeOK
  <2>2. CASE TunHttpFails
    BY <2>2 DEF TunHttpFails, TypeOK
  <2>3. CASE ServeFails
    BY <2>3 DEF ServeFails, TypeOK
  <2>4. CASE ConnLost
    BY <2>4 DEF ConnLost, TypeOK
  <2>5. CASE SocksAccept
    BY <2>5 DEF SocksAccept, TypeOK
  <2>6. CASE SocksLoopFails
    BY <2>6 DEF SocksLoopFails, TypeOK
  <2>7. ASSUME NEW s \in SocksConns, SocksConnEnd(s) PROVE Core'
    BY <2>7 DEF SocksConnEnd, TypeOK
  <2>8. ASSUME NEW c \in Conns, WsRequest(c) PROVE Core'
    BY <2>8 DEF WsRequest, TypeOK
  <2> QED
    BY <1>6, <2>1, <2>2, <2>3, <2>4, <2>5, <2>6, <2>7, <2>8 DEF Environment
<1>7. CASE UNCHANGED vars
  BY <1>7 DEF vars
<1> QED
  BY <1>1, <1>2, <1>3, <1>4, <1>5, <1>6, <1>7 DEF Next

LEMMA InvInit == Init => TypeOK /\ Core
  BY TypeInit, CoreInit

LEMMA InvStep == TypeOK /\ Core /\ [Next]_vars => TypeOK' /\ Core'
  BY TypeStep, CoreStep

LEMMA Invariance == Spec => [](TypeOK /\ Core)
  BY InvInit, InvStep, PTL DEF Spec

LEMMA DoneFromCore == TypeOK /\ Core => DoneMeansReleased
  BY DEF Core, Stages, Exits, TypeOK, TunSpawned, LinkSpawned,
     DoneMeansReleased, NothingOpen, WgZero

(* Wait returns only when every goroutine of the session has ended, the    *)
(* device, the listeners and the websocket are closed and the bridge is    *)
(* stopped (runner/session.go:70-73).                                      *)
THEOREM DoneReleases == Spec => []DoneMeansReleased
  BY Invariance, DoneFromCore, PTL

(* Start returns an error only when nothing is left behind, the device of  *)
(* the vtun+http backend apart (runner/session.go:48-51, 63-68).           *)
THEOREM FailureReleases == Spec => []FailedMeansReleased
<1>1. TypeOK /\ Core => FailedMeansReleased
  BY DEF Core
<1> QED
  BY <1>1, Invariance, PTL

(* No goroutine joins the WaitGroup once its counter may be found zero.    *)
THEOREM WaitGroupDiscipline == Spec => NoAddAfterZero
<1> DEFINE Kept == (pc \in {"wait", "up"} /\ WgZero) => WgZero'
<1>1. TypeOK /\ Core /\ TypeOK' /\ Core' /\ [Next]_vars => [Kept]_vars
  <2> SUFFICES ASSUME TypeOK, Next, pc \in {"wait", "up"}, WgZero PROVE WgZero'
    OBVIOUS
  <2>1. CASE Starter
    BY <2>1 DEF Starter, RefuseConfig, VTunReady, VTunFails, NativeFails,
       NativeCreated, NativeReady, NativeCommandFails, DialOk, DialFails,
       ListenOk, ListenFails, FailStop, FailClose, FailReturn, WgZero
  <2>2. CASE CloseDone \/ Handlers
    BY <2>2 DEF CloseDone, Handlers, WsAcceptOk, WsAcceptFails, WsAttach, WgZero
  <2>3. CASE Closers
    BY <2>3 DEF Closers, CloseDev, CloseTun, LinkStop, LinkClose, WgZero
  <2>4. CASE Servers
    BY <2>4 DEF Servers, TunHttpServe, TunHttpReturn, ServeStart, ServeReturn,
       SocksLoopReturn, SocksSpawn, WgZero
  <2>5. CASE Environment
    BY <2>5 DEF Environment, Cancel, TunHttpFails, ServeFails, ConnLost,
       SocksAccept, SocksLoopFails, SocksConnEnd, WsRequest, WgZero
  <2> QED
    BY <2>1, <2>2, <2>3, <2>4, <2>5 DEF Next
<1> QED
  BY <1>1, Invariance, PTL DEF Spec, NoAddAfterZero
-----------------------------------------------------------------------------
(* Who had returned when a client arrived has returned for good.           *)
SettledReturned == \A c, d \in Conns : c \in settled[d] => Returned(c)

WsInv == TypeOK /\ SettledReturned /\ OlderClientStaysOff

LEMMA WsStep == WsInv /\ [Next]_vars => WsInv'
<1> SUFFICES ASSUME WsInv, [Next]_vars PROVE WsInv'
  OBVIOUS
<1>1. TypeOK'
  BY TypeStep DEF WsInv
<1> USE DEF WsInv, TypeOK, SettledReturned, OlderClientStaysOff, Returned
<1>2. ASSUME NEW x \in Conns, WsRequest(x) PROVE WsInv'
  BY <1>1, <1>2 DEF WsRequest
<1>3. ASSUME NEW x \in Conns, WsAcceptOk(x) PROVE WsInv'
  BY <1>1, <1>3 DEF WsAcceptOk
<1>4. ASSUME NEW x \in Conns, WsAcceptFails(x) PROVE WsInv'
  BY <1>1, <1>4 DEF WsAcceptFails
<1>5. ASSUME NEW x \in Conns, WsAttach(x) PROVE WsInv'
  BY <1>1, <1>5, ConfigAssumption DEF WsAttach
<1>6. CASE UNCHANGED wsVars
  BY <1>1, <1>6
<1>7. CASE Starter
  <2>1. UNCHANGED wsVars
    BY <1>7 DEF Starter, RefuseConfig, VTunReady, VTunFails, NativeFails,
       NativeCreated, NativeReady, NativeCommandFails, DialOk, DialFails,
       ListenOk, ListenFails, FailStop, FailClose, FailReturn
  <2> QED
    BY <2>1, <1>6
<1>8. CASE CloseDone \/ Closers \/ Servers \/ UNCHANGED vars
  <2>1. UNCHANGED wsVars
    BY <1>8 DEF CloseDone, Closers, CloseDev, CloseTun, LinkStop, LinkClose,
       Servers, TunHttpServe, TunHttpReturn, ServeStart, ServeReturn,
       SocksLoopReturn, SocksSpawn, vars
  <2> QED
    BY <2>1, <1>6
<1>9. CASE Handlers
  BY <1>9, <1>3, <1>4, <1>5 DEF Handlers
<1>10. CASE Environment
  <2>1. CASE \E c \in Conns : WsRequest(c)
    BY <2>1, <1>2
  <2>2. CASE ~ \E c \in Conns : WsRequest(c)
    <3>1. UNCHANGED wsVars
      BY <1>10, <2>2 DEF Environment, Cancel, TunHttpFails, ServeFails,
         ConnLost, SocksAccept, SocksLoopFails, SocksConnEnd
    <3> QED
      BY <3>1, <1>6
  <2> QED
    BY <2>1, <2>2
<1> QED
  BY <1>7, <1>8, <1>9, <1>10 DEF Next

(* A client that connects after another one's handler has returned is not  *)
(* pushed off the bridge by it, for any number of clients.                 *)
THEOREM OlderStaysOff == Spec => []OlderClientStaysOff
<1>1. Init => WsInv
  BY TypeInit DEF Init, WsInv, SettledReturned, OlderClientStaysOff
<1>2. WsInv => OlderClientStaysOff
  BY DEF WsInv
<1> QED
  BY <1>1, <1>2, WsStep, PTL DEF Spec
-----------------------------------------------------------------------------
(* RunnerSession implements SessionHandle.                                 *)

(* Past TunFromCfg the goroutine that closes the device exists, and it     *)
(* ends only after a cancellation: what is not cancelled is held.          *)
LEMMA UncancelledIsHeld ==
  TypeOK /\ Core /\ pc \in {"link", "stop", "close", "wait", "up"} /\ ~Held => cancelled
  BY DEF TypeOK, Core, Stages, Exits, TunSpawned, Held, WgZero

LEMMA EndedIsNotHeld == TypeOK /\ Core /\ (pc = "failed" \/ done) => ~Held
<1> SUFFICES ASSUME TypeOK, Core, pc = "failed" \/ done PROVE ~Held
  OBVIOUS
<1>1. CASE pc = "failed"
  BY <1>1 DEF TypeOK, Core, FailedMeansReleased, Held, WgZero
<1>2. CASE done
  BY <1>2, DoneFromCore DEF Core, Stages, DoneMeansReleased, Held
<1> QED
  BY <1>1, <1>2

(* A goroutine's step is invisible, or gives up the last resource held.    *)
LEMMA QuietStep ==
  ASSUME TypeOK, Core, TypeOK', Core', UNCHANGED <<pc, done, cancelled>>,
         pc \in {"link", "stop", "close", "wait", "up"}, Held' => Held
  PROVE  [Handled!Next]_(Handled!vars)
<1>1. Phase' = Phase
  BY DEF Phase
<1>2. CASE Held = Held'
  BY <1>1, <1>2 DEF Handled!vars
<1>3. CASE Held # Held'
  <2>1. Held /\ ~Held'
    BY <1>3 DEF Held
  <2>2. (TypeOK /\ Core /\ pc \in {"link", "stop", "close", "wait", "up"} /\ ~Held
           => cancelled)'
    BY UncancelledIsHeld, PTL
  <2>3. cancelled
    BY <2>1, <2>2
  <2>4. Phase \in {"starting", "up"}
    BY <2>1, EndedIsNotHeld DEF Phase
  <2> QED
    BY <1>1, <2>1, <2>3, <2>4 DEF Handled!Next, Handled!Release
<1> QED
  BY <1>2, <1>3

LEMMA RunningIsHeld ==
  TypeOK /\ Core /\ (~WgZero \/ conn = "open")
    => Held /\ pc \in {"link", "stop", "close", "wait", "up"}
  BY DEF TypeOK, Core, Stages, FailedMeansReleased, NoGoroutine, NoLink, Held,
     WgZero, NothingOpen

LEMMA HandleStep ==
  TypeOK /\ Core /\ TypeOK' /\ Core' /\ [Next]_vars => [Handled!Next]_(Handled!vars)
<1> SUFFICES ASSUME TypeOK, Core, TypeOK', Core', [Next]_vars
             PROVE  [Handled!Next]_(Handled!vars)
  OBVIOUS
<1> DEFINE Ended == (TypeOK /\ Core /\ (pc = "failed" \/ done) => ~Held)
<1>0. Ended /\ Ended'
  BY EndedIsNotHeld, PTL
<1>1. CASE Starter
  <2>0. ~done
    BY <1>1 DEF Core, Stages, Starter, RefuseConfig, VTunReady, VTunFails,
       NativeFails, NativeCreated, NativeReady, NativeCommandFails, DialOk,
       DialFails, ListenOk, ListenFails, FailStop, FailClose, FailReturn
  <2>1. CASE RefuseConfig \/ VTunFails \/ NativeFails \/ FailReturn
    <3>1. pc \in Starting /\ pc' = "failed" /\ done' = done
      BY <2>1 DEF RefuseConfig, VTunFails, NativeFails, FailReturn
    <3>2. cancelled' \in {cancelled, TRUE}
      BY <2>1 DEF RefuseConfig, VTunFails, NativeFails, FailReturn
    <3>3. Held' = FALSE
      BY <1>0, <3>1
    <3>4. Phase = "starting" /\ Phase' = "failed"
      BY <2>0, <3>1 DEF Phase
    <3>5. Handled!StartFail
      BY <3>2, <3>3, <3>4, Zenon DEF Handled!StartFail
    <3> QED
      BY <3>5 DEF Handled!Next
  <2>2. CASE VTunReady \/ NativeReady \/ NativeCreated
    <3>1. pc \in Starting /\ pc' \in Starting /\ UNCHANGED <<done, cancelled>>
      BY <2>2 DEF VTunReady, NativeReady, NativeCreated
    <3>2. Held'
      BY <2>2 DEF VTunReady, NativeReady, NativeCreated, SpawnTun, Held, WgZero,
         TypeOK
    <3> QED
      BY <2>0, <3>1, <3>2 DEF Phase, Handled!Next, Handled!Acquire
  <2>3. CASE NativeCommandFails
    <3>1. CASE pc' = "crashed"
      <4>1. pc = "native" /\ UNCHANGED <<done, cancelled>> /\ ~Held'
        BY <2>3, <3>1 DEF NativeCommandFails, Held
      <4> QED
        BY <2>0, <3>1, <4>1 DEF Phase, Handled!Next, Handled!StartCrash
    <3>2. CASE pc' = "failed"
      <4>1. pc = "native" /\ done' = done /\ cancelled' = TRUE
        BY <2>3, <3>2 DEF NativeCommandFails
      <4>2. ~Held'
        BY <1>0, <3>2
      <4> QED
        BY <2>0, <3>2, <4>1, <4>2 DEF Phase, Handled!Next, Handled!StartFail
    <3> QED
      BY <2>3, <3>1, <3>2 DEF NativeCommandFails
  <2>4. CASE DialOk \/ ListenOk
    <3>1. pc = "link" /\ pc' = "up" /\ UNCHANGED <<done, cancelled>>
      BY <2>4 DEF DialOk, ListenOk
    <3>2. Held'
      BY <2>4 DEF DialOk, ListenOk, Held, WgZero, TypeOK
    <3> QED
      BY <2>0, <3>1, <3>2 DEF Phase, Handled!Next, Handled!StartOk
  <2>5. CASE DialFails \/ ListenFails
    <3>1. pc = "link" /\ pc' = "stop" /\ UNCHANGED <<done, cancelled>>
      BY <2>5 DEF DialFails, ListenFails
    <3>2. Held' = Held
      BY <2>5 DEF DialFails, ListenFails, Held, WgZero, NothingOpen, Core, Stages
    <3> QED
      BY <2>0, <3>1, <3>2 DEF Phase, Handled!vars
  <2>6. CASE FailStop
    <3>1. pc = "stop" /\ pc' = "close" /\ done' = done /\ cancelled' = TRUE
      BY <2>6 DEF FailStop
    <3>2. Held' = Held
      BY <2>6 DEF FailStop, Held, WgZero, NothingOpen
    <3> QED
      BY <2>0, <3>1, <3>2 DEF Phase, Handled!Next, Handled!Cancel
  <2>7. CASE FailClose
    <3>1. pc = "close" /\ pc' = "wait" /\ UNCHANGED <<done, cancelled>> /\ cancelled
      BY <2>7 DEF FailClose, Core, Stages
    <3>2. Held' => Held
      BY <2>7 DEF FailClose, Held, WgZero, NothingOpen
    <3>3. CASE Held' = Held
      BY <2>0, <3>1, <3>3 DEF Phase, Handled!vars
    <3>4. CASE Held' # Held
      <4>1. Held' = FALSE
        BY <3>2, <3>4 DEF Held
      <4> QED
        BY <2>0, <3>1, <4>1 DEF Phase, Handled!Next, Handled!Release
    <3> QED
      BY <3>3, <3>4
  <2> QED
    BY <1>1, <2>1, <2>2, <2>3, <2>4, <2>5, <2>6, <2>7 DEF Starter
<1>2. CASE CloseDone
  <2>1. pc = "up" /\ ~done /\ done' /\ UNCHANGED <<pc, cancelled>>
    BY <1>2 DEF CloseDone
  <2>2. ~Held /\ ~Held'
    BY <1>0, <1>2, <2>1 DEF CloseDone, Held, WgZero, NothingOpen
  <2>3. cancelled
    BY <2>1, <2>2, UncancelledIsHeld
  <2>4. Phase = "up" /\ Phase' = "done" /\ Held' = Held
    BY <2>1, <2>2 DEF Phase, Held
  <2>5. Handled!Finish
    BY <2>1, <2>2, <2>3, <2>4 DEF Handled!Finish
  <2> QED
    BY <2>5 DEF Handled!Next
<1>3. CASE UNCHANGED <<pc, done, cancelled>> /\ (~WgZero \/ conn = "open")
  BY <1>3, RunningIsHeld, QuietStep
<1>4. CASE Closers
  <2>1. UNCHANGED <<pc, done, cancelled>> /\ ~WgZero
    BY <1>4 DEF Closers, CloseDev, CloseTun, LinkStop, LinkClose, WgZero
  <2> QED
    BY <2>1, <1>3
<1>5. CASE Servers
  <2>1. UNCHANGED <<pc, done, cancelled>> /\ ~WgZero
    BY <1>5 DEF Servers, TunHttpServe, TunHttpReturn, ServeStart, ServeReturn,
       SocksLoopReturn, SocksSpawn, WgZero
  <2> QED
    BY <2>1, <1>3
<1>6. CASE UNCHANGED <<pc, g, socks, dev, tunLn, srvLn, conn, p2p, cancelled, done>>
  BY <1>6 DEF Phase, Held, WgZero, NothingOpen, Handled!vars
<1>7. CASE Handlers \/ UNCHANGED vars
  BY <1>6, <1>7 DEF Handlers, WsAcceptOk, WsAcceptFails, WsAttach, vars
<1>8. CASE Environment
  <2>1. CASE Cancel
    <3>1. UNCHANGED <<pc, done>> /\ cancelled' = TRUE /\ ~cancelled
      BY <2>1 DEF Cancel
    <3>2. Phase \in {"starting", "up"}
      BY <2>1, <3>1, <1>0, UncancelledIsHeld DEF Cancel, Phase, Core, Stages
    <3>3. Held' = Held
      BY <2>1 DEF Cancel, Held, WgZero, NothingOpen
    <3> QED
      BY <3>1, <3>2, <3>3 DEF Phase, Handled!Next, Handled!Cancel
  <2>2. CASE TunHttpFails \/ ServeFails \/ ConnLost \/ SocksAccept \/ SocksLoopFails
    <3>1. UNCHANGED <<pc, done, cancelled>> /\ (~WgZero \/ conn = "open")
      BY <2>2 DEF TunHttpFails, ServeFails, ConnLost, SocksAccept,
         SocksLoopFails, WgZero
    <3> QED
      BY <3>1, <1>3
  <2>3. ASSUME NEW s \in SocksConns, SocksConnEnd(s)
        PROVE  UNCHANGED <<pc, done, cancelled>> /\ ~WgZero
    BY <2>3 DEF SocksConnEnd, WgZero
  <2>4. ASSUME NEW c \in Conns, WsRequest(c)
        PROVE  UNCHANGED <<pc, g, socks, dev, tunLn, srvLn, conn, p2p, cancelled, done>>
    BY <2>4 DEF WsRequest
  <2> QED
    BY <1>8, <2>1, <2>2, <2>3, <2>4, <1>3, <1>6 DEF Environment
<1> QED
  BY <1>1, <1>2, <1>4, <1>5, <1>7, <1>8 DEF Next

(* A runner.Session keeps the contract of a session handle: whatever       *)
(* fails, it is given up only by a cancellation, and Wait returns only     *)
(* when nothing is held.                                                   *)
THEOREM Refinement == Spec => ImplementsHandle
<1>1. Init => Handled!Init
  BY DEF Init, Handled!Init, Phase, Held, WgZero, NothingOpen
<1> QED
  BY <1>1, Invariance, HandleStep, PTL DEF Spec, ImplementsHandle, Handled!Spec
=============================================================================
