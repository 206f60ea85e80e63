---------------------------- MODULE RunnerSession ----------------------------
(***************************************************************************)
(* One VPN session of the command line and desktop programs: runner.Start, *)
(* the goroutines it leaves behind, Session.Stop and Session.Wait          *)
(* (runner/session.go), with the TUN backends that hang their own          *)
(* goroutines on the session's WaitGroup (device/device.go).               *)
(*                                                                         *)
(* Every goroutine is a program counter; the starter (the caller of Start) *)
(* is another.  A step runs up to the next point where another goroutine   *)
(* can see or change something.  The external pieces, net/http.Server, the *)
(* websocket and the P2P bridge, are modelled as this code uses them.      *)
(***************************************************************************)
EXTENDS Naturals, Sequences

CONSTANTS
  Conns,         \* websocket clients that may reach a server's /ws-vpn
  SocksConns,    \* connections to the local SOCKS listener
  NoConn,        \* no transport on side A of the bridge
  Modes,         \* what the configuration asks for: subset of AllModes
  TunTypes,      \* subset of AllTunTypes
  NativePanics   \* a failing command panics (Linux) or is returned (Windows)

AllModes == {"client", "server"}
AllTunTypes == {"vtun+http", "vtun+socks", "native"}

ASSUME ConfigAssumption ==
  /\ Modes \subseteq AllModes
  /\ TunTypes \subseteq AllTunTypes
  /\ NativePanics \in BOOLEAN
  /\ NoConn \notin Conns

VARIABLES
  mode, tunType,   \* the configuration, fixed at the start
  pc,              \* where Start is
  cancelled,       \* ctx is done: Stop was called or the parent is cancelled
  g,               \* the goroutines in the WaitGroup
  socks,           \* the goroutine of each SOCKS connection, in it too
  dev,             \* the TUN device
  tunLn,           \* the SOCKS listener, or the HTTP listener on the vtun
  conn,            \* the client's websocket
  srvLn,           \* the server's TCP listener
  tunShut, srvShut,\* Close was called on the vtun's / the VPN http.Server
  p2p,             \* the bridge between transport and device
  p2pA,            \* the transport that last became its side A (server)
  hnd,             \* the /ws-vpn handler of each client
  arrivals,        \* history: the clients in the order they connected
  settled,         \* history: whose handlers had returned when c connected
  done             \* Session.done is closed

configVars == <<mode, tunType>>
tunVars == <<socks, tunLn, tunShut>>
linkVars == <<conn, srvLn, srvShut, p2p>>
wsVars == <<p2pA, hnd, arrivals, settled>>
vars == <<mode, tunType, pc, cancelled, g, socks, dev, tunLn, conn, srvLn,
          tunShut, srvShut, p2p, p2pA, hnd, arrivals, settled, done>>

Goroutines == {"tunServe", "tunCloser", "devCloser", "linkCloser", "serve"}
Starting == {"tun", "native", "link", "stop", "close", "wait"}
PcStates == Starting \cup {"failed", "crashed", "up"}

(* "mid" is the second half of a goroutine that has two: Serve with its    *)
(* listener tracked, the SOCKS loop with a connection in hand, the closer  *)
(* between p2p.Stop and Close.                                             *)
GStates == {"none", "run", "mid", "exited"}
Handle == {"none", "open", "closed"}
Active == {"run", "mid"}

TypeOK ==
  /\ mode \in AllModes /\ tunType \in AllTunTypes
  /\ pc \in PcStates
  /\ cancelled \in BOOLEAN
  /\ g \in [Goroutines -> GStates]
  /\ socks \in [SocksConns -> {"none", "run", "exited"}]
  /\ dev \in Handle /\ tunLn \in Handle /\ srvLn \in Handle
  /\ conn \in Handle \cup {"lost"}
  /\ tunShut \in BOOLEAN /\ srvShut \in BOOLEAN
  /\ p2p \in {"none", "on", "stopped"}
  /\ p2pA \in Conns \cup {NoConn}
  /\ hnd \in [Conns -> {"none", "accepting", "accepted", "attached", "refused"}]
  /\ arrivals \in Seq(Conns)
  /\ settled \in [Conns -> SUBSET Conns]
  /\ done \in BOOLEAN

(* The mutant: the accept loop is started with go, not with wg.Go.         *)
WgZero_LoopNotCounted ==
  /\ \A x \in Goroutines \ {"tunServe"} : g[x] \notin Active
  /\ \A s \in SocksConns : socks[s] # "run"

(* The WaitGroup's counter is zero.                                        *)
WgZero ==
  /\ \A x \in Goroutines : g[x] \notin Active
  /\ \A s \in SocksConns : socks[s] # "run"

Init ==
  /\ mode \in Modes /\ tunType \in TunTypes
  /\ pc = "tun"
  /\ cancelled = FALSE
  /\ g = [x \in Goroutines |-> "none"]
  /\ socks = [s \in SocksConns |-> "none"]
  /\ dev = "none" /\ tunLn = "none" /\ conn = "none" /\ srvLn = "none"
  /\ tunShut = FALSE /\ srvShut = FALSE
  /\ p2p = "none" /\ p2pA = NoConn
  /\ hnd = [c \in Conns |-> "none"]
  /\ arrivals = <<>>
  /\ settled = [c \in Conns |-> {}]
  /\ done = FALSE
-----------------------------------------------------------------------------
(* The starter: runner.Start.                                              *)

(* The configuration is invalid, or wants a privileged device without      *)
(* administrator rights: nothing has been made yet.                        *)
RefuseConfig ==
  /\ pc = "tun"
  /\ pc' = "failed"
  /\ UNCHANGED <<configVars, cancelled, g, dev, tunVars, linkVars, wsVars, done>>

(* The goroutines a successful TunFromCfg leaves running, and the one that *)
(* closes the device, which Start adds.                                    *)
SpawnTun ==
  g' = [g EXCEPT !["devCloser"] = "run",
                 !["tunServe"] = IF tunType = "native" THEN @ ELSE "run",
                 !["tunCloser"] = IF tunType = "native" THEN @ ELSE "run"]

VTunReady ==
  /\ pc = "tun" /\ tunType # "native"
  /\ pc' = "link"
  /\ dev' = "open" /\ tunLn' = "open"
  /\ SpawnTun
  /\ UNCHANGED <<configVars, cancelled, socks, tunShut, linkVars, wsVars, done>>

(* The mutant: the SOCKS backend forgets the device, as the HTTP one does. *)
DevAfterListenError_Forgotten == "open"

(* The device is built but its HTTP or SOCKS listener cannot be: the SOCKS *)
(* backend closes the device, the HTTP backend returns without closing it. *)
DevAfterListenError == IF tunType = "vtun+socks" THEN "closed" ELSE "open"

VTunFails ==
  /\ pc = "tun" /\ tunType # "native"
  /\ pc' = "failed"
  /\ cancelled' = TRUE
  /\ dev' \in {"none", DevAfterListenError}
  /\ UNCHANGED <<configVars, g, tunVars, linkVars, wsVars, done>>

NativeFails ==
  /\ pc = "tun" /\ tunType = "native"
  /\ pc' = "failed"
  /\ cancelled' = TRUE
  /\ UNCHANGED <<configVars, g, dev, tunVars, linkVars, wsVars, done>>

(* The interface exists; Start waits for its first event and runs the      *)
(* commands that configure it.                                             *)
NativeCreated ==
  /\ pc = "tun" /\ tunType = "native"
  /\ pc' = "native"
  /\ dev' = "open"
  /\ UNCHANGED <<configVars, cancelled, g, tunVars, linkVars, wsVars, done>>

NativeReady ==
  /\ pc = "native"
  /\ pc' = "link"
  /\ SpawnTun
  /\ UNCHANGED <<configVars, cancelled, dev, tunVars, linkVars, wsVars, done>>

(* A command fails.  logger.Panicln ends the program before the lines that *)
(* close the device; where the error is printed instead, they run.         *)
NativeCommandFails ==
  /\ pc = "native"
  /\ \/ NativePanics /\ pc' = "crashed" /\ UNCHANGED <<cancelled, dev>>
     \/ ~NativePanics /\ pc' = "failed" /\ cancelled' = TRUE /\ dev' = "closed"
  /\ UNCHANGED <<configVars, g, tunVars, linkVars, wsVars, done>>

(* startClient succeeds and Start returns the session.                     *)
DialOk ==
  /\ pc = "link" /\ mode = "client"
  /\ pc' = "up"
  /\ conn' = "open"
  /\ p2p' = "on"
  /\ g' = [g EXCEPT !["linkCloser"] = "run"]
  /\ UNCHANGED <<configVars, cancelled, dev, tunVars, srvLn, srvShut, wsVars, done>>

DialFails ==
  /\ pc = "link" /\ mode = "client"
  /\ pc' = "stop"
  /\ UNCHANGED <<configVars, cancelled, g, dev, tunVars, linkVars, wsVars, done>>

(* startServer succeeds and Start returns the session.                     *)
ListenOk ==
  /\ pc = "link" /\ mode = "server"
  /\ pc' = "up"
  /\ srvLn' = "open"
  /\ p2p' = "on"
  /\ g' = [g EXCEPT !["linkCloser"] = "run", !["serve"] = "run"]
  /\ UNCHANGED <<configVars, cancelled, dev, tunVars, conn, srvShut, wsVars, done>>

ListenFails ==
  /\ pc = "link" /\ mode = "server"
  /\ pc' = "stop"
  /\ p2p' = "stopped"
  /\ UNCHANGED <<configVars, cancelled, g, dev, tunVars, conn, srvLn, srvShut, wsVars, done>>

(* The mutant: the error path forgets session.Stop().                      *)
FailStop_NoCancel ==
  /\ pc = "stop"
  /\ pc' = "close"
  /\ UNCHANGED <<configVars, cancelled, g, dev, tunVars, linkVars, wsVars, done>>

(* The error path of Start: Stop, close the device, wait for the group.    *)
FailStop ==
  /\ pc = "stop"
  /\ pc' = "close"
  /\ cancelled' = TRUE
  /\ UNCHANGED <<configVars, g, dev, tunVars, linkVars, wsVars, done>>

FailClose ==
  /\ pc = "close"
  /\ pc' = "wait"
  /\ dev' = "closed"
  /\ UNCHANGED <<configVars, cancelled, g, tunVars, linkVars, wsVars, done>>

(* The mutant: Start returns the error without waiting for the group.      *)
FailReturn_NoWait ==
  /\ pc = "wait"
  /\ pc' = "failed"
  /\ UNCHANGED <<configVars, cancelled, g, dev, tunVars, linkVars, wsVars, done>>

FailReturn ==
  /\ pc = "wait"
  /\ WgZero
  /\ pc' = "failed"
  /\ UNCHANGED <<configVars, cancelled, g, dev, tunVars, linkVars, wsVars, done>>

Starter ==
  \/ RefuseConfig
  \/ VTunReady \/ VTunFails
  \/ NativeFails \/ NativeCreated \/ NativeReady \/ NativeCommandFails
  \/ DialOk \/ DialFails \/ ListenOk \/ ListenFails
  \/ FailStop \/ FailClose \/ FailReturn
-----------------------------------------------------------------------------
(* The owner: Stop, or cancelling the parent context (also during Start).  *)
Cancel ==
  /\ pc \in Starting \cup {"up"}
  /\ ~cancelled
  /\ cancelled' = TRUE
  /\ UNCHANGED <<configVars, pc, g, dev, tunVars, linkVars, wsVars, done>>

(* The goroutine behind Wait: wg.Wait() and close(done).                   *)
CloseDone ==
  /\ pc = "up" /\ ~done
  /\ WgZero
  /\ done' = TRUE
  /\ UNCHANGED <<configVars, pc, cancelled, g, dev, tunVars, linkVars, wsVars>>
-----------------------------------------------------------------------------
(* The goroutines that wait for ctx.Done().                                *)

CloseDev ==
  /\ g["devCloser"] = "run" /\ cancelled
  /\ dev' = "closed"
  /\ g' = [g EXCEPT !["devCloser"] = "exited"]
  /\ UNCHANGED <<configVars, pc, cancelled, tunVars, linkVars, wsVars, done>>

(* The SOCKS backend closes its listener; the HTTP backend closes its      *)
(* http.Server, which closes the listener only if Serve has tracked it.    *)
CloseTun ==
  /\ g["tunCloser"] = "run" /\ cancelled
  /\ g' = [g EXCEPT !["tunCloser"] = "exited"]
  /\ \/ tunType = "vtun+socks" /\ tunLn' = "closed" /\ UNCHANGED tunShut
     \/ /\ tunType = "vtun+http" /\ tunShut' = TRUE
        /\ tunLn' = IF g["tunServe"] = "mid" THEN "closed" ELSE tunLn
  /\ UNCHANGED <<configVars, pc, cancelled, socks, dev, linkVars, wsVars, done>>

LinkStop ==
  /\ g["linkCloser"] = "run" /\ cancelled
  /\ p2p' = "stopped"
  /\ g' = [g EXCEPT !["linkCloser"] = "mid"]
  /\ UNCHANGED <<configVars, pc, cancelled, dev, tunVars, conn, srvLn, srvShut, wsVars, done>>

LinkClose ==
  /\ g["linkCloser"] = "mid"
  /\ g' = [g EXCEPT !["linkCloser"] = "exited"]
  /\ \/ mode = "client" /\ conn' = "closed" /\ UNCHANGED <<srvLn, srvShut>>
     \/ /\ mode = "server" /\ srvShut' = TRUE
        /\ srvLn' = IF g["serve"] = "mid" THEN "closed" ELSE srvLn
        /\ UNCHANGED conn
  /\ UNCHANGED <<configVars, pc, cancelled, dev, tunVars, p2p, wsVars, done>>
-----------------------------------------------------------------------------
(* http.Server.Serve: it tracks the listener unless the server was closed  *)
(* before; whenever it returns it closes the listener.                     *)

TunHttpServe ==
  /\ g["tunServe"] = "run" /\ tunType = "vtun+http" /\ ~tunShut
  /\ g' = [g EXCEPT !["tunServe"] = "mid"]
  /\ UNCHANGED <<configVars, pc, cancelled, dev, tunVars, linkVars, wsVars, done>>

TunHttpReturn ==
  /\ tunType = "vtun+http"
  /\ \/ g["tunServe"] = "run" /\ tunShut
     \/ g["tunServe"] = "mid" /\ tunLn = "closed"
  /\ tunLn' = "closed"
  /\ g' = [g EXCEPT !["tunServe"] = "exited"]
  /\ UNCHANGED <<configVars, pc, cancelled, socks, dev, tunShut, linkVars, wsVars, done>>

(* Accept on the vtun fails: the device is gone under the listener.        *)
TunHttpFails ==
  /\ tunType = "vtun+http" /\ g["tunServe"] = "mid" /\ tunLn = "open"
  /\ tunLn' = "closed"
  /\ g' = [g EXCEPT !["tunServe"] = "exited"]
  /\ UNCHANGED <<configVars, pc, cancelled, socks, dev, tunShut, linkVars, wsVars, done>>

ServeStart ==
  /\ g["serve"] = "run" /\ ~srvShut
  /\ g' = [g EXCEPT !["serve"] = "mid"]
  /\ UNCHANGED <<configVars, pc, cancelled, dev, tunVars, linkVars, wsVars, done>>

ServeReturn ==
  /\ \/ g["serve"] = "run" /\ srvShut
     \/ g["serve"] = "mid" /\ srvLn = "closed"
  /\ srvLn' = "closed"
  /\ g' = [g EXCEPT !["serve"] = "exited"]
  /\ UNCHANGED <<configVars, pc, cancelled, dev, tunVars, conn, srvShut, p2p, wsVars, done>>

(* Accept fails for good: it is logged, and the session stays up deaf.     *)
ServeFails ==
  /\ g["serve"] = "mid" /\ srvLn = "open"
  /\ srvLn' = "closed"
  /\ g' = [g EXCEPT !["serve"] = "exited"]
  /\ UNCHANGED <<configVars, pc, cancelled, dev, tunVars, conn, srvShut, p2p, wsVars, done>>

(* The peer or the network ends the client's websocket: nobody watches.    *)
ConnLost ==
  /\ conn = "open"
  /\ conn' = "lost"
  /\ UNCHANGED <<configVars, pc, cancelled, g, dev, tunVars, srvLn, srvShut, p2p, wsVars, done>>
-----------------------------------------------------------------------------
(* The SOCKS accept loop ("mid": it holds a connection it has just         *)
(* accepted).  Each connection is one more goroutine in the group, added   *)
(* by a goroutine that is in it.                                           *)

SocksAccept ==
  /\ tunType = "vtun+socks" /\ g["tunServe"] = "run" /\ tunLn = "open"
  /\ \E s \in SocksConns : socks[s] = "none"
  /\ g' = [g EXCEPT !["tunServe"] = "mid"]
  /\ UNCHANGED <<configVars, pc, cancelled, dev, tunVars, linkVars, wsVars, done>>

SocksSpawn(s) ==
  /\ tunType = "vtun+socks" /\ g["tunServe"] = "mid"
  /\ socks[s] = "none"
  /\ g' = [g EXCEPT !["tunServe"] = "run"]
  /\ socks' = [socks EXCEPT ![s] = "run"]
  /\ UNCHANGED <<configVars, pc, cancelled, dev, tunLn, tunShut, linkVars, wsVars, done>>

SocksLoopReturn ==
  /\ tunType = "vtun+socks" /\ g["tunServe"] = "run" /\ tunLn = "closed"
  /\ g' = [g EXCEPT !["tunServe"] = "exited"]
  /\ UNCHANGED <<configVars, pc, cancelled, dev, tunVars, linkVars, wsVars, done>>

(* Any other Accept error ends the loop too and leaves the listener open.  *)
SocksLoopFails ==
  /\ tunType = "vtun+socks" /\ g["tunServe"] = "run" /\ tunLn = "open"
  /\ g' = [g EXCEPT !["tunServe"] = "exited"]
  /\ UNCHANGED <<configVars, pc, cancelled, dev, tunVars, linkVars, wsVars, done>>

SocksConnEnd(s) ==
  /\ socks[s] = "run"
  /\ socks' = [socks EXCEPT ![s] = "exited"]
  /\ UNCHANGED <<configVars, pc, cancelled, g, dev, tunLn, tunShut, linkVars, wsVars, done>>
-----------------------------------------------------------------------------
(* The /ws-vpn handler, a goroutine of http.Server outside the WaitGroup.  *)

Returned(c) == hnd[c] \in {"attached", "refused"}

WsRequest(c) ==
  /\ g["serve"] = "mid" /\ srvLn = "open"
  /\ hnd[c] = "none"
  /\ hnd' = [hnd EXCEPT ![c] = "accepting"]
  /\ arrivals' = Append(arrivals, c)
  /\ settled' = [settled EXCEPT ![c] = {d \in Conns : Returned(d)}]
  /\ UNCHANGED <<configVars, pc, cancelled, g, dev, tunVars, linkVars, p2pA, done>>

(* transport.Accept upgrades and hijacks the connection; server.Close cuts *)
(* the connections that are not hijacked yet.                              *)
WsAcceptOk(c) ==
  /\ hnd[c] = "accepting" /\ ~srvShut
  /\ hnd' = [hnd EXCEPT ![c] = "accepted"]
  /\ UNCHANGED <<configVars, pc, cancelled, g, dev, tunVars, linkVars, p2pA, arrivals, settled, done>>

WsAcceptFails(c) ==
  /\ hnd[c] = "accepting"
  /\ hnd' = [hnd EXCEPT ![c] = "refused"]
  /\ UNCHANGED <<configVars, pc, cancelled, g, dev, tunVars, linkVars, p2pA, arrivals, settled, done>>

(* The mutant: a transport is attached only while there is none.           *)
WsAttach_FirstStays(c) ==
  /\ hnd[c] = "accepted"
  /\ hnd' = [hnd EXCEPT ![c] = "attached"]
  /\ p2pA' = IF p2pA = NoConn THEN c ELSE p2pA
  /\ UNCHANGED <<configVars, pc, cancelled, g, dev, tunVars, linkVars, arrivals, settled, done>>

(* p2p.SetA: the transport replaces whichever one was there.               *)
WsAttach(c) ==
  /\ hnd[c] = "accepted"
  /\ hnd' = [hnd EXCEPT ![c] = "attached"]
  /\ p2pA' = c
  /\ UNCHANGED <<configVars, pc, cancelled, g, dev, tunVars, linkVars, arrivals, settled, done>>
-----------------------------------------------------------------------------
Closers == CloseDev \/ CloseTun \/ LinkStop \/ LinkClose

Servers == TunHttpServe \/ TunHttpReturn \/ ServeStart \/ ServeReturn \/ SocksLoopReturn
           \/ \E s \in SocksConns : SocksSpawn(s)

Handlers == \E c \in Conns : WsAcceptOk(c) \/ WsAcceptFails(c) \/ WsAttach(c)

Environment ==
  \/ Cancel \/ TunHttpFails \/ ServeFails \/ ConnLost \/ SocksAccept \/ SocksLoopFails
  \/ \E s \in SocksConns : SocksConnEnd(s)
  \/ \E c \in Conns : WsRequest(c)

(* A crash comes before the first goroutine is started, so that nothing    *)
(* else moves after it.                                                    *)
Next == Starter \/ CloseDone \/ Closers \/ Servers \/ Handlers \/ Environment

Spec == Init /\ [][Next]_vars

(* Every goroutine that can run does.  Start returns from its calls; but a *)
(* dial may hang until its context is cancelled.  Nobody has to call Stop, *)
(* connect or fail.  A SOCKS connection must end only once ctx is done.    *)
Fairness ==
  /\ WF_vars((mode = "client" /\ pc = "link" => cancelled) /\ Starter)
  /\ WF_vars(CloseDone)
  /\ WF_vars(CloseDev) /\ WF_vars(CloseTun)
  /\ WF_vars(LinkStop) /\ WF_vars(LinkClose)
  /\ WF_vars(TunHttpServe) /\ WF_vars(TunHttpReturn)
  /\ WF_vars(ServeStart) /\ WF_vars(ServeReturn)
  /\ WF_vars(SocksLoopReturn)
  /\ WF_vars(\E s \in SocksConns : SocksSpawn(s))
  /\ \A s \in SocksConns : WF_vars(cancelled /\ SocksConnEnd(s))

FairSpec == Spec /\ Fairness
-----------------------------------------------------------------------------
(* Nothing of the session but the TUN device is open.                      *)
NothingOpen ==
  /\ tunLn # "open" /\ srvLn # "open"
  /\ conn \notin {"open", "lost"}
  /\ p2p # "on"

(* When Wait returns, every goroutine of the WaitGroup has ended, the      *)
(* device, the listeners and the websocket are closed and the bridge is    *)
(* stopped, in whatever order the closers ran (session.go:70-73, 94-99).   *)
DoneMeansReleased ==
  done => WgZero /\ NothingOpen /\ dev = "closed" /\ p2p = "stopped"

(* When Start returns an error nothing is left behind, with one exception  *)
(* the code makes: the vtun+http backend does not close the device when    *)
(* its HTTP listener cannot be opened (device.go:239-242, 260-262).        *)
FailedMeansReleased ==
  pc = "failed" =>
    /\ WgZero /\ NothingOpen
    /\ dev = "open" => tunType = "vtun+http" /\ g["devCloser"] = "none"

(* WaitGroup discipline: once Wait may return, on the error path or in the *)
(* goroutine behind Wait, no goroutine joins the group any more.           *)
NoAddAfterZero ==
  [][(pc \in {"wait", "up"} /\ WgZero) => WgZero']_vars

(* A client that connects after another one's handler has returned is      *)
(* never pushed off the bridge by that older client (session.go:140-149).  *)
OlderClientStaysOff ==
  \A c, d \in Conns :
    p2pA = c /\ c \in settled[d] => hnd[d] # "attached"

(* README.md:29-30: "When a new client connects to a server, the latest    *)
(* client session becomes the active one."  Once no handler is in flight,  *)
(* the bridge serves the client that connected last.                       *)
LatestIsActive ==
  LET latest == arrivals[Len(arrivals)]
  IN  (/\ arrivals # <<>>
       /\ \A c \in Conns : hnd[c] \notin {"accepting", "accepted"}
       /\ hnd[latest] = "attached")
      => p2pA = latest

(* The session holds something Stop must give back.  Not the device before *)
(* TunFromCfg has handed it over, nor the handlers of the websockets.      *)
Held ==
  /\ pc # "crashed"
  /\ \/ ~WgZero
     \/ ~NothingOpen
     \/ dev = "open" /\ (pc = "native" \/ g["devCloser"] # "none")

Phase ==
  IF done THEN "done" ELSE IF pc \in Starting THEN "starting" ELSE pc

Handled == INSTANCE SessionHandle WITH phase <- Phase, held <- Held

(* A runner.Session keeps the promise its owners rely on (SessionHandle):  *)
(* it is released only by a cancellation, whatever fails under it, and     *)
(* Wait returns only when nothing is held.                                 *)
ImplementsHandle == Handled!Spec

(* Stop is answered: Wait returns in every interleaving of the closers,    *)
(* the servers, the SOCKS connections and the websocket handlers.          *)
StopIsAnswered == Handled!StopIsAnswered

(* Start comes back, with a session or an error: a server always, a client *)
(* once it is cancelled, and the error path whatever is still running.     *)
StartReturns ==
  (/\ pc \in Starting
   /\ cancelled \/ mode = "server" \/ pc \in {"stop", "close", "wait"})
  ~> (pc \notin Starting)

(* Whoever calls Start or Wait gets an answer.                             *)
CallsReturn == StartReturns /\ StopIsAnswered
=============================================================================
