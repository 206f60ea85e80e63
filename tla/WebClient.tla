------------------------------ MODULE WebClient ------------------------------
(***************************************************************************)
(* The browser client: the page (web/main.js) and the Go app compiled to   *)
(* wasm that it calls (web/wasm/main.go).  A call returns a promise and    *)
(* runs in a goroutine of its own; the page only disables its buttons by   *)
(* isReady and isConnected, so a second call may begin before the first is *)
(* answered.  app stands for the five fields the mutex guards, which are   *)
(* always set and cleared together; a connection stands for all that hangs *)
(* on it (context, WebSocket, vtun, point to point link).  A request uses  *)
(* the client it found, whatever becomes of its connection meanwhile.      *)
(*                                                                         *)
(* The goroutines interleave at every lock and every blocking call; the    *)
(* wasm runtime, which has one thread, does some of that.                  *)
(***************************************************************************)
EXTENDS Naturals, FiniteSets

CONSTANTS
  Calls,       \* promises that may be unanswered at once
  Conns,       \* connections that may be dialled
  None         \* the nil of the fields

ASSUME WebAssumption == None \notin Conns

VARIABLES
  isReady, isConnected,   \* the page's variables
  app,                    \* the connection in the fields of app
  pc,                     \* per call: where its goroutine is
  op,                     \* per call: "connect", "disconnect" or "request"
  my,                     \* per call: the connection in its local variables
  conn,                   \* per connection: what became of it
  using,                  \* per request: the connection of its client
  result,                 \* what the page shows: the answer to which call
  newest,                 \* history: the call of the newest request
  crossed,                \* history: two connects were once unanswered at once
  overlapped,             \* history: any two connects or disconnects were
  asked                   \* history: two requests were

callVars == <<pc, op, my>>
reqVars == <<using, result, newest>>
history == <<crossed, overlapped, asked>>
vars == <<isReady, isConnected, app, callVars, conn, reqVars, history>>

TypeOK ==
  /\ isReady \in BOOLEAN /\ isConnected \in BOOLEAN
  /\ crossed \in BOOLEAN /\ overlapped \in BOOLEAN /\ asked \in BOOLEAN
  /\ app \in Conns \cup {None}
  /\ pc \in [Calls -> {"idle", "check", "take", "close", "dial", "build",
                       "store", "look", "do", "resolve", "reject"}]
  /\ op \in [Calls -> {"connect", "disconnect", "request"}]
  /\ using \in [Calls -> Conns \cup {None}]
  /\ result \in Calls \cup {None} /\ newest \in Calls \cup {None}
  /\ my \in [Calls -> Conns \cup {None}]
  /\ conn \in [Conns -> {"unused", "open", "closed"}]

Init ==
  /\ isReady = FALSE /\ isConnected = FALSE
  /\ crossed = FALSE /\ overlapped = FALSE /\ asked = FALSE
  /\ app = None
  /\ pc = [k \in Calls |-> "idle"]
  /\ op = [k \in Calls |-> "connect"]
  /\ my = [k \in Calls |-> None]
  /\ conn = [c \in Conns |-> "unused"]
  /\ using = my /\ result = None /\ newest = None

Goto(k, step) ==
  /\ pc' = [pc EXCEPT ![k] = step]
  /\ UNCHANGED op

Pending(what) == {k \in Calls : pc[k] # "idle" /\ op[k] = what}

Changing == Pending("connect") \cup Pending("disconnect")
-----------------------------------------------------------------------------
(* loadWasm; when it fails the page stays as it is.                        *)
LoadWasm ==
  /\ ~isReady
  /\ isReady' = TRUE
  /\ UNCHANGED <<isConnected, app, callVars, conn, reqVars, history>>

ClickConnect(k) ==
  /\ isReady /\ ~isConnected
  /\ pc[k] = "idle"
  /\ pc' = [pc EXCEPT ![k] = "check"]
  /\ op' = [op EXCEPT ![k] = "connect"]
  /\ crossed' = (crossed \/ Pending("connect") # {})
  /\ overlapped' = (overlapped \/ Changing # {})
  /\ UNCHANGED <<isReady, isConnected, app, my, conn, reqVars, asked>>

ClickDisconnect(k) ==
  /\ isReady /\ isConnected
  /\ pc[k] = "idle"
  /\ pc' = [pc EXCEPT ![k] = "take"]
  /\ op' = [op EXCEPT ![k] = "disconnect"]
  /\ overlapped' = (overlapped \/ Changing # {})
  /\ UNCHANGED <<isReady, isConnected, app, my, conn, reqVars, crossed, asked>>

(* The button stays enabled while a request runs.                          *)
ClickRequest(k) ==
  /\ isReady /\ isConnected
  /\ pc[k] = "idle"
  /\ pc' = [pc EXCEPT ![k] = "look"]
  /\ op' = [op EXCEPT ![k] = "request"]
  /\ result' = None /\ newest' = k
  /\ asked' = (asked \/ Pending("request") # {})
  /\ UNCHANGED <<isReady, isConnected, app, my, conn, using, crossed, overlapped>>

(* No url, or an address that does not parse: connect leaves early.        *)
CheckFails(k) ==
  /\ pc[k] = "check"
  /\ Goto(k, "reject")
  /\ UNCHANGED <<isReady, isConnected, app, my, conn, reqVars, history>>

(* disconnect's critical section, called by disconnectJS and by connect.   *)
Take(k) ==
  /\ pc[k] \in {"check", "take"}
  /\ my' = [my EXCEPT ![k] = app]
  /\ app' = None
  /\ Goto(k, "close")
  /\ UNCHANGED <<isReady, isConnected, conn, reqVars, history>>

(* The mutant: disconnectJS waits for a connection that is not there.      *)
Close_NilWaits(k) ==
  /\ pc[k] = "close"
  /\ op[k] = "disconnect" => my[k] # None
  /\ conn' = [c \in Conns |-> IF c = my[k] THEN "closed" ELSE conn[c]]
  /\ my' = [my EXCEPT ![k] = None]
  /\ Goto(k, IF op[k] = "connect" THEN "dial" ELSE "resolve")
  /\ UNCHANGED <<isReady, isConnected, app, reqVars, history>>

(* The rest of disconnect: cancel, p2p.Stop, conn.Close, vt.Close.         *)
Close(k) ==
  /\ pc[k] = "close"
  /\ conn' = [c \in Conns |-> IF c = my[k] THEN "closed" ELSE conn[c]]
  /\ my' = [my EXCEPT ![k] = None]
  /\ Goto(k, IF op[k] = "connect" THEN "dial" ELSE "resolve")
  /\ UNCHANGED <<isReady, isConnected, app, reqVars, history>>

DialFails(k) ==
  /\ pc[k] = "dial"
  /\ Goto(k, "reject")
  /\ UNCHANGED <<isReady, isConnected, app, my, conn, reqVars, history>>

DialOk(k) ==
  /\ pc[k] = "dial"
  /\ \E c \in Conns :
       /\ conn[c] = "unused"
       /\ conn' = [conn EXCEPT ![c] = "open"]
       /\ my' = [my EXCEPT ![k] = c]
  /\ Goto(k, "build")
  /\ UNCHANGED <<isReady, isConnected, app, reqVars, history>>

(* The mutant: a vtun that cannot be built leaves the connection open.     *)
BuildFails_KeepsConn(k) ==
  /\ pc[k] = "build"
  /\ my' = [my EXCEPT ![k] = None]
  /\ Goto(k, "reject")
  /\ UNCHANGED <<isReady, isConnected, app, conn, reqVars, history>>

BuildFails(k) ==
  /\ pc[k] = "build"
  /\ conn' = [conn EXCEPT ![my[k]] = "closed"]
  /\ my' = [my EXCEPT ![k] = None]
  /\ Goto(k, "reject")
  /\ UNCHANGED <<isReady, isConnected, app, reqVars, history>>

BuildOk(k) ==
  /\ pc[k] = "build"
  /\ Goto(k, "store")
  /\ UNCHANGED <<isReady, isConnected, app, my, conn, reqVars, history>>

(* The mutant: the fields of a local copy of app are assigned.             *)
Store_InCopy(k) ==
  /\ pc[k] = "store"
  /\ my' = [my EXCEPT ![k] = None]
  /\ Goto(k, "resolve")
  /\ UNCHANGED <<isReady, isConnected, app, conn, reqVars, history>>

Store(k) ==
  /\ pc[k] = "store"
  /\ app' = my[k]
  /\ my' = [my EXCEPT ![k] = None]
  /\ Goto(k, "resolve")
  /\ UNCHANGED <<isReady, isConnected, conn, reqVars, history>>

(* request reads the client under the lock, and lets go of the lock.       *)
Look(k) ==
  /\ pc[k] = "look"
  /\ using' = [using EXCEPT ![k] = app]
  /\ Goto(k, IF app = None THEN "reject" ELSE "do")
  /\ UNCHANGED <<isReady, isConnected, app, my, conn, result, newest, history>>

(* No URL, a bad header line, a failed Do or ReadAll, a connection that is *)
(* closed meanwhile; or a response.                                        *)
Do(k) ==
  /\ pc[k] = "do"
  /\ \/ Goto(k, "reject")
     \/ conn[using[k]] = "open" /\ Goto(k, "resolve")
  /\ using' = [using EXCEPT ![k] = None]
  /\ UNCHANGED <<isReady, isConnected, app, my, conn, result, newest, history>>

(* The mutant: what an error left in the page is not replaced.             *)
Show_OnlySuccess(k) == result' = IF op[k] = "request" /\ pc[k] = "resolve" THEN k ELSE result

(* The result element is cleared by the click and set by the answer.       *)
Show(k) == result' = IF op[k] = "request" THEN k ELSE result

(* The page goes on after its await.  disconnectVPN has a finally block.   *)
Answer(k) ==
  /\ pc[k] \in {"resolve", "reject"}
  /\ \/ op[k] = "connect" /\ isConnected' = (pc[k] = "resolve" \/ isConnected)
     \/ op[k] = "disconnect" /\ isConnected' = FALSE
     \/ op[k] = "request" /\ UNCHANGED isConnected
  /\ Show(k)
  /\ Goto(k, "idle")
  /\ UNCHANGED <<isReady, app, my, conn, using, newest, history>>
-----------------------------------------------------------------------------
Steps(k) ==
  \/ CheckFails(k) \/ Take(k) \/ Close(k)
  \/ DialFails(k) \/ DialOk(k) \/ BuildFails(k) \/ BuildOk(k)
  \/ Store(k) \/ Look(k) \/ Do(k) \/ Answer(k)

Next ==
  \/ LoadWasm
  \/ \E k \in Calls : ClickConnect(k) \/ ClickDisconnect(k) \/ ClickRequest(k) \/ Steps(k)

Spec == Init /\ [][Next]_vars

(* The runtime and the event loop keep going; a dial may never come back,  *)
(* nor a request, which has no deadline.                                   *)
FairSpec == Spec /\ \A k \in Calls : WF_vars(Steps(k) /\ pc[k] \notin {"dial", "do"})
-----------------------------------------------------------------------------
(* Each connection is released by one disconnect, however many calls run   *)
(* disconnect at once.                                                     *)
ReleasedOnce ==
  \A k, m \in Calls : my[k] # None /\ my[k] = my[m] => k = m

(* Every open connection can still be closed: it is in the fields, or in   *)
(* the hands of a call.  Only two connects unanswered at once lose one     *)
(* (the second overwrites the fields of the first, main.go:131-137).       *)
NoConnLost ==
  crossed \/
    \A c \in Conns : conn[c] = "open" => app = c \/ \E k \in Calls : my[k] = c

(* With every connect and disconnect answered, the connection in the       *)
(* fields is open, and the page says "connected" exactly when there is     *)
(* one, unless two of them ran at once: then a late answer to a disconnect *)
(* hides the connection that came after it (main.js:83-84), and Connect is *)
(* what closes it.                                                         *)
PageTellsTruth ==
  Changing = {} =>
    /\ app # None => conn[app] = "open"
    /\ ~overlapped => (isConnected = (app # None))

(* With every request answered, the page shows the newest one's answer,    *)
(* and not one that was asked for before; two requests at once may do so,  *)
(* as the answer that comes last overwrites the other (main.js:115-121).   *)
ResultIsNewest ==
  Pending("request") = {} /\ ~asked => result = newest

(* Every disconnect is answered, also one that finds nothing to close.     *)
DisconnectEnds == \A k \in Calls : (k \in Pending("disconnect")) ~> (pc[k] = "idle")
=============================================================================
