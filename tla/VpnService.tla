----------------------------- MODULE VpnService -----------------------------
(***************************************************************************)
(* The native VPN of the Android app: the buttons of MainActivity.kt, the  *)
(* state AndroidVpnRuntime.kt shows, GonnectVpnService.kt and the Go       *)
(* object AndroidVPNClient it drives (mobilelib/android_client.go).        *)
(*                                                                         *)
(* A click sends an intent to the main thread's looper; the handler marks  *)
(* the state busy and launches a coroutine on an IO thread.  Nothing       *)
(* orders the coroutines among each other, nor with the status poller and  *)
(* onDestroy, which run on the main thread (caller Main).                  *)
(*                                                                         *)
(* An identity of Jobs names a click's coroutine, the client and tunnel a  *)
(* start makes, and the service instance that the click caused.            *)
(*                                                                         *)
(* Of Android the model takes: intents and the destruction of an instance  *)
(* reach the looper in order; an instance is destroyed once stopSelf was   *)
(* called after the last click, and no interface holds it; a new interface *)
(* replaces the old one; the user may revoke the interface at any time.    *)
(***************************************************************************)
EXTENDS Naturals, FiniteSets, Sequences

CONSTANTS Jobs, Main, Nobody

ASSUME VpnAssumption == Main \notin Jobs /\ Nobody \notin Jobs

VARIABLES
  looper,   \* messages to the main thread
  rec,      \* the instance Android delivers to
  wanted,   \* it was started, and not stopped since
  iface,    \* whose descriptor Android holds as the VPN interface
  gone,     \* instances whose scope is cancelled
  client,   \* per instance: GonnectVpnService.client
  polling,  \* per instance: statusPollerRunning
  kind,     \* per job: which button
  svc,      \* per caller: the instance it runs in
  pc,       \* per caller: where it is
  my,       \* per caller: its local variable current
  seen,     \* per caller: the status it has read
  tunnel,   \* per job: what its start holds
  session,  \* per client: AndroidVPNClient.session is set
  status,   \* per client: AndroidVPNClient.status
  shown,    \* AndroidVpnRuntime.state
  crossed   \* history: a job began, or its instance ended, during another

android == <<looper, rec, wanted, iface, gone>>
local == <<kind, svc, pc, my, seen>>
service == <<client, polling>>
clients == <<tunnel, session, status>>
vpnVars == <<android, local, service, clients, shown, crossed>>

Callers == Jobs \cup {Main}
JobOrNone == Jobs \cup {Nobody}
ClientStatuses == {"idle", "connecting", "connected", "disconnecting", "failed"}

Places == {"unused", "sent", "begin", "clear", "take", "nothing", "wait",
           "build", "connect", "dial", "assign", "pubRead", "pubIdle", "pubStatus",
           "pubShow", "poller", "catch", "catchAsk", "error", "showIdle", "stopSelf", "cancel",
           "done"}

VpnTypeOK ==
  /\ looper \in Seq([what : {"intent", "destroy"}, id : Jobs, to : Jobs])
  /\ rec \in JobOrNone /\ iface \in JobOrNone
  /\ wanted \in BOOLEAN /\ crossed \in BOOLEAN
  /\ gone \subseteq Jobs
  /\ client \in [Jobs -> JobOrNone] /\ polling \in [Jobs -> BOOLEAN]
  /\ kind \in [Jobs -> {"start", "stop"}]
  /\ svc \in [Callers -> JobOrNone] /\ my \in [Callers -> JobOrNone]
  /\ pc \in [Callers -> Places]
  /\ seen \in [Callers -> ClientStatuses]
  /\ tunnel \in [Jobs -> {"none", "fd", "dialing", "up", "stopped", "closed", "lost"}]
  /\ session \in [Jobs -> BOOLEAN] /\ status \in [Jobs -> ClientStatuses]
  /\ shown \in [status : ClientStatuses \cup {"starting", "stopping"},
                busy : BOOLEAN, error : BOOLEAN]

VpnInit ==
  /\ looper = <<>> /\ rec = Nobody /\ wanted = FALSE /\ iface = Nobody /\ gone = {}
  /\ client = [i \in Jobs |-> Nobody] /\ polling = [i \in Jobs |-> FALSE]
  /\ kind = [j \in Jobs |-> "start"]
  /\ svc = [c \in Callers |-> Nobody] /\ my = [c \in Callers |-> Nobody]
  /\ pc = [c \in Callers |-> IF c = Main THEN "done" ELSE "unused"]
  /\ seen = [c \in Callers |-> "idle"]
  /\ tunnel = [j \in Jobs |-> "none"]
  /\ session = [j \in Jobs |-> FALSE] /\ status = [j \in Jobs |-> "idle"]
  /\ shown = [status |-> "idle", busy |-> FALSE, error |-> FALSE]
  /\ crossed = FALSE

Active(j) == pc[j] \notin {"unused", "sent", "done"}

At(c, place) == pc[c] = place
Goto(c, place) == pc' = [pc EXCEPT ![c] = place] /\ UNCHANGED <<kind, svc, my, seen>>

(* The caller leaves a function, or ends, and its local variables with it. *)
Leave(c, place) ==
  /\ pc' = [pc EXCEPT ![c] = place]
  /\ my' = [my EXCEPT ![c] = Nobody]
  /\ seen' = [seen EXCEPT ![c] = "idle"]
  /\ svc' = IF place = "done" THEN [svc EXCEPT ![c] = Nobody] ELSE svc
  /\ UNCHANGED kind

SetIdle == shown' = [status |-> "idle", busy |-> FALSE, error |-> FALSE]
-----------------------------------------------------------------------------
(* The screen, and Android.                                                *)

(* Each button is enabled when nothing is busy; the intent goes to the     *)
(* instance there is, or to a new one.                                     *)
Click(j, button) ==
  /\ At(j, "unused")
  /\ ~shown.busy
  /\ (button = "start") = (shown.status # "connected")
  /\ \E to \in Jobs :
       /\ to = IF rec = Nobody THEN j ELSE rec
       /\ rec' = to
       /\ looper' = Append(looper, [what |-> "intent", id |-> j, to |-> to])
       /\ svc' = [svc EXCEPT ![j] = to]
  /\ wanted' = TRUE
  /\ kind' = [kind EXCEPT ![j] = button]
  /\ pc' = [pc EXCEPT ![j] = "sent"]
  /\ UNCHANGED <<iface, gone, my, seen, service, clients, shown, crossed>>

Destroys ==
  /\ rec # Nobody /\ ~wanted /\ iface = Nobody
  /\ looper' = Append(looper, [what |-> "destroy", id |-> rec, to |-> rec])
  /\ rec' = Nobody
  /\ UNCHANGED <<wanted, iface, gone, local, service, clients, shown, crossed>>

(* VpnService.onRevoke, which the service does not override: stopSelf.     *)
Revoke ==
  /\ iface # Nobody
  /\ iface' = Nobody
  /\ wanted' = FALSE
  /\ UNCHANGED <<looper, rec, gone, local, service, clients, shown, crossed>>
-----------------------------------------------------------------------------
(* The main thread.                                                        *)

OnStartCommand ==
  /\ At(Main, "done") /\ looper # <<>>
  /\ Head(looper).what = "intent"
  /\ looper' = Tail(looper)
  /\ LET j == Head(looper).id
     IN /\ Goto(j, "begin")
        /\ shown' = [status |-> IF kind[j] = "start" THEN "starting" ELSE "stopping",
                     busy |-> TRUE, error |-> FALSE]
        /\ crossed' = (crossed \/ \E k \in Jobs : Active(k))
  /\ UNCHANGED <<rec, wanted, iface, gone, service, clients>>

(* The mutant: the scope is cancelled, and the client left alone.          *)
OnDestroy_OnlyCancels ==
  /\ At(Main, "done") /\ looper # <<>>
  /\ Head(looper).what = "destroy"
  /\ looper' = Tail(looper)
  /\ svc' = [svc EXCEPT ![Main] = Head(looper).to]
  /\ pc' = [pc EXCEPT ![Main] = "cancel"]
  /\ crossed' = (crossed \/ \E k \in Jobs : Active(k))
  /\ UNCHANGED <<rec, wanted, iface, gone, kind, my, seen, service, clients, shown>>

OnDestroy ==
  /\ At(Main, "done") /\ looper # <<>>
  /\ Head(looper).what = "destroy"
  /\ looper' = Tail(looper)
  /\ svc' = [svc EXCEPT ![Main] = Head(looper).to]
  /\ pc' = [pc EXCEPT ![Main] = "begin"]
  /\ crossed' = (crossed \/ \E k \in Jobs : Active(k))
  /\ UNCHANGED <<rec, wanted, iface, gone, kind, my, seen, service, clients, shown>>

CancelScope ==
  /\ At(Main, "cancel")
  /\ gone' = gone \cup {svc[Main]}
  /\ Leave(Main, "done")
  /\ UNCHANGED <<looper, rec, wanted, iface, service, clients, shown, crossed>>

PollTick(i) ==
  /\ At(Main, "done")
  /\ polling[i] /\ i \notin gone
  /\ svc' = [svc EXCEPT ![Main] = i]
  /\ pc' = [pc EXCEPT ![Main] = "pubRead"]
  /\ UNCHANGED <<android, kind, my, seen, service, clients, shown, crossed>>
-----------------------------------------------------------------------------
(* stopClient: the field is read, then written, then disconnect is called. *)

AfterStop(c) ==
  IF c = Main THEN "cancel" ELSE IF kind[c] = "start" THEN "build" ELSE "showIdle"

ReadClient(c) ==
  /\ At(c, "begin")
  /\ my' = [my EXCEPT ![c] = client[svc[c]]]
  /\ pc' = [pc EXCEPT ![c] = "clear"]
  /\ UNCHANGED <<android, kind, svc, seen, service, clients, shown, crossed>>

ClearClient(c) ==
  /\ At(c, "clear")
  /\ client' = [client EXCEPT ![svc[c]] = Nobody]
  /\ Goto(c, IF my[c] = Nobody THEN AfterStop(c) ELSE "take")
  /\ UNCHANGED <<android, polling, clients, shown, crossed>>

(* takeSession, and Stop, which only cancels a context.                    *)
TakeSession(c) ==
  /\ At(c, "take")
  /\ session' = [session EXCEPT ![my[c]] = FALSE]
  /\ status' = [status EXCEPT ![my[c]] = "disconnecting"]
  /\ \/ session[my[c]] /\ tunnel' = [tunnel EXCEPT ![my[c]] = "stopped"] /\ Goto(c, "wait")
     \/ ~session[my[c]] /\ Goto(c, "nothing") /\ UNCHANGED tunnel
  /\ UNCHANGED <<android, service, shown, crossed>>

Disconnected(c) ==
  /\ At(c, "nothing") \/ (At(c, "wait") /\ tunnel[my[c]] = "closed")
  /\ status' = [status EXCEPT ![my[c]] = "idle"]
  /\ Leave(c, AfterStop(c))
  /\ UNCHANGED <<android, service, tunnel, session, shown, crossed>>

SessionCloses(x) ==
  /\ tunnel[x] = "stopped"
  /\ tunnel' = [tunnel EXCEPT ![x] = "closed"]
  /\ iface' = IF iface = x THEN Nobody ELSE iface
  /\ UNCHANGED <<looper, rec, wanted, gone, local, service, session, status, shown, crossed>>
-----------------------------------------------------------------------------
(* A start, behind its stopClient.                                         *)

(* The addresses do not parse, or establish fails.                         *)
BuildFails(j) ==
  /\ At(j, "build")
  /\ Goto(j, "catch")
  /\ UNCHANGED <<android, service, clients, shown, crossed>>

Establish(j) ==
  /\ At(j, "build")
  /\ tunnel' = [tunnel EXCEPT ![j] = "fd"]
  /\ iface' = j
  /\ Goto(j, "connect")
  /\ UNCHANGED <<looper, rec, wanted, gone, service, session, status, shown, crossed>>

(* The constructor refuses before it has made a device of the descriptor,  *)
(* which nobody closes then.                                               *)
ConnectRefused(j) ==
  /\ At(j, "connect")
  /\ tunnel' = [tunnel EXCEPT ![j] = "lost"]
  /\ status' = [status EXCEPT ![j] = "failed"]
  /\ Goto(j, "catch")
  /\ UNCHANGED <<android, service, session, shown, crossed>>

ConnectDials(j) ==
  /\ At(j, "connect")
  /\ tunnel' = [tunnel EXCEPT ![j] = "dialing"]
  /\ status' = [status EXCEPT ![j] = "connecting"]
  /\ Goto(j, "dial")
  /\ UNCHANGED <<android, service, session, shown, crossed>>

DialFails(j) ==
  /\ At(j, "dial")
  /\ tunnel' = [tunnel EXCEPT ![j] = "closed"]
  /\ iface' = IF iface = j THEN Nobody ELSE iface
  /\ status' = [status EXCEPT ![j] = "failed"]
  /\ Goto(j, "catch")
  /\ UNCHANGED <<looper, rec, wanted, gone, service, session, shown, crossed>>

Connected(j) ==
  /\ At(j, "dial")
  /\ tunnel' = [tunnel EXCEPT ![j] = "up"]
  /\ session' = [session EXCEPT ![j] = TRUE]
  /\ status' = [status EXCEPT ![j] = "connected"]
  /\ Goto(j, "assign")
  /\ UNCHANGED <<android, service, shown, crossed>>

(* The mutant: the new client is kept in a local variable only.            *)
AssignClient_Local(j) ==
  /\ At(j, "assign")
  /\ Goto(j, "pubRead")
  /\ UNCHANGED <<android, service, clients, shown, crossed>>

AssignClient(j) ==
  /\ At(j, "assign")
  /\ client' = [client EXCEPT ![svc[j]] = j]
  /\ Goto(j, "pubRead")
  /\ UNCHANGED <<android, polling, clients, shown, crossed>>

StartPoller(j) ==
  /\ At(j, "poller")
  /\ polling' = [polling EXCEPT ![svc[j]] = TRUE]
  /\ Leave(j, "done")
  /\ UNCHANGED <<android, client, clients, shown, crossed>>

(* The mutant: there is no text for a start that failed without a client.  *)
Catch_NoText(j) ==
  /\ At(j, "catch")
  /\ my' = [my EXCEPT ![j] = client[svc[j]]]
  /\ seen' = [seen EXCEPT ![j] = IF client[svc[j]] = Nobody THEN Nobody ELSE @]
  /\ pc' = [pc EXCEPT ![j] = IF client[svc[j]] = Nobody THEN "error" ELSE "catchAsk"]
  /\ UNCHANGED <<android, kind, svc, service, clients, shown, crossed>>

(* The field is read, and the client asked for its status, if there is one.*)
Catch(j) ==
  /\ At(j, "catch")
  /\ my' = [my EXCEPT ![j] = client[svc[j]]]
  /\ seen' = [seen EXCEPT ![j] = IF client[svc[j]] = Nobody THEN "failed" ELSE @]
  /\ pc' = [pc EXCEPT ![j] = IF client[svc[j]] = Nobody THEN "error" ELSE "catchAsk"]
  /\ UNCHANGED <<android, kind, svc, service, clients, shown, crossed>>

CatchAsks(j) ==
  /\ At(j, "catchAsk")
  /\ seen' = [seen EXCEPT ![j] = status[my[j]]]
  /\ pc' = [pc EXCEPT ![j] = "error"]
  /\ UNCHANGED <<android, kind, svc, my, service, clients, shown, crossed>>

(* The mutant: the state is published in a finally block.                  *)
SetError_Publishes(j) ==
  /\ At(j, "error")
  /\ shown' = [status |-> seen[j], busy |-> FALSE, error |-> TRUE]
  /\ Goto(j, "pubRead")
  /\ UNCHANGED <<android, service, clients, crossed>>

SetError(j) ==
  /\ At(j, "error")
  /\ shown' = [status |-> seen[j], busy |-> FALSE, error |-> TRUE]
  /\ Leave(j, "done")
  /\ UNCHANGED <<android, service, clients, crossed>>
-----------------------------------------------------------------------------
(* The end of a stop.                                                      *)

ShowIdle(j) ==
  /\ At(j, "showIdle")
  /\ SetIdle
  /\ Goto(j, "stopSelf")
  /\ UNCHANGED <<android, service, clients, crossed>>

StopSelf(j) ==
  /\ At(j, "stopSelf")
  /\ wanted' = (wanted /\ rec # svc[j])
  /\ Leave(j, "done")
  /\ UNCHANGED <<looper, rec, iface, gone, service, clients, shown, crossed>>
-----------------------------------------------------------------------------
(* publishState: the field is read, then the client's status, then shown.  *)

AfterPublish(c) == IF c = Main THEN "done" ELSE "poller"

PublishReads(c) ==
  /\ At(c, "pubRead")
  /\ my' = [my EXCEPT ![c] = client[svc[c]]]
  /\ pc' = [pc EXCEPT ![c] = IF client[svc[c]] = Nobody THEN "pubIdle" ELSE "pubStatus"]
  /\ UNCHANGED <<android, kind, svc, seen, service, clients, shown, crossed>>

PublishIdle(c) ==
  /\ At(c, "pubIdle")
  /\ SetIdle
  /\ Leave(c, AfterPublish(c))
  /\ UNCHANGED <<android, service, clients, crossed>>

PublishAsks(c) ==
  /\ At(c, "pubStatus")
  /\ seen' = [seen EXCEPT ![c] = status[my[c]]]
  /\ pc' = [pc EXCEPT ![c] = "pubShow"]
  /\ UNCHANGED <<android, kind, svc, my, service, clients, shown, crossed>>

PublishShows(c) ==
  /\ At(c, "pubShow")
  /\ shown' = [status |-> seen[c], busy |-> FALSE, error |-> FALSE]
  /\ Leave(c, AfterPublish(c))
  /\ UNCHANGED <<android, service, clients, crossed>>
-----------------------------------------------------------------------------
(* A coroutine that had not begun when the scope was cancelled never does. *)
Dropped(j) ==
  /\ At(j, "begin") /\ svc[j] \in gone
  /\ Leave(j, "done")
  /\ UNCHANGED <<android, service, clients, shown, crossed>>

Steps(c) ==
  \/ ReadClient(c) \/ ClearClient(c) \/ TakeSession(c) \/ Disconnected(c)
  \/ PublishReads(c) \/ PublishIdle(c) \/ PublishAsks(c) \/ PublishShows(c)

(* The dial is made with no time limit and a context nobody cancels.       *)
DialEnds(j) == DialFails(j) \/ Connected(j)

OwnSteps(j) ==
  \/ Steps(j) \/ BuildFails(j) \/ Establish(j) \/ ConnectRefused(j) \/ ConnectDials(j)
  \/ AssignClient(j) \/ StartPoller(j) \/ Catch(j) \/ CatchAsks(j) \/ SetError(j)
  \/ ShowIdle(j) \/ StopSelf(j) \/ Dropped(j)

JobSteps(j) == OwnSteps(j) \/ DialEnds(j)

MainSteps == OnStartCommand \/ OnDestroy \/ CancelScope \/ Steps(Main)

VpnNext ==
  \/ \E j \in Jobs : JobSteps(j) \/ SessionCloses(j) \/ PollTick(j)
  \/ \E j \in Jobs, button \in {"start", "stop"} : Click(j, button)
  \/ MainSteps \/ Destroys \/ Revoke

VpnSpec == VpnInit /\ [][VpnNext]_vpnVars

(* The main thread and the IO threads are scheduled, a stopped session     *)
(* closes (MCClientSession), and Android destroys what nobody wants; the   *)
(* looper gets to a delayed message again and again.  Nobody has to click  *)
(* or revoke, and a dial need not end.                                     *)
VpnFairSpec ==
  /\ VpnSpec
  /\ WF_vpnVars(MainSteps) /\ WF_vpnVars(Destroys)
  /\ \A j \in Jobs :
       /\ WF_vpnVars(OwnSteps(j)) /\ WF_vpnVars(SessionCloses(j))
       /\ SF_vpnVars(PollTick(j))
-----------------------------------------------------------------------------
Owned(x) ==
  \/ \E i \in Jobs \ gone : client[i] = x
  \/ \E c \in Callers : my[c] = x /\ pc[c] \in {"clear", "take"}
  \/ pc[x] = "assign"

(* Every tunnel that is up is in the field of an instance that lives, or   *)
(* with a coroutine that is about to put it there or to stop it.           *)
TunnelIsOwned == \A x \in Jobs : tunnel[x] = "up" => Owned(x)

(* A tunnel is lost only where two coroutines overlap, or one outlives its *)
(* instance (stopSelf names no start, so that it ends one that has begun). *)
NoTunnelLost == crossed \/ TunnelIsOwned

(* A start has stopped the tunnel before it and waited for its end, when   *)
(* it makes a device for the next.                                         *)
OneTunnel ==
  crossed \/ Cardinality({x \in Jobs : tunnel[x] \in {"dialing", "up", "stopped"}}) <= 1

(* Crossing coroutines are all that can leave a tunnel behind or make two. *)
TunnelsInOrder == NoTunnelLost /\ OneTunnel

(* An error stays on the screen until the next click is served, unless the *)
(* poller of an earlier start is still there to wipe it (publishState).    *)
ErrorStays ==
  [][shown.error /\ ~shown'.error =>
       shown'.busy \/ crossed \/ \E i \in Jobs \ gone : polling[i]]_vpnVars

Dialing == \E j \in Jobs : At(j, "dial")
CancelledEarly == \E j \in Jobs : At(j, "begin") /\ svc[j] \in gone

(* Busy buttons come back, however the coroutines cross: only a dial that  *)
(* never ends keeps them busy, or a coroutine that its scope's cancel()    *)
(* caught before it began (nothing clears what its click has set).         *)
BusyEnds ==
  ([]<>~Dialing /\ []~CancelledEarly) => (shown.busy ~> ~shown.busy)

Misleading ==
  /\ ~shown.busy
  /\ \/ shown.status = "connected" /\ \A x \in Jobs : tunnel[x] # "up"
     \/ shown.status = "idle" /\ \E x \in Jobs : tunnel[x] = "up"

(* The poller may be overtaken by a whole start or stop between asking and *)
(* showing; a "connected" without a tunnel, or an "idle" with one, is put  *)
(* right again, also while a dial hangs, unless the instance is destroyed: *)
(* onDestroy stops the tunnel and leaves the screen as it is.              *)
ScreenIsCorrected == Misleading ~> (~Misleading \/ rec = Nobody \/ crossed)

(* A screen comes to rest, with what is true on it.                        *)
ScreenSettles == BusyEnds /\ ScreenIsCorrected
=============================================================================
