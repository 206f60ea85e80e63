# gonnect-vpn-example in TLA+

Models, model-checking runs and machine-checked proofs about this repository:
the life cycle of VPN sessions (who opens what, who closes it, in which order,
and what the user interfaces believe meanwhile), and the parts below them that
carry packets, configure interfaces, answer requests and keep logs. What the
libraries do is not part of the repository and is modelled by how this code uses
it; the code here connects them, and what is hard about it is concurrency and
partial failure.

## 1. The system

| Component | Source | State it keeps | Operations |
|---|---|---|---|
| runner session | `runner/session.go` | context, WaitGroup, `done` | `Start`, `Stop`, `Wait`, the `/ws-vpn` handler |
| TUN backends | `device/` | device, listener, http.Server, goroutines in the session's WaitGroup; an interface, its addresses and routes | `TunFromCfg` and what it leaves running; `nativeFromCfg` and its commands |
| client sessions | `clientcore/` | context, websocket, vtun or Android TUN, bridge, `done`, `pingSeq` | constructors, `Stop`, `Wait`, `DoRequest`, `Ping` |
| desktop GUI | `gui/main.go` | session, vtun, six flags, status, channel `updates` | frame loop, four buttons, workers, exit |
| mobile client | `mobilelib/client.go` | session, status, logs under a mutex | `Connect`, `Disconnect`, `Request`, `Ping` |
| Android demo screen | `MainViewModel.kt`, `MainActivity.kt` | status shown, busy | clicks, refresh, `onCleared` |
| Android VpnService | `GonnectVpnService.kt`, `AndroidVpnRuntime.kt`, `mobilelib/android_client.go` | client, poller, shared state | start and stop intents, poller |
| browser client | `web/main.js`, `web/wasm/main.go` | `isReady`, `isConnected`; five fields under a mutex | connect, disconnect, request |
| transport | `transport/` | websocket, event channel | `Dial`, `Accept`, `Read`, `Write`, `Close` |
| log buffers | `gui/main.go`, `mobilelib/` | the last lines, under a mutex; the window's dirty flag | `add`, `Write`, the tee, `snapshot`, `Logs` |
| configuration, logging, assets | `cfg/`, `cli/`, `logger/`, `socklog/`, `helpers/`, `web/assets.go` | none worth a model | |

How they interact. The command line and the GUI call `runner.Start`; the GUI
(for client mode with a plain vtun) and both mobile clients call the
constructors of `clientcore`; the browser does the same by hand. Each of them
gets an object with `Stop` and `Wait`, the interface `sessionHandle` of the GUI.
Inside a session a context is the only signal: every goroutine waits for it,
closes one thing and leaves the WaitGroup (`runner`) or closes `done`
(`clientcore`). A server's websocket handlers run in goroutines of
`http.Server`, outside the WaitGroup, and share the bridge (P2P) with them. The
GUI's workers talk to its frame loop through a channel that drops when it is
full. The Android screen and the browser page call into Go from other threads
and learn the outcome from a return value, a status string or a promise.

What is hard about it:

- start, stop, failure and closing overlap: a context cancelled during a start,
  `server.Close` before `Serve`, a goroutine joining a WaitGroup that is being
  waited for, an error path that waits for goroutines;
- reports that arrive late, are dropped, or do not say what they are about;
- check and assignment in two critical sections with a dial between them;
- dials that may hang, and callers that block on `Wait`;
- coroutines that share an unsynchronised field, and an Android service that may
  be destroyed, revoked or started again under them;
- a tunnel that loses, delays and repeats: whose answer a call reports, and
  what it leaves open on which of its many error returns;
- a list of commands each of which depends on what the ones before have done to
  the interface, on three systems that differ.

What makes each part correct:

- a session: started or failed; when it failed nothing is open; released only
  after a cancellation; `Wait` returns only when nothing is held, and does
  return after `Stop`;
- a server: the latest client is the active one;
- the GUI: never two sessions, never lets go of a live one, flags that agree,
  and every button gets out of "Starting...", "Stopping...", "Running
  request...";
- the mobile and browser clients: each session has one stopper and none is lost;
  what the screen offers matches what exists;
- the VpnService: one tunnel at a time, each with an owner; errors are seen;
- requests and pings: the answer is to the question; nothing stays open; calls
  with a time limit come back;
- the transport: packets in order, once, and no claim of a packet not sent;
- a native device: configured when it is handed over, closed when it is not;
- logs: the newest lines, in an order that respects real time, and on screen.

`PROJECT.json` lists the hazards behind these, each at its line.

## 2. Modules

```
SessionHandle        what a session promises: the abstract specification
  ^ implements
RunnerSession        runner/session.go with device/
ClientSession        clientcore/vtun_client.go, android_tun_client_android.go
  ^ used as SessionHandle promises
GuiSession           gui/main.go
MobileClient         mobilelib/client.go
  ^ extends
MainViewModel        MainViewModel.kt, MainActivity.kt
VpnService           MainActivity.kt, AndroidVpnRuntime.kt, GonnectVpnService.kt,
                     mobilelib/android_client.go
WebClient            web/main.js, web/wasm/main.go

VTunCalls            DoRequest and Ping of clientcore/vtun_client.go
Transport            transport/
NativeTun            device/native*.go
Logs                 the log lists of gui/main.go and mobilelib/
```

Each `MC...` module gives values to the constants of one of them; the
`...Proofs` modules hold the theorems. `MobileProofs` is about `MobileClient`
and `MainViewModel`, `DataPathProofs` about `Transport` and `NativeTun`,
`TunnelProofs` about `VTunCalls` and `VpnService`; the others are about the
module they are named after. Where two modules share no variable but one proof
module, the names of the specification are distinct (`TunSpec`, `VpnSpec`).

**SessionHandle.** Three variables: the phase, whether the context is cancelled,
whether anything is held. The owners' modules (GUI, mobile) model a session by
what this specification says of it, so the refinements are what joins the two
halves of the project.

**RunnerSession.** `pc` is where `Start` is; `g` has one entry per goroutine of
the WaitGroup (`tunServe`: the SOCKS accept loop or the HTTP server on the vtun;
`tunCloser`, `devCloser`, `linkCloser`: the goroutines behind `<-ctx.Done()`;
`serve`: the VPN server), `socks` one per accepted SOCKS connection, `hnd` one
per websocket handler. The resources (`dev`, `tunLn`, `conn`, `srvLn`, `p2p`)
are none, open or closed. A step is one stretch of a goroutine up to the next
point where another one can see or change something; `LinkStop`/`LinkClose`
are the two halves of one closer. `arrivals` and `settled` are history.
Of `http.Server` the model takes its contract: `Serve` tracks the listener
unless the server was closed before, `Close` closes tracked listeners, `Serve`
closes its listener whenever it returns; hijacked connections survive `Close`.

**ClientSession.** One module for both sessions, which differ in the order in
which the constructor takes the device and the websocket, and in the
descriptor Android hands over. `owner` is who waits: the GUI has two.

**GuiSession.** The frame loop is a program counter (`frame`) that goes through
the buttons in the order of `handleActions`, then `applyUpdates` one update at a
time, then the layout, where the user's other input takes effect. `updates` is
the channel, `Enqueue` drops when it is full. A session's goroutines are
`worker`, what its handle stands for is `life`, requests and pings are `task`.

**MobileClient.** A caller is a thread inside one method: `pc` is between which
critical sections it is, `my` its local variable `session`.

**MainViewModel** extends it with the IO thread that runs one call at a time,
the screen, and the main thread that runs `onCleared`. `MobileClient` is checked
as part of it.

**VpnService.** `looper` is the main thread's message queue, which orders
intents and destructions. A job is a click: its coroutine, and the client and
tunnel it makes if it is a start; `pc`, `my` and `seen` are where the coroutine
is and the local variables it holds. The main thread is a caller too, for the
poller and `onDestroy`, and runs one message at a time. A step is one access to
a field that another thread uses. `rec`, `wanted`, `iface` and `gone` are
Android: which instance gets intents, whether it is wanted, which descriptor is
the VPN interface, whose scope is cancelled. `crossed` is history.

**WebClient.** A call is a promise: `pc` where its goroutine is, `my` its local
variables. Goroutines interleave at every lock and blocking call, which
includes what the single-threaded wasm runtime does. A request keeps the client
it read under the lock, which a disconnect may close meanwhile.

**VTunCalls.** `ping` and `req` are where each call is, `sock` the ICMP
identifier of its socket, `seq` what it drew from the session's counter, `inbox`
what the tunnel has delivered. `net` is every message ever sent: since messages
stay in it, any of them may arrive late, twice or never. `used` is history.

**Transport.** `wire` is what the client's end has sent, `pos` how far the
server's end has read, `batch`/`sent` the Write and `reading`/`room` the Read
under way, `ev` the event channels, `close` the calls of `Close`. The opening
(`dial`, `socket`) goes through the options, the `Control` callback and the
upgrade. `got`, `reported` and `failures` are history.

**NativeTun.** One call of `nativeFromCfg` on each platform: `pc`, `cmds` the
commands still to run, `iface` what the system knows of the interface. The
system is external: `Refusal` says when a command fails because of what is
already there, `Effect` what it does. `cidrPrefixToMask` and
`shouldAddNativeRoute` are functions of the addresses, with the width of an
address as a constant.

**Logs.** A line is the call that made it. `app` says whether this is the GUI
(a tee in front, a window behind) or a mobile client (blank lines dropped, the
app asks); `before` is history: the calls that had returned when a call began.

A definition whose name is a mapped definition's with a suffix
(`WsAttach_FirstStays`) is that definition with a plausible bug; the comment
says which. One property of each run is shown to break under each.

## 3. Runs

| Run | Bounds | What it asks |
|---|---|---|
| `RunnerSession.cfg` | 3 websocket clients, 2 SOCKS connections, both modes, all backends, commands panic (Linux); 1.0 million states | `FailedMeansReleased`, `OlderClientStaysOff`, `NoAddAfterZero`, `ImplementsHandle` |
| `RunnerSessionLive.cfg` | 2 clients, 2 SOCKS connections, commands fail with an error (Windows) | `CallsReturn`: `Start` returns, `Wait` answers `Stop` |
| `RunnerSessionLatest.cfg` | 2 clients | `LatestIsActive`, which is **violated** |
| `ClientSession.cfg` | both kinds, 3 owners | `FailedMeansReleased`, `ImplementsHandle`, `CallsReturn` |
| `GuiSession.cfg` | 2 sessions, 2 tasks, a channel of 4 | `UiConsistent`, `AtMostOneSession`, `NeverForgetsLive`, `ReportsAreShown`, `WindowCloses` |
| `MainViewModel.cfg` | IO thread and main thread, 3 sessions | `NoSessionLost`, `OneSession`, `ScreenTellsTruth`, `ClearedReleases`, `CallsReturn` |
| `VpnService.cfg` | 2 clicks of either button | `TunnelsInOrder`, `ErrorStays`, `ScreenSettles` |
| `WebClient.cfg` | 3 promises at once, 2 connections | `NoConnLost`, `PageTellsTruth`, `ResultIsNewest`, `DisconnectEnds` |
| `VTunCalls.cfg` | 2 pings, 1 request, 2 identifiers, numbers modulo 2 | `AnswerIsOwn`, `ReturnedHoldsNothing`, `CallsReturn` |
| `Transport.cfg` | 2 Closes, a channel of 2, packets of 2 into buffers of 1, batches of 2, 2 messages, 1 failed write | `ReadsInOrder`, `WriteTellsTruth`, `CallsReturn` |
| `NativeTun.cfg` | addresses of 8 bits, every prefix length, 3 interface names | `ReturnIsTrue`, `NoSelfConflict`, `OnlyOwnInterface` |
| `Logs.cfg` | 2 threads, 2 calls each, a list of 2 | `KeepsLast`, `RealTimeOrder`, `ScreenCatchesUp` |

A type invariant is checked where a step is likely to break it (`MainViewModel`,
`VpnService`, `NativeTun`), and proved everywhere. Properties with several parts
(`CallsReturn`, `ReportsAreShown`, `ScreenTellsTruth`, `TunnelsInOrder`,
`ScreenSettles`, `ReturnIsTrue`) are conjunctions whose parts are named and
commented beside them.

Why the bounds are enough. Two SOCKS connections let the accept loop come back
after one and accept another while the first is served. Two websocket clients
let one handler overtake another; the third is a client that arrives after one
of two racing handlers has returned. Three owners are two that wait and one that
comes late. In the GUI a channel of four places is small enough to be full, so
that updates are dropped, and large enough for behaviours in which it never is,
which `ReportsAreShown` is about. Two sessions are one and its successor; three
sessions behind the Android screen leave one for a Connect that crosses both. A
VpnService of two clicks has every order of two coroutines, the poller and a
destruction among each other; three promises in the browser are a pair that
crosses and a bystander. Two pings share, outlive and inherit an identifier, and
numbers modulo 2 wrap at once. In the transport a packet is larger than the
buffer, a batch may fail after its first packet, and a channel of two is filled
by the opening and one Close, so that a Close at each end comes back and a
second one at the same end blocks. Eight bits have all the borders of
thirty-two: both ends of the range, prefixes 0 and full, addresses equal up to
the prefix and not behind it. Four lines overflow a list of two. What holds of
these sizes holds of every size where it is proved (section 5). TLC does not
check deadlock: sessions and calls end.

What was found:

- **The latest client need not be the active one.** README.md of the repository
  (lines 29-30) says so; the handlers attach in the order in which their
  upgrades end, not in the order of arrival (`session.go:141-148`). What holds,
  and is proved, is that a client whose handler had returned when another one
  connected does not come back.
- **`vtun+http` leaks its device** when its listener cannot be opened
  (`device.go:239-242`, `260-262`); `FailedMeansReleased` states the exception.
- **A dropped update is never made up for.** With a full channel the GUI stays
  at "Starting..." for good, though it never runs two sessions or forgets one;
  liveness is therefore claimed only for a channel with room.
- **A failed request hides Disconnect on Android.** The status text replaces
  "connected", the session stays, Connect is refused from then on
  (`LiveIsStoppable` states when).
- **Two clicks on Android's VPN buttons may lose a tunnel.** Start intents run
  in coroutines over the unsynchronised field `client`, and `stopSelf()` names
  no start: a tunnel may be up that no field holds, or belong to a destroyed
  service. `TunnelsInOrder` says that nothing but a crossing does that.
- **The poller wipes errors.** It outlives the client it was started for, finds
  the field empty and shows "idle" over the error of a start that failed
  (`ErrorStays` names the case).
- **A refused constructor keeps the descriptor** that Android detached for it
  (`ConnectRefused` of `VpnService`, `FailedMeansReleased` of `ClientSession`).
- **A ping may report an older ping's reply.** The number in a reply is not
  looked at; an identifier that is given again receives late replies to the ping
  that had it before (`AnswerIsOwn`).
- **A request without a deadline may never come back**; the GUI's and the
  browser's have none. A ping has five seconds of its own.
- **On Windows the route may go to another interface.** `getInterfaceIndex`
  takes the first line that contains the name, and `tun01` contains `tun0`
  (`OnlyOwnInterface`).
- **Two calls at once.** Two crossing Connects lose a session or connection, on
  Android's Go object and in the browser; `onCleared` during a Connect leaves a
  session nobody can stop. `NoSessionLost`, `NoConnLost` and `ClearedReleases`
  say that nothing else does.

## 4. Fairness

Weak fairness of every goroutine's steps: the Go scheduler, the coroutine
dispatchers and the event loops run what can run. Not assumed: that anybody
clicks, calls `Stop`, connects or fails; that the network answers; that a dial
ends (in `RunnerSession` and `ClientSession` it does once its context is
cancelled, which the websocket library promises; in `MainViewModel` and
`WebClient` there is nothing to cancel it); that a request of the GUI or the
browser returns. A SOCKS connection is assumed to end once the context given to
`server.Accept` is done. Owners assume of a stopped session that it closes,
which is what `CallsReturn` of `RunnerSession` and `ClientSession` checks.

`VpnService` assumes that Android destroys what nobody wants, and nothing of a
dial: `Connect` makes it with `context.Background()` and no time limit
(`android_client.go:61`), so that its end, `DialEnds`, is in no fairness
condition. `BusyEnds` therefore says that the buttons come back *if* no dial
hangs for ever and no coroutine was cancelled before it began; without either
hypothesis TLC finds the buttons busy for good. It holds however the coroutines
cross, and a misleading screen is corrected (`ScreenIsCorrected`) also while a
dial hangs. Strong fairness is used once, for the poller: its message comes
again after every delay, but the main thread may be busy with another whenever
it does. In `VTunCalls` timers fire (`CallFails` of a socket with a deadline,
`TimesOut`) and nothing is assumed of the tunnel. In `Transport` a Read of a
broken connection fails and a Close goes on, unless the channel blocks it. In
`Logs` a window draws the frames it was asked for.

## 5. Proofs

`RunnerSessionProofs` proves for any sets of clients and SOCKS connections, any
modes, backends and kind of command failure (`ConfigAssumption`):

| Theorem | States |
|---|---|
| `TypeCorrect` | `Spec => []TypeOK` |
| `DoneReleases` | `Spec => []DoneMeansReleased` |
| `FailureReleases` | `Spec => []FailedMeansReleased` |
| `WaitGroupDiscipline` | `Spec => NoAddAfterZero` |
| `OlderStaysOff` | `Spec => []OlderClientStaysOff` |
| `Refinement` | `Spec => ImplementsHandle` |

`DoneMeansReleased` is not inductive: that the WaitGroup's counter is zero says
nothing about listeners. The invariant `Core` supplies both halves. `Stages`
says which goroutines exist at each place of `Start` (past `TunFromCfg` there is
a closer for the device, at `up` there is one for the link, too, and for each
listener a goroutine that serves it). `Exits` says what a goroutine that has
exited has left closed. When the counter is zero every goroutine that exists has
exited, and so everything is closed. The WaitGroup discipline follows from the
invariant because only the accept loop adds, and it is in the group itself. For
the refinement, what is not cancelled is held (`UncancelledIsHeld`: the device's
closer is still there), so that a goroutine's step maps to a stutter or to
`Release`.

`OlderStaysOff` has an invariant of its own (`WsInv`): whoever had returned when
a client arrived has returned for good.

`ClientSessionProofs` proves for any owners, both kinds of session and either
kind of parent context (`ClientAssumption`):

| Theorem | States |
|---|---|
| `ClientTypeCorrect` | `Spec => []TypeOK` |
| `WaitReleases` | `Spec => []WaitMeansReleased` |
| `ConstructorReleases` | `Spec => []FailedMeansReleased` |
| `ClientRefinement` | `Spec => ImplementsHandle` |

The invariant `CInv` has two halves: `Taken` says what the constructor holds at
each of its places, in either order of dialling and making the device; `Closed`
says what the closing goroutine has closed at each of its own, up to the end
that an owner in `Wait` is released by.

`MobileProofs` proves for any threads and sessions (`MobileAssumption`: the nil
session is no session), and for the screen's two threads (`ViewModelAssumption`:
they are two):

| Theorem | States |
|---|---|
| `MobileTypeCorrect` | `MobileSpec => []MobileTypeOK` |
| `OneStopper` | `MobileSpec => []TakenOnce` |
| `NothingLost` | `MobileSpec => []NoSessionLost` |
| `ScreenIsAClient` | `Spec => MobileSpec` |
| `ScreenTypeCorrect` | `Spec => []TypeOK` |
| `ScreenLosesNothing` | `Spec => []NoSessionLost /\ []~overlapped` |
| `OneTunnelShown` | `Spec => []OneSession` |
| `ScreenIsTrue` | `Spec => []ScreenTellsTruth` |
| `ClearingReleases` | `Spec => []ClearedReleases` |

`TakenOnce` alone is not inductive: a second thread could hold the session that
is still in the field, or that a third is about to store. `Owned` says that a
session in the hands of a call is in nobody else's and not in the field. For
`NoSessionLost`, `Serial` adds that while no two Connects have crossed, a
Connect past its check is alone and finds the field empty, so that storing
overwrites nothing.

Every step of the screen is a step of the client or a stutter
(`ScreenIsAClient`), so the client's invariant holds of it, and the screen's own
(`SInv`) adds what a client with arbitrary callers cannot promise. `Threads`:
one thread calls until `onCleared` calls from a second, which never connects, so
Connects do not cross at all. `Held` and `Live`: whatever is not closed is in
the field or in the hands of one of the two, and it is up where it may be used.
`OnePlace`: until `onCleared` overtakes a Connect there is one such place, which
is `OneSession`, and none after it, which is `ClearedReleases`. `Reported`: the
status at rest says "connected" only with a session in the field, and something
else with a session there only behind a failed request.

`GuiSessionProofs` proves for any sessions, tasks and room in the channel
(`GuiAssumption`): `GuiTypeCorrect`, `UiIsConsistent` (`[]UiConsistent`),
`OneSession` (`[]AtMostOneSession`) and `LiveIsKept` (`NeverForgetsLive`). None
of them is inductive, because what an update does when it is applied depends on
which updates may be in the channel. `Truth` says what each update in the
channel implies about its session, `Refusals` that an error of a refused start
is there only while no session starts, `Ordered` that a session's report comes
before its end, `Quiet`, `Started` and `Held` which sessions may be active while
nothing runs, while a start is pending, and while one is held; `Lone` that only
one ever is. Dropped updates are no trouble: every part is about what is in the
channel, not about what should be.

`WebClientProofs` proves for any promises and connections (`WebAssumption`):
`WebTypeCorrect`, `OneRelease` (`[]ReleasedOnce`), `NothingLost`
(`[]NoConnLost`), `PageIsTrue` (`[]PageTellsTruth`) and `NewestShown`
(`[]ResultIsNewest`). `Hands` says that a connection in the hands of a call is
in nobody else's and not in the fields, `Ops` what a place says about its call,
`OneConnect` that without a crossing one connect is under way, `InStep` that the
page agrees with the fields and with the one call that may change both,
`OneRequest` the same for requests.

`TunnelProofs` proves for any pings, requests, identifiers and width of the
number field (`CallsAssumption`): `CallsTypeCorrect`, `PingAnswersItself`
(`[]AnswerIsOwn`), `CallsHoldNothing` (`[]ReturnedHoldsNothing`) and
`WireNumbersApart` (`[]EchoesDiffer`: two pings with the same number on the wire
are at least a full turn of the counter apart). `Sockets` and `Alone` say who
holds an identifier, `Numbers` and `Distinct` that the counter hands out each
number once, `Order` that whoever has an identifier now is younger than whoever
had it before, and `Carried`, `Inboxes` and `Answers` follow a message from its
echo to the answer that is reported.

It proves of the Android service, for any number of clicks (`VpnAssumption`: the
main thread and nobody are no clicks), where TLC checks two:

| Theorem | States |
|---|---|
| `VpnTypeCorrect` | `VpnSpec => []VpnTypeOK` |
| `TunnelsOrdered` | `VpnSpec => []TunnelsInOrder` |
| `ErrorsStay` | `VpnSpec => ErrorStays` |

None of the last two is inductive, and the hard part is Android's queue: that a
stop finds the client it is to stop depends on which instance it was sent to.
`QInv` holds whatever crosses. `Intents` says that a click is in the looper
once, `LastMessage` that nothing is sent to an instance behind its destruction,
`Successive` that between messages to two instances there is the destruction of
the first, `Fresh` that an identity not yet clicked is nowhere; `Assigned` that
a client which a field or a local variable holds is one whose start has got past
the assignment, and `Tunnels` what a place says about a tunnel. `Calm` holds
until two coroutines meet: `OneBusy`, at most one caller is between its first
and its last access to a client; `InUseFirst`, an instance that has a client or
a coroutine is the one the next messages are for, up to its destruction;
`OneClient`, one field at most holds a client, it is the field of the instance
the busy caller runs in, and none does once that caller has cleared it;
`UpIsHeld`, a tunnel that is up is in the field, about to be put there, or about
to be stopped. `TunnelsInOrder` follows: a tunnel that dials, is up or stops
belongs to the one client or to the one busy caller, never to both. `ErrorStays`
follows from `OneBusy` (a caller is busy only while no error is shown) and from
`Locals` (the main thread publishes only for a poller that lives).

`DataPathProofs` proves for any Closes, sizes, buffers and bounds
(`TransportAssumption`):

| Theorem | States |
|---|---|
| `TransportTypeCorrect` | `Spec => []TypeOK`: an event channel never holds more than its room |
| `PacketsInOrder` | `Spec => []ReadsInOrder` |
| `WritesTellTruth` | `Spec => []WriteTellsTruth` |
| `NeverUnprotected` | `Spec => []ProtectedFirst` |

`ReadsInOrder` is inductive together with the types: `Grows` says that what is
on the wire stays there as it is. `WriteTellsTruth` compares numbers of packets,
so a lemma counts the packets of a wire that grows by one message.

For the native device, for any names and addresses and any width of an address
that is a multiple of four (`NativeAssumption`):

| Theorem | States |
|---|---|
| `MasksReadBack` | for every address and prefix length, `PrefixOf(a, cidrPrefixToMask(p)) = Masked(a, p)` |
| `TunTypeCorrect` | `TunSpec => []TunTypeOK` |
| `NativeReturnIsTrue` | `TunSpec => []ReturnIsTrue` |
| `CommandsAgree` | `TunSpec => []NoSelfConflict` |
| `OthersUntouched` | `TunSpec => []OnlyOwnInterface` |

The prover knows nothing of powers. `PowerAssumption` gives it the one fact
`2^(n + 1) = 2 * 2^n` below the width, which is arithmetic and which TLC
evaluates; that powers of two are positive, grow, divide each other and have
exponents one can read off is proved from there, by the least number for which
it would fail (the induction theorems of the library take an operator and cannot
be used). `MasksReadBack` then covers the two special cases of
`cidrPrefixToMask` and its four octets for thirty-two bits as for eight. The
invariant `NInv` follows the command list: `Planned` (only the last command is a
route, and only that one may name another interface), `Configured` (what has run
is there) and `OnItsWay` (what is not there yet is still on the list). While it
was being proved, the guards of `Refusal` turned out to overlap where an
interface is missing and a text does not parse; the model now says which answer
comes first (`Unreadable`), as the tools look at their arguments first.

`LogsProofs` proves for any threads, calls and limit (`LogsAssumption`):
`LogsTypeCorrect`, `ListKeepsLast` (`[]KeepsLast`), `NoLineLost`
(`[]ReturnedIsLogged`) and `OrderKept` (`[]RealTimeOrder`). `Past` says that a
call began after calls that had returned, `Running` that a line that is not yet
in a list belongs to a call that has not returned, so that what is appended
never belongs before what is there; that cutting a list keeps its order is a
lemma of its own.

Some invariants are proved only, and no run repeats them: the type invariants of
the modules above, `DoneMeansReleased`, `WaitMeansReleased`, `TakenOnce`,
`ReleasedOnce`, `ReturnedIsLogged`, `EchoesDiffer`, `ProtectedFirst`.

Every safety property that a passing run checks is also proved. Model-checked
only are `BusyHasAnswer`, a part of `ReportsAreShown` that needs a channel which
has never been full, and all liveness properties (`CallsReturn`,
`ReportsAreShown`, `WindowCloses`, `DisconnectEnds`, `ScreenSettles`,
`ScreenCatchesUp`): temporal reasoning under fairness and `ENABLED` are out of
the prover's reach.

## 6. Not modelled

- what the libraries do inside (`gonnect` P2P, vtun, socksgo, websocket,
  `net/http`, Gio): they are modelled by how this code uses them. In particular
  what `SetA` does on a stopped bridge, which a handler outside the WaitGroup
  can reach after `Wait`;
- the contents of packets, requests and replies; the parsing of header lines and
  addresses, which succeeds or fails;
- `cfg/`, `cli/`: flags and the validation of three strings. A refused
  configuration is a step of `RunnerSession` and of the GUI's form;
- the level and the time of a log line, which are text: the time is read before
  the lock, so times in the list may go backwards where calls overlap;
- `logger/`, `socklog/`: formatting, and a look-up of socket owners in the
  operating system, which keep no state;
- `web/assets.go`, build files, Android resources, the layout of all screens and
  the text fields behind them;
- `wrapEOF`, which renames errors, and `dial_js.go`, which refuses options the
  browser has no use for;
- the permission dialog before an Android start, the protection of sockets by
  the service (the callback is in `Transport`), and an instance that Android
  starts again by itself (`START_STICKY` with a null intent changes nothing);
- the end of the GUI process while a start is pending: `os.Exit` does not wait;
- the GUI's request and ping goroutines read `u.status` while the frame loop
  writes it; the update they put it into is applied without looking at it.

## 7. Plan

1. Done: all modules of section 2, their runs, and the theorems of section 5.
2. Left: that the sessions which the GUI and the mobile client imagine
   (`life`) behave as `SessionHandle` says, session by session, so that the two
   halves of the project are joined by proofs as well; and liveness of a
   VpnService of three clicks, which TLC does not finish in minutes (its safety,
   inductive invariant included, TLC checks within three).
