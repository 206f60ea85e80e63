----------------------------- MODULE GuiSession -----------------------------
(***************************************************************************)
(* The desktop GUI (gui/main.go): one goroutine runs the window's frames   *)
(* and owns all the state the user sees; every session start, every Wait   *)
(* and every VPN request or ping runs in a goroutine of its own and        *)
(* reports through the bounded channel updates, dropping its report when   *)
(* the channel is full.                                                    *)
(*                                                                         *)
(* A session is what SessionHandle promises of it: it starts or fails, and *)
(* once cancelled it is done some time later.                              *)
(***************************************************************************)
EXTENDS Naturals, Sequences

CONSTANTS
  Sessions,     \* identities of the sessions that may be started
  Tasks,        \* identities of the requests and pings in flight at once
  None,         \* no session: the nil of u.session and u.vtun
  QueueCap      \* capacity of the channel updates (32 in the code)

ASSUME GuiAssumption ==
  /\ QueueCap \in Nat \ {0}
  /\ None \notin Sessions

VARIABLES
  frame,        \* where the window's goroutine is
  form,         \* what the mode and TUN type buttons ask for
  session, vtun, starting, stopping, running, status,
  requesting, pinging,
  updates,      \* the channel
  worker,       \* per session: its goroutines, one after the other
  kind,         \* per session: runner or vtun, as it was started
  life,         \* per session: what the handle stands for
  cancelled,    \* the sessions whose context is cancelled
  task          \* per task: what is in flight

sessionVars == <<session, vtun, starting, stopping, running, status>>
uiVars == <<sessionVars, requesting, pinging>>
workVars == <<worker, kind, life, cancelled>>
vars == <<frame, form, uiVars, updates, workVars, task>>

Frames == {"window", "start", "stop", "request", "ping", "apply", "layout",
           "leave", "exited"}

(* Client mode with the vtun backend; server mode with it, which is        *)
(* refused; anything runner.Start is asked for.                            *)
Forms == {"vtun", "refused", "runner"}

Update ==
  [what : {"error"}, id : Sessions \cup {None}]
    \cup [what : {"session", "stopped"}, id : Sessions]
    \cup [what : {"result"}, id : {None}]

TypeOK ==
  /\ frame \in Frames
  /\ form \in Forms
  /\ session \in Sessions \cup {None} /\ vtun \in Sessions \cup {None}
  /\ starting \in BOOLEAN /\ stopping \in BOOLEAN /\ running \in BOOLEAN
  /\ status \in {"idle", "starting", "running", "stopping", "failed", "stopped"}
  /\ requesting \in BOOLEAN /\ pinging \in BOOLEAN
  /\ updates \in Seq(Update) /\ Len(updates) <= QueueCap
  /\ worker \in [Sessions -> {"none", "start", "wait", "over"}]
  /\ kind \in [Sessions -> Forms]
  /\ life \in [Sessions -> {"none", "up", "done"}]
  /\ cancelled \subseteq Sessions
  /\ task \in [Tasks -> {"none", "request", "ping"}]

(* newGUI: server mode with vtun+http is selected.                         *)
Init ==
  /\ frame = "window"
  /\ form = "runner"
  /\ session = None /\ vtun = None
  /\ starting = FALSE /\ stopping = FALSE /\ running = FALSE
  /\ status = "idle"
  /\ requesting = FALSE /\ pinging = FALSE
  /\ updates = <<>>
  /\ worker = [s \in Sessions |-> "none"]
  /\ kind = [s \in Sessions |-> "runner"]
  /\ life = [s \in Sessions |-> "none"]
  /\ cancelled = {}
  /\ task = [t \in Tasks |-> "none"]
-----------------------------------------------------------------------------

(* enqueue: a full channel loses the update.                               *)
Enqueue(what, id) ==
  updates' = IF Len(updates) < QueueCap
               THEN Append(updates, [what |-> what, id |-> id])
               ELSE updates

(* The order of one frame: the four buttons, then the updates, then the    *)
(* layout, in which the user's other input takes effect.                   *)
AfterStep ==
  [f \in {"window", "start", "stop", "request", "ping", "layout"} |->
     CASE f = "window" -> "start"
       [] f = "start" -> "stop"
       [] f = "stop" -> "request"
       [] f = "request" -> "ping"
       [] f = "ping" -> "apply"
       [] f = "layout" -> "window"]

NextFrameStep ==
  /\ frame \in DOMAIN AfterStep
  /\ frame' = AfterStep[frame]
  /\ UNCHANGED <<form, uiVars, updates, workVars, task>>

(* A click on Start that handleActions answers.                            *)
ClickStartRefused ==
  /\ frame = "start"
  /\ ~starting /\ session = None
  /\ form = "refused"
  /\ Enqueue("error", None)
  /\ UNCHANGED <<frame, form, uiVars, workVars, task>>

(* The mutant: only the session is tested, which is nil until the update   *)
(* of the last start is applied.                                           *)
ClickStart_SessionOnly ==
  /\ frame = "start"
  /\ session = None
  /\ form # "refused"
  /\ starting' = TRUE
  /\ stopping' = FALSE
  /\ status' = "starting"
  /\ \E s \in Sessions :
       /\ worker[s] = "none"
       /\ worker' = [worker EXCEPT ![s] = "start"]
       /\ kind' = [kind EXCEPT ![s] = form]
  /\ UNCHANGED <<frame, form, session, vtun, running, requesting, pinging,
                 updates, life, cancelled, task>>

ClickStart ==
  /\ frame = "start"
  /\ ~starting /\ session = None
  /\ form # "refused"
  /\ starting' = TRUE
  /\ stopping' = FALSE
  /\ status' = "starting"
  /\ \E s \in Sessions :
       /\ worker[s] = "none"
       /\ worker' = [worker EXCEPT ![s] = "start"]
       /\ kind' = [kind EXCEPT ![s] = form]
  /\ UNCHANGED <<frame, form, session, vtun, running, requesting, pinging,
                 updates, life, cancelled, task>>

(* The mutant: the button changes, the session is not told.                *)
ClickStop_NotTold ==
  /\ frame = "stop"
  /\ session # None /\ ~stopping
  /\ stopping' = TRUE
  /\ starting' = FALSE
  /\ status' = "stopping"
  /\ UNCHANGED <<frame, form, session, vtun, running, requesting, pinging,
                 updates, workVars, task>>

ClickStop ==
  /\ frame = "stop"
  /\ session # None /\ ~stopping
  /\ stopping' = TRUE
  /\ starting' = FALSE
  /\ status' = "stopping"
  /\ cancelled' = cancelled \cup {session}
  /\ UNCHANGED <<frame, form, session, vtun, running, requesting, pinging,
                 updates, worker, kind, life, task>>

ClickRequest ==
  /\ frame = "request"
  /\ vtun # None /\ ~requesting
  /\ requesting' = TRUE
  /\ \E t \in Tasks : task[t] = "none" /\ task' = [task EXCEPT ![t] = "request"]
  /\ UNCHANGED <<frame, form, sessionVars, pinging, updates, workVars>>

ClickPing ==
  /\ frame = "ping"
  /\ vtun # None /\ ~pinging
  /\ pinging' = TRUE
  /\ \E t \in Tasks : task[t] = "none" /\ task' = [task EXCEPT ![t] = "ping"]
  /\ UNCHANGED <<frame, form, sessionVars, requesting, updates, workVars>>

(* The radio buttons of layoutModeRow and layoutTunTypeRow.                *)
ChangeForm ==
  /\ frame = "layout"
  /\ form' \in Forms
  /\ UNCHANGED <<frame, uiVars, updates, workVars, task>>
-----------------------------------------------------------------------------
(* applyUpdates: one pass of its loop per update, until there is none.     *)

Applying(what) ==
  /\ frame = "apply"
  /\ updates # <<>>
  /\ Head(updates).what = what
  /\ updates' = Tail(updates)
  /\ UNCHANGED <<frame, form, workVars, task>>

ApplyError ==
  /\ Applying("error")
  /\ session' = None /\ vtun' = None
  /\ starting' = FALSE /\ stopping' = FALSE /\ running' = FALSE
  /\ status' = "failed"
  /\ UNCHANGED <<requesting, pinging>>

ApplySession ==
  /\ Applying("session")
  /\ LET s == Head(updates).id
     IN  session' = s /\ vtun' = IF kind[s] = "vtun" THEN s ELSE None
  /\ starting' = FALSE /\ stopping' = FALSE /\ running' = TRUE
  /\ status' = "running"
  /\ UNCHANGED <<requesting, pinging>>

ApplyStopped ==
  /\ Applying("stopped")
  /\ session' = None /\ vtun' = None
  /\ starting' = FALSE /\ stopping' = FALSE /\ running' = FALSE
  /\ status' = "stopped"
  /\ requesting' = FALSE /\ pinging' = FALSE

(* Whichever of the two answers, both buttons are released.                *)
ApplyResult ==
  /\ Applying("result")
  /\ requesting' = FALSE /\ pinging' = FALSE
  /\ UNCHANGED sessionVars

ApplyDone ==
  /\ frame = "apply"
  /\ updates = <<>>
  /\ frame' = "layout"
  /\ UNCHANGED <<form, uiVars, updates, workVars, task>>
-----------------------------------------------------------------------------
(* The goroutine startSession spawns: it runs Start, reports, and leaves   *)
(* behind a goroutine that Waits and reports again.  os.Exit ends it too.  *)
ProgramRuns == frame # "exited"

StartSucceeds(s) ==
  /\ ProgramRuns
  /\ worker[s] = "start"
  /\ worker' = [worker EXCEPT ![s] = "wait"]
  /\ life' = [life EXCEPT ![s] = "up"]
  /\ Enqueue("session", s)
  /\ UNCHANGED <<frame, form, uiVars, kind, cancelled, task>>

StartFails(s) ==
  /\ ProgramRuns
  /\ worker[s] = "start"
  /\ worker' = [worker EXCEPT ![s] = "over"]
  /\ Enqueue("error", s)
  /\ UNCHANGED <<frame, form, uiVars, kind, life, cancelled, task>>

(* The mutant: the waiter reports without waiting.                         *)
WaitReturns_AtOnce(s) ==
  /\ ProgramRuns
  /\ worker[s] = "wait"
  /\ worker' = [worker EXCEPT ![s] = "over"]
  /\ Enqueue("stopped", s)
  /\ UNCHANGED <<frame, form, uiVars, kind, life, cancelled, task>>

WaitReturns(s) ==
  /\ ProgramRuns
  /\ worker[s] = "wait" /\ life[s] = "done"
  /\ worker' = [worker EXCEPT ![s] = "over"]
  /\ Enqueue("stopped", s)
  /\ UNCHANGED <<frame, form, uiVars, kind, life, cancelled, task>>

(* The session itself: see RunnerSession and ClientSession.                *)
SessionEnds(s) ==
  /\ ProgramRuns
  /\ life[s] = "up" /\ s \in cancelled
  /\ life' = [life EXCEPT ![s] = "done"]
  /\ UNCHANGED <<frame, form, uiVars, updates, worker, kind, cancelled, task>>

(* The mutant: a failed request is logged and not reported.                *)
TaskReturns_Silent(t) ==
  /\ ProgramRuns
  /\ task[t] # "none"
  /\ task' = [task EXCEPT ![t] = "none"]
  /\ \/ Enqueue("result", None) \/ UNCHANGED updates
  /\ UNCHANGED <<frame, form, uiVars, workVars>>

(* DoRequest or Ping returns, with a result or an error, at any time.      *)
TaskReturns(t) ==
  /\ ProgramRuns
  /\ task[t] # "none"
  /\ task' = [task EXCEPT ![t] = "none"]
  /\ Enqueue("result", None)
  /\ UNCHANGED <<frame, form, uiVars, workVars>>
-----------------------------------------------------------------------------
(* The window is destroyed: run's deferred function cancels every context, *)
(* stops the session it holds and waits for it; then main exits.           *)

(* The mutant: Wait is called before anything is cancelled.                *)
Destroy_WaitsFirst ==
  /\ frame = "window"
  /\ frame' = "leave"
  /\ UNCHANGED <<form, uiVars, updates, workVars, task>>

Destroy ==
  /\ frame = "window"
  /\ frame' = "leave"
  /\ cancelled' = Sessions
  /\ UNCHANGED <<form, uiVars, updates, worker, kind, life, task>>

Exit ==
  /\ frame = "leave"
  /\ session # None => life[session] = "done"
  /\ frame' = "exited"
  /\ UNCHANGED <<form, uiVars, updates, workVars, task>>
-----------------------------------------------------------------------------
Clicks == ClickStartRefused \/ ClickStart \/ ClickStop \/ ClickRequest \/ ClickPing

Apply == ApplyError \/ ApplySession \/ ApplyStopped \/ ApplyResult \/ ApplyDone

Background ==
  \/ \E s \in Sessions : StartSucceeds(s) \/ StartFails(s) \/ WaitReturns(s) \/ SessionEnds(s)
  \/ \E t \in Tasks : TaskReturns(t)

Next == Clicks \/ ChangeForm \/ NextFrameStep \/ Apply \/ Background \/ Destroy \/ Exit

Spec == Init /\ [][Next]_vars

(* The runtime runs every goroutine, and enqueue asks the window for a     *)
(* frame.  Start itself may hang in a dial, a request may never return and *)
(* nobody has to click: none of those is fair.  A cancelled session ends   *)
(* (SessionHandle's StopIsAnswered).                                       *)
Fairness ==
  /\ WF_vars(NextFrameStep) /\ WF_vars(Apply) /\ WF_vars(Exit)
  /\ \A s \in Sessions : WF_vars(SessionEnds(s)) /\ WF_vars(WaitReturns(s))

FairSpec == Spec /\ Fairness
-----------------------------------------------------------------------------
(* Even when updates are dropped, the parts of the state the user sees     *)
(* agree: "running" is shown exactly while a session is held, "starting"   *)
(* never together with one, "stopping" only for a session that is          *)
(* cancelled, and the VPN tools only for the session that is held.         *)
UiConsistent ==
  /\ running = (session # None)
  /\ starting => session = None
  /\ stopping => session \in cancelled
  /\ vtun # None => vtun = session /\ kind[session] = "vtun"
  /\ (status = "starting") = starting
  /\ (status = "stopping") = stopping
  /\ status = "running" => running

(* Two sessions never run at once, whatever is clicked while a start, a    *)
(* stop or an error report is under way, and whatever updates are dropped. *)
AtMostOneSession ==
  \A s, t \in Sessions :
    /\ worker[s] = "start" \/ life[s] = "up"
    /\ worker[t] = "start" \/ life[t] = "up"
    => s = t

(* The GUI lets go of a session, through any update, only when it is over: *)
(* a stale error or stopped report never hides a session that runs.        *)
NeverForgetsLive ==
  [][\A s \in Sessions : session = s /\ session' # s => life[s] = "done"]_vars

(* The channel has had room for every report so far, and has it for good.  *)
HasRoom == [](Len(updates) < QueueCap)

(* With room in the channel, a button that says "Running request..." or    *)
(* "Pinging..." has an answer coming.                                      *)
BusyHasAnswer ==
  LET answered == \E i \in DOMAIN updates : updates[i].what = "result"
  IN  /\ requesting => answered \/ \E t \in Tasks : task[t] = "request"
      /\ pinging => answered \/ \E t \in Tasks : task[t] = "ping"

Leaving == frame \in {"leave", "exited"}

(* With room in the channel, every session that comes up is shown, so that *)
(* it can be stopped.                                                      *)
StartIsShown ==
  \A s \in Sessions : (life[s] = "up") ~> (session = s \/ Leaving)

(* With room in the channel, "Stopping..." comes to an end, and Start can  *)
(* be used again.                                                          *)
StopIsShown == stopping ~> (session = None \/ Leaving)

(* As long as the channel is never full, whatever becomes of a start, a    *)
(* stop, a request or a ping is shown: no button waits for ever for a      *)
(* report that is not coming.                                              *)
ReportsAreShown == HasRoom => []BusyHasAnswer /\ StartIsShown /\ StopIsShown

(* The program exits once its window is destroyed.                         *)
WindowCloses == (frame = "leave") ~> (frame = "exited")
=============================================================================
