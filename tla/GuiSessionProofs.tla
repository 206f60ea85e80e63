-------------------------- MODULE GuiSessionProofs --------------------------
(***************************************************************************)
(* What the desktop GUI guarantees for any number of sessions and tasks    *)
(* and any room in the channel.  The argument: the reports of one session  *)
(* reach the GUI before another can be started.  While nothing is started  *)
(* or held there is nothing to report (Quiet); while a start is under way  *)
(* its session is the only one that reports (Started); while a session is  *)
(* held, only its end is reported (Held); and no report follows the last   *)
(* one (Ordered).  A refusal is applied in the frame of its click.         *)
(***************************************************************************)
EXTENDS GuiSession, TLAPS

Active(s) == worker[s] \in {"start", "wait"}

Result(u) == u.what = "result"
Refusal(u) == u.what = "error" /\ u.id = None

Quiet == ~starting /\ session = None =>
  /\ \A s \in Sessions : ~Active(s)
  /\ \A i \in DOMAIN updates : Result(updates[i]) \/ Refusal(updates[i])

Refusals == \A i \in DOMAIN updates : Refusal(updates[i]) =>
  /\ ~starting /\ session = None /\ form = "refused"
  /\ frame \in {"start", "stop", "request", "ping", "apply"}

Lone == \A s, t \in Sessions : Active(s) /\ Active(t) => s = t

Started == starting => \A s \in Sessions : Active(s) =>
  \A i \in DOMAIN updates :
    \/ Result(updates[i])
    \/ updates[i].what = "session" /\ updates[i].id = s /\ worker[s] = "wait"

Held == session # None =>
  /\ worker[session] \in {"wait", "over"}
  /\ \A s \in Sessions : Active(s) => s = session
  /\ \A i \in DOMAIN updates :
       Result(updates[i]) \/ (updates[i].what = "stopped" /\ updates[i].id = session)

Truth == \A i \in DOMAIN updates :
  /\ updates[i].what = "session" => worker[updates[i].id] \in {"wait", "over"}
  /\ updates[i].what = "stopped" => /\ worker[updates[i].id] = "over"
                                    /\ life[updates[i].id] = "done"

Ordered == \A i, j \in DOMAIN updates : i < j =>
  /\ updates[i].what \in {"error", "stopped"} => Result(updates[j]) \/ Refusal(updates[j])
  /\ updates[i].what = "session" =>
       \/ Result(updates[j])
       \/ updates[j].what = "stopped" /\ updates[j].id = updates[i].id

Lives == \A s \in Sessions : life[s] = "up" => worker[s] = "wait"

Order == Quiet /\ Refusals /\ Lone /\ Started /\ Held /\ Truth /\ Ordered /\ Lives

IInv == TypeOK /\ UiConsistent /\ Order

LEMMA IInvInit == Init => IInv
<1> SUFFICES ASSUME Init PROVE IInv
  OBVIOUS
<1> USE GuiAssumption
<1>1. updates \in Seq(Update) /\ Len(updates) = 0 /\ DOMAIN updates = {}
  BY DEF Init
<1>2. TypeOK
  <2>1. /\ worker \in [Sessions -> {"none", "start", "wait", "over"}]
        /\ kind \in [Sessions -> Forms] /\ life \in [Sessions -> {"none", "up", "done"}]
        /\ task \in [Tasks -> {"none", "request", "ping"}]
    BY DEF Init, Forms
  <2>2. /\ frame \in Frames /\ form \in Forms
        /\ session \in Sessions \cup {None} /\ vtun \in Sessions \cup {None}
        /\ status = "idle" /\ cancelled \subseteq Sessions
    BY DEF Init, Frames, Forms
  <2>3. /\ starting \in BOOLEAN /\ stopping \in BOOLEAN /\ running \in BOOLEAN
        /\ requesting \in BOOLEAN /\ pinging \in BOOLEAN
    BY DEF Init
  <2>4. Len(updates) <= QueueCap
    BY <1>1
  <2> HIDE DEF Init
  <2>5. QED BY <1>1, <2>1, <2>2, <2>3, <2>4 DEF TypeOK
<1>3. UiConsistent
  BY DEF Init, UiConsistent
<1>4. Order
  BY <1>1 DEF Init, Order, Quiet, Refusals, Lone, Started, Held, Truth, Ordered, Lives, Active
<1>5. QED BY <1>2, <1>3, <1>4 DEF IInv

(* What enqueue and the loop of applyUpdates do to the channel.            *)
LEMMA EnqueueAdds ==
  ASSUME TypeOK, NEW what, NEW id, [what |-> what, id |-> id] \in Update, Enqueue(what, id)
  PROVE  /\ updates' \in Seq(Update) /\ Len(updates') <= QueueCap
         /\ Len(updates) \in Nat /\ DOMAIN updates = 1 .. Len(updates)
         /\ \A i \in DOMAIN updates' :
              \/ i \in DOMAIN updates /\ updates'[i] = updates[i]
              \/ i = Len(updates) + 1 /\ updates'[i] = [what |-> what, id |-> id]
<1>1. updates \in Seq(Update) /\ Len(updates) <= QueueCap /\ QueueCap \in Nat
  BY GuiAssumption DEF TypeOK
<1>2. CASE updates' = updates
  BY <1>1, <1>2
<1>3. CASE Len(updates) < QueueCap /\ updates' = Append(updates, [what |-> what, id |-> id])
  BY <1>1, <1>3
<1>4. QED BY <1>2, <1>3 DEF Enqueue

LEMMA ApplyTakes ==
  ASSUME TypeOK, NEW what, Applying(what)
  PROVE  /\ updates' \in Seq(Update) /\ Len(updates') <= QueueCap
         /\ 1 \in DOMAIN updates /\ updates[1].what = what /\ updates[1] \in Update
         /\ Head(updates) = updates[1] /\ DOMAIN updates' \subseteq Nat \ {0}
         /\ \A i \in DOMAIN updates' : i + 1 \in DOMAIN updates /\ updates'[i] = updates[i + 1]
<1>1. updates \in Seq(Update) /\ Len(updates) <= QueueCap /\ QueueCap \in Nat
      /\ updates # <<>> /\ updates' = Tail(updates) /\ Head(updates).what = what
  BY GuiAssumption DEF TypeOK, Applying
<1>2. Len(updates) \in Nat \ {0} /\ DOMAIN updates = 1 .. Len(updates)
  BY <1>1
<1>3. Head(updates) = updates[1] /\ updates[1] \in Update
  BY <1>1, <1>2
<1>4. /\ updates' \in Seq(Update) /\ Len(updates') = Len(updates) - 1
      /\ DOMAIN updates' = 1 .. Len(updates) - 1
      /\ \A i \in 1 .. Len(updates) - 1 : updates'[i] = updates[i + 1]
  BY <1>1, <1>2
<1>5. QED BY <1>1, <1>2, <1>3, <1>4

(* Sessions are the names of all reports but a refusal.                    *)
LEMMA UpdateKinds ==
  ASSUME NEW u \in Update
  PROVE  /\ u.what \in {"error", "session", "stopped", "result"}
         /\ u.id \in Sessions \cup {None}
         /\ u.what \in {"session", "stopped"} => u.id \in Sessions
  BY DEF Update

-----------------------------------------------------------------------------
(* Types.                                                                  *)

LEMMA FrameMoves ==
  ASSUME NextFrameStep
  PROVE  \/ frame' \in {"start", "stop", "request", "ping", "apply"} /\ frame # "layout"
         \/ frame' = "window" /\ frame = "layout"
<1>1. frame \in {"window", "start", "stop", "request", "ping", "layout"}
      /\ frame' = AfterStep[frame]
  BY DEF NextFrameStep, AfterStep
<1>2. CASE frame = "window"
  BY <1>1, <1>2 DEF AfterStep
<1>3. CASE frame = "start"
  BY <1>1, <1>3 DEF AfterStep
<1>4. CASE frame = "stop"
  BY <1>1, <1>4 DEF AfterStep
<1>5. CASE frame = "request"
  BY <1>1, <1>5 DEF AfterStep
<1>6. CASE frame = "ping"
  BY <1>1, <1>6 DEF AfterStep
<1>7. CASE frame = "layout"
  BY <1>1, <1>7 DEF AfterStep
<1>8. QED BY <1>1, <1>2, <1>3, <1>4, <1>5, <1>6, <1>7

(* The steps that leave every report, flag and goroutine alone.            *)
Idle == NextFrameStep \/ ApplyDone \/ Exit \/ Destroy \/ ChangeForm

LEMMA IdleTypes == TypeOK /\ Idle => TypeOK'
<1> SUFFICES ASSUME TypeOK, Idle PROVE TypeOK'
  OBVIOUS
<1>1. UNCHANGED <<uiVars, updates, worker, kind, life, task>>
  BY DEF Idle, NextFrameStep, ApplyDone, Exit, Destroy, ChangeForm, workVars
<1>2. frame' \in Frames
  BY FrameMoves DEF TypeOK, Idle, ApplyDone, Exit, Destroy, ChangeForm, Frames
<1>3. form' \in Forms
  BY DEF TypeOK, Idle, NextFrameStep, ApplyDone, Exit, Destroy, ChangeForm
<1>4. cancelled' \subseteq Sessions
  BY DEF TypeOK, Idle, NextFrameStep, ApplyDone, Exit, Destroy, ChangeForm, workVars
<1>5. QED BY <1>1, <1>2, <1>3, <1>4 DEF TypeOK, uiVars, sessionVars

LEMMA ClickTypes == TypeOK /\ Clicks => TypeOK'
<1> SUFFICES ASSUME TypeOK, Clicks PROVE TypeOK'
  OBVIOUS
<1>1. CASE ClickStartRefused
  <2>1. Enqueue("error", None) /\ UNCHANGED <<frame, form, uiVars, workVars, task>>
    BY <1>1 DEF ClickStartRefused
  <2>2. updates' \in Seq(Update) /\ Len(updates') <= QueueCap
    BY <2>1, EnqueueAdds DEF Update
  <2>3. QED BY <2>1, <2>2 DEF TypeOK, uiVars, sessionVars, workVars
<1>2. CASE ClickStart
  <2>1. /\ starting' \in BOOLEAN /\ stopping' \in BOOLEAN
        /\ status' = "starting"
        /\ UNCHANGED <<frame, form, session, vtun, running, requesting, pinging,
                       updates, life, cancelled, task>>
    BY <1>2 DEF ClickStart
  <2>2. worker' \in [Sessions -> {"none", "start", "wait", "over"}] /\ kind' \in [Sessions -> Forms]
    BY <1>2 DEF ClickStart, TypeOK
  <2>3. QED BY <2>1, <2>2 DEF TypeOK
<1>3. CASE ClickStop
  <2>1. /\ starting' \in BOOLEAN /\ stopping' \in BOOLEAN
        /\ status' = "stopping"
        /\ UNCHANGED <<frame, form, session, vtun, running, requesting, pinging,
                       updates, worker, kind, life, task>>
    BY <1>3 DEF ClickStop
  <2>2. cancelled' \subseteq Sessions
    BY <1>3 DEF ClickStop, TypeOK
  <2>3. QED BY <2>1, <2>2 DEF TypeOK
<1>4. CASE ClickRequest
  <2>1. requesting' \in BOOLEAN /\ UNCHANGED <<frame, form, sessionVars, pinging, updates, workVars>>
    BY <1>4 DEF ClickRequest
  <2>2. task' \in [Tasks -> {"none", "request", "ping"}]
    BY <1>4 DEF ClickRequest, TypeOK
  <2>3. QED BY <2>1, <2>2 DEF TypeOK, sessionVars, workVars
<1>5. CASE ClickPing
  <2>1. pinging' \in BOOLEAN /\ UNCHANGED <<frame, form, sessionVars, requesting, updates, workVars>>
    BY <1>5 DEF ClickPing
  <2>2. task' \in [Tasks -> {"none", "request", "ping"}]
    BY <1>5 DEF ClickPing, TypeOK
  <2>3. QED BY <2>1, <2>2 DEF TypeOK, sessionVars, workVars
<1>6. QED BY <1>1, <1>2, <1>3, <1>4, <1>5 DEF Clicks

Applies == ApplyError \/ ApplySession \/ ApplyStopped \/ ApplyResult

LEMMA ApplyTypes == TypeOK /\ Applies => TypeOK'
<1> SUFFICES ASSUME TypeOK, Applies PROVE TypeOK'
  OBVIOUS
<1>1. UNCHANGED <<frame, form, workVars, task>>
  BY DEF Applies, ApplyError, ApplySession, ApplyStopped, ApplyResult, Applying
<1>2. updates' \in Seq(Update) /\ Len(updates') <= QueueCap
  BY ApplyTakes DEF Applies, ApplyError, ApplySession, ApplyStopped, ApplyResult
<1>3. /\ session' \in Sessions \cup {None} /\ vtun' \in Sessions \cup {None}
      /\ status' \in {"idle", "starting", "running", "stopping", "failed", "stopped"}
  <2>1. CASE ApplySession
    <3>1. Head(updates).id \in Sessions
      BY <2>1, ApplyTakes, UpdateKinds DEF ApplySession
    <3>2. QED BY <2>1, <3>1 DEF ApplySession
  <2>2. CASE ApplyError \/ ApplyStopped \/ ApplyResult
    BY <2>2 DEF ApplyError, ApplyStopped, ApplyResult, TypeOK, sessionVars
  <2>3. QED BY <2>1, <2>2 DEF Applies
<1>4. starting' \in BOOLEAN /\ stopping' \in BOOLEAN /\ running' \in BOOLEAN
  BY DEF Applies, ApplyError, ApplySession, ApplyStopped, ApplyResult, TypeOK, sessionVars
<1>5. requesting' \in BOOLEAN /\ pinging' \in BOOLEAN
  BY DEF Applies, ApplyError, ApplySession, ApplyStopped, ApplyResult, TypeOK
<1>6. QED BY <1>1, <1>2, <1>3, <1>4, <1>5 DEF TypeOK, workVars

LEMMA BackgroundTypes == TypeOK /\ Background => TypeOK'
<1> SUFFICES ASSUME TypeOK, Background PROVE TypeOK'
  OBVIOUS
<1>1. UNCHANGED <<frame, form, uiVars, kind, cancelled>>
  BY DEF Background, StartSucceeds, StartFails, WaitReturns, SessionEnds, TaskReturns, workVars
<1>2. updates' \in Seq(Update) /\ Len(updates') <= QueueCap
  <2>1. CASE UNCHANGED updates
    BY <2>1 DEF TypeOK
  <2>2. CASE \E s \in Sessions :
               Enqueue("session", s) \/ Enqueue("error", s) \/ Enqueue("stopped", s)
    BY <2>2, EnqueueAdds DEF Update
  <2>3. CASE Enqueue("result", None)
    BY <2>3, EnqueueAdds DEF Update
  <2>4. QED BY <2>1, <2>2, <2>3
             DEF Background, StartSucceeds, StartFails, WaitReturns, SessionEnds, TaskReturns
<1>3. worker' \in [Sessions -> {"none", "start", "wait", "over"}]
  BY DEF Background, StartSucceeds, StartFails, WaitReturns, SessionEnds, TaskReturns, TypeOK, workVars
<1>4. life' \in [Sessions -> {"none", "up", "done"}]
  BY DEF Background, StartSucceeds, StartFails, WaitReturns, SessionEnds, TaskReturns, TypeOK, workVars
<1>5. task' \in [Tasks -> {"none", "request", "ping"}]
  BY DEF Background, StartSucceeds, StartFails, WaitReturns, SessionEnds, TaskReturns, TypeOK
<1>6. QED BY <1>1, <1>2, <1>3, <1>4, <1>5 DEF TypeOK, uiVars, sessionVars

LEMMA TypesKept == TypeOK /\ [Next]_vars => TypeOK'
<1>1. TypeOK /\ UNCHANGED vars => TypeOK'
  BY DEF TypeOK, vars, uiVars, sessionVars, workVars
<1>2. Next => Idle \/ Clicks \/ Applies \/ Background
  BY DEF Next, Idle, Apply, Applies
<1>3. QED BY <1>1, <1>2, IdleTypes, ClickTypes, ApplyTypes, BackgroundTypes
-----------------------------------------------------------------------------
(* What the user sees.                                                     *)

LEMMA UiKept == TypeOK /\ UiConsistent /\ [Next]_vars => UiConsistent'
<1> SUFFICES ASSUME TypeOK, UiConsistent, [Next]_vars PROVE UiConsistent'
  OBVIOUS
<1>0. starting' \in BOOLEAN /\ stopping' \in BOOLEAN /\ running' \in BOOLEAN
  BY TypesKept DEF TypeOK
<1>1. CASE ClickStart
  <2>1. /\ session = None /\ vtun = None /\ ~running
        /\ starting' /\ ~stopping' /\ status' = "starting"
        /\ UNCHANGED <<session, vtun, running>>
    BY <1>1 DEF ClickStart, UiConsistent
  <2>2. QED BY <1>0, <2>1 DEF UiConsistent
<1>2. CASE ClickStop
  <2>1. /\ session # None /\ session \in cancelled' /\ running
        /\ ~starting' /\ stopping' /\ status' = "stopping"
        /\ UNCHANGED <<session, vtun, running, kind>>
    BY <1>2 DEF ClickStop, UiConsistent
  <2>2. QED BY <1>0, <2>1 DEF UiConsistent
<1>3. CASE ApplySession
  <2>1. Head(updates).id \in Sessions
    BY <1>3, ApplyTakes, UpdateKinds DEF ApplySession
  <2>2. /\ session' # None /\ (vtun' # None => vtun' = session' /\ kind[session'] = "vtun")
        /\ ~starting' /\ ~stopping' /\ running' /\ status' = "running"
        /\ UNCHANGED kind
    BY <1>3, <2>1, GuiAssumption DEF ApplySession, Applying, workVars
  <2>3. QED BY <1>0, <2>2 DEF UiConsistent
<1>4. CASE ApplyError \/ ApplyStopped
  <2>1. /\ session' = None /\ vtun' = None /\ ~starting' /\ ~stopping' /\ ~running'
        /\ status' \in {"failed", "stopped"}
    BY <1>4 DEF ApplyError, ApplyStopped
  <2>2. QED BY <1>0, <2>1 DEF UiConsistent
<1>5. CASE /\ UNCHANGED <<sessionVars, kind>>
           /\ cancelled' = cancelled \/ cancelled' = Sessions
  BY <1>5 DEF UiConsistent, TypeOK, sessionVars
<1>6. QED
  <2>1. ClickStartRefused \/ ClickRequest \/ ClickPing => UNCHANGED <<sessionVars, kind, cancelled>>
    BY DEF ClickStartRefused, ClickRequest, ClickPing, uiVars, workVars
  <2>2. ChangeForm \/ NextFrameStep \/ ApplyDone \/ Exit => UNCHANGED <<sessionVars, kind, cancelled>>
    BY DEF ChangeForm, NextFrameStep, ApplyDone, Exit, uiVars, workVars
  <2>3. ApplyResult \/ UNCHANGED vars => UNCHANGED <<sessionVars, kind, cancelled>>
    BY DEF ApplyResult, Applying, vars, uiVars, workVars
  <2>4. Background => UNCHANGED <<sessionVars, kind, cancelled>>
    BY DEF Background, StartSucceeds, StartFails, WaitReturns, SessionEnds, TaskReturns, uiVars, workVars
  <2>5. Destroy => UNCHANGED <<sessionVars, kind>> /\ cancelled' = Sessions
    BY DEF Destroy, uiVars
  <2>6. QED BY <1>1, <1>2, <1>3, <1>4, <1>5, <2>1, <2>2, <2>3, <2>4, <2>5 DEF Next, Clicks, Apply
-----------------------------------------------------------------------------
(* The order of reports.                                                   *)

(* A step that leaves the reports, the goroutines and what is held alone.  *)
LEMMA Still ==
  ASSUME Order, UNCHANGED <<session, starting, updates, worker, life>>
  PROVE  Quiet' /\ Lone' /\ Started' /\ Held' /\ Truth' /\ Ordered' /\ Lives'
<1>1. Quiet' /\ Lone' /\ Started'
  BY DEF Order, Quiet, Lone, Started, Active, Result, Refusal
<1>2. Held' /\ Truth' /\ Ordered' /\ Lives'
  BY DEF Order, Held, Truth, Ordered, Lives, Active, Result, Refusal
<1>3. QED BY <1>1, <1>2

LEMMA IdleOrder == TypeOK /\ Order /\ (Idle \/ ClickRequest \/ ClickPing) => Order'
<1> SUFFICES ASSUME TypeOK, Order, Idle \/ ClickRequest \/ ClickPing PROVE Order'
  OBVIOUS
<1>1. UNCHANGED <<session, starting, updates, worker, life>>
  BY DEF Idle, NextFrameStep, ApplyDone, Exit, Destroy, ChangeForm, ClickRequest, ClickPing,
         uiVars, sessionVars, workVars
<1>2. Refusals'
  <2>1. CASE NextFrameStep
    BY <2>1, <1>1, FrameMoves DEF Order, Refusals, Refusal, NextFrameStep
  <2>2. CASE ApplyDone \/ Exit \/ Destroy \/ ChangeForm
    BY <2>2, <1>1 DEF ApplyDone, Exit, Destroy, ChangeForm, Order, Refusals, Refusal
  <2>3. CASE ClickRequest \/ ClickPing
    BY <2>3, <1>1 DEF ClickRequest, ClickPing, Order, Refusals, Refusal
  <2>4. QED BY <2>1, <2>2, <2>3 DEF Idle
<1>3. QED BY <1>1, <1>2, Still DEF Order

LEMMA RefusedOrder == TypeOK /\ Order /\ ClickStartRefused => Order'
<1> SUFFICES ASSUME TypeOK, Order, ClickStartRefused PROVE Order'
  OBVIOUS
<1>1. /\ frame = "start" /\ ~starting /\ session = None /\ form = "refused"
      /\ UNCHANGED <<frame, form, session, starting, worker, life>>
      /\ Enqueue("error", None)
  BY DEF ClickStartRefused, uiVars, sessionVars, workVars
<1>2. /\ Len(updates) \in Nat /\ DOMAIN updates = 1 .. Len(updates)
      /\ \A i \in DOMAIN updates' :
           \/ i \in DOMAIN updates /\ updates'[i] = updates[i]
           \/ i = Len(updates) + 1 /\ updates'[i] = [what |-> "error", id |-> None]
  BY <1>1, EnqueueAdds DEF Update
<1>3. /\ \A s \in Sessions : ~Active(s)
      /\ \A i \in DOMAIN updates : Result(updates[i]) \/ Refusal(updates[i])
  BY <1>1 DEF Order, Quiet
<1>4. \A i \in DOMAIN updates' : Result(updates'[i]) \/ Refusal(updates'[i])
  BY <1>2, <1>3 DEF Result, Refusal
<1>5. Quiet' /\ Refusals' /\ Lone' /\ Started' /\ Held'
  BY <1>1, <1>3, <1>4 DEF Quiet, Refusals, Lone, Started, Held, Active, Result, Refusal
<1>6. Truth' /\ Ordered'
  BY <1>4 DEF Truth, Ordered, Result, Refusal
<1>7. Lives'
  BY <1>1 DEF Order, Lives
<1>8. QED BY <1>5, <1>6, <1>7 DEF Order

LEMMA StartOrder == TypeOK /\ Order /\ ClickStart => Order'
<1> SUFFICES ASSUME TypeOK, Order, ClickStart PROVE Order'
  OBVIOUS
<1>1. /\ ~starting /\ session = None /\ form # "refused" /\ starting'
      /\ UNCHANGED <<session, updates, life>>
  BY DEF ClickStart
<1>2. PICK s \in Sessions : worker[s] = "none" /\ worker' = [worker EXCEPT ![s] = "start"]
  BY DEF ClickStart
<1>3. /\ \A t \in Sessions : ~Active(t)
      /\ \A i \in DOMAIN updates : Result(updates[i])
  BY <1>1 DEF Order, Quiet, Refusals
<1>4. \A t \in Sessions : worker'[t] = IF t = s THEN "start" ELSE worker[t]
  BY <1>2 DEF TypeOK
<1>5. Quiet' /\ Held'
  BY <1>1 DEF Quiet, Held
<1>6. Refusals' /\ Truth' /\ Ordered' /\ Started'
  BY <1>1, <1>3 DEF Refusals, Truth, Ordered, Started, Result, Refusal
<1>7. Lone'
  BY <1>3, <1>4 DEF Lone, Active
<1>8. Lives'
  BY <1>1, <1>2, <1>4 DEF Order, Lives
<1>9. QED BY <1>5, <1>6, <1>7, <1>8 DEF Order

LEMMA StopOrder == TypeOK /\ Order /\ ClickStop => Order'
<1> SUFFICES ASSUME TypeOK, Order, ClickStop PROVE Order'
  OBVIOUS
<1>1. /\ session # None /\ ~starting'
      /\ UNCHANGED <<session, updates, worker, life>>
  BY DEF ClickStop
<1>2. Quiet' /\ Started'
  BY <1>1 DEF Quiet, Started
<1>3. Refusals'
  BY <1>1 DEF Order, Refusals, Refusal
<1>4. Lone' /\ Held' /\ Truth' /\ Ordered' /\ Lives'
  BY <1>1 DEF Order, Lone, Held, Truth, Ordered, Lives, Active, Result, Refusal
<1>5. QED BY <1>2, <1>3, <1>4 DEF Order

(* Whatever report is applied, those behind it stay in order.              *)
LEMMA Behind ==
  ASSUME TypeOK, Order, NEW what, Applying(what)
  PROVE  /\ Lone' /\ Truth' /\ Ordered' /\ Lives'
         /\ what \in {"error", "stopped"} =>
              \A i \in DOMAIN updates' : Result(updates'[i]) \/ Refusal(updates'[i])
         /\ what = "session" => \A i \in DOMAIN updates' :
              \/ Result(updates'[i])
              \/ updates'[i].what = "stopped" /\ updates'[i].id = updates[1].id
<1>1. /\ 1 \in DOMAIN updates /\ updates[1].what = what
      /\ DOMAIN updates' \subseteq Nat \ {0}
      /\ \A i \in DOMAIN updates' : i + 1 \in DOMAIN updates /\ updates'[i] = updates[i + 1]
  BY ApplyTakes
<1>2. UNCHANGED <<worker, life>>
  BY DEF Applying, workVars
<1>3. Lone' /\ Lives'
  BY <1>2 DEF Order, Lone, Lives, Active
<1>4. Truth'
  BY <1>1, <1>2 DEF Order, Truth
<1>5. Ordered'
  <2> SUFFICES ASSUME NEW i \in DOMAIN updates', NEW j \in DOMAIN updates', i < j
               PROVE  /\ updates'[i].what \in {"error", "stopped"} =>
                           Result(updates'[j]) \/ Refusal(updates'[j])
                      /\ updates'[i].what = "session" =>
                           \/ Result(updates'[j])
                           \/ updates'[j].what = "stopped" /\ updates'[j].id = updates'[i].id
    BY DEF Ordered, Result, Refusal
  <2>1. i + 1 < j + 1
    BY <1>1
  <2>2. QED BY <1>1, <2>1 DEF Order, Ordered
<1>6. \A i \in DOMAIN updates' : 1 < i + 1
  BY <1>1
<1>7. QED BY <1>1, <1>3, <1>4, <1>5, <1>6 DEF Order, Ordered

LEMMA ErrorOrder == TypeOK /\ Order /\ ApplyError => Order'
<1> SUFFICES ASSUME TypeOK, Order, ApplyError PROVE Order'
  OBVIOUS
<1>1. /\ Applying("error") /\ session' = None /\ ~starting'
      /\ UNCHANGED <<frame, form, worker>>
  BY DEF ApplyError, Applying, workVars
<1>2. /\ 1 \in DOMAIN updates /\ updates[1].what = "error"
      /\ \A i \in DOMAIN updates' : i + 1 \in DOMAIN updates /\ updates'[i] = updates[i + 1]
  BY <1>1, ApplyTakes
<1>3. \A s \in Sessions : ~Active(s)
  BY <1>2 DEF Order, Quiet, Held, Started, Refusals, Result, Refusal
<1>4. \A i \in DOMAIN updates' : Result(updates'[i]) \/ Refusal(updates'[i])
  BY <1>1, Behind
<1>5. Quiet'
  BY <1>1, <1>3, <1>4 DEF Quiet, Active, Result, Refusal
<1>6. Refusals'
  BY <1>1, <1>2 DEF Order, Refusals, Refusal
<1>7. Started' /\ Held'
  BY <1>1 DEF Started, Held
<1>8. QED BY <1>1, <1>5, <1>6, <1>7, Behind DEF Order

LEMMA SessionOrder == TypeOK /\ Order /\ ApplySession => Order'
<1> SUFFICES ASSUME TypeOK, Order, ApplySession PROVE Order'
  OBVIOUS
<1> DEFINE s == updates[1].id
<1>1. /\ Applying("session") /\ session' = Head(updates).id /\ ~starting'
      /\ UNCHANGED <<frame, form, worker>>
  BY DEF ApplySession, Applying, workVars
<1>2. /\ 1 \in DOMAIN updates /\ updates[1].what = "session" /\ s \in Sessions
      /\ session' = s /\ s # None
  BY <1>1, ApplyTakes, UpdateKinds, GuiAssumption
<1>3. starting /\ session = None
  BY <1>2 DEF Order, Quiet, Held, Result, Refusal
<1>4. /\ worker[s] \in {"wait", "over"}
      /\ \A t \in Sessions : Active(t) => t = s
  BY <1>2, <1>3 DEF Order, Truth, Started, Result
<1>5. \A i \in DOMAIN updates' :
        Result(updates'[i]) \/ (updates'[i].what = "stopped" /\ updates'[i].id = s)
  BY <1>1, Behind
<1>6. Held'
  BY <1>1, <1>2, <1>4, <1>5 DEF Held, Active, Result
<1>7. Quiet' /\ Started' /\ Refusals'
  BY <1>1, <1>2, <1>5 DEF Quiet, Started, Refusals, Result, Refusal
<1>8. QED BY <1>1, <1>6, <1>7, Behind DEF Order

LEMMA StoppedOrder == TypeOK /\ Order /\ ApplyStopped => Order'
<1> SUFFICES ASSUME TypeOK, Order, ApplyStopped PROVE Order'
  OBVIOUS
<1>1. /\ Applying("stopped") /\ session' = None /\ ~starting'
      /\ UNCHANGED <<frame, form, worker>>
  BY DEF ApplyStopped, Applying, workVars
<1>2. /\ 1 \in DOMAIN updates /\ updates[1].what = "stopped"
      /\ \A i \in DOMAIN updates' : i + 1 \in DOMAIN updates /\ updates'[i] = updates[i + 1]
  BY <1>1, ApplyTakes
<1>3. worker[updates[1].id] = "over"
  BY <1>2 DEF Order, Truth
<1>4. \A s \in Sessions : ~Active(s)
  <2>1. CASE session # None
    BY <2>1, <1>2, <1>3 DEF Order, Held, Result, Active
  <2>2. CASE session = None
    BY <2>2, <1>2 DEF Order, Quiet, Started, Result, Refusal
  <2>3. QED BY <2>1, <2>2
<1>5. \A i \in DOMAIN updates' : Result(updates'[i]) \/ Refusal(updates'[i])
  BY <1>1, Behind
<1>6. Quiet'
  BY <1>1, <1>4, <1>5 DEF Quiet, Active, Result, Refusal
<1>7. Refusals'
  BY <1>1, <1>2 DEF Order, Refusals, Refusal
<1>8. Started' /\ Held'
  BY <1>1 DEF Started, Held
<1>9. QED BY <1>1, <1>6, <1>7, <1>8, Behind DEF Order

LEMMA ResultOrder == TypeOK /\ Order /\ ApplyResult => Order'
<1> SUFFICES ASSUME TypeOK, Order, ApplyResult PROVE Order'
  OBVIOUS
<1>1. Applying("result") /\ UNCHANGED <<frame, form, session, starting, worker>>
  BY DEF ApplyResult, Applying, sessionVars, workVars
<1>2. \A i \in DOMAIN updates' : i + 1 \in DOMAIN updates /\ updates'[i] = updates[i + 1]
  BY <1>1, ApplyTakes
<1>3. Quiet' /\ Refusals'
  BY <1>1, <1>2 DEF Order, Quiet, Refusals, Active, Result, Refusal
<1>4. Started' /\ Held'
  BY <1>1, <1>2 DEF Order, Started, Held, Active, Result
<1>5. QED BY <1>1, <1>3, <1>4, Behind DEF Order

(* A start that ends, well or not, finds only results in the channel.      *)
LEMMA StartingAlone ==
  ASSUME TypeOK, Order, NEW s \in Sessions, worker[s] = "start"
  PROVE  /\ starting /\ session = None
         /\ \A t \in Sessions : Active(t) => t = s
         /\ \A i \in DOMAIN updates : Result(updates[i])
<1>1. Active(s)
  BY DEF Active
<1>2. starting /\ session = None
  BY <1>1 DEF Order, Quiet, Held
<1>3. QED BY <1>1, <1>2 DEF Order, Lone, Started

LEMMA SucceedsOrder ==
  ASSUME TypeOK, Order, NEW s \in Sessions, StartSucceeds(s)
  PROVE  Order'
<1>1. /\ worker[s] = "start" /\ Enqueue("session", s)
      /\ worker' = [worker EXCEPT ![s] = "wait"] /\ life' = [life EXCEPT ![s] = "up"]
      /\ UNCHANGED <<session, starting>>
  BY DEF StartSucceeds, uiVars, sessionVars
<1>2. /\ starting /\ session = None
      /\ \A t \in Sessions : Active(t) => t = s
      /\ \A i \in DOMAIN updates : Result(updates[i])
  BY <1>1, StartingAlone
<1>3. /\ Len(updates) \in Nat /\ DOMAIN updates = 1 .. Len(updates)
      /\ \A i \in DOMAIN updates' :
           \/ i \in DOMAIN updates /\ updates'[i] = updates[i]
           \/ i = Len(updates) + 1 /\ updates'[i] = [what |-> "session", id |-> s]
  BY <1>1, EnqueueAdds DEF Update
<1>4. \A i \in DOMAIN updates' :
        \/ i \in 1 .. Len(updates) /\ Result(updates'[i])
        \/ i = Len(updates) + 1 /\ updates'[i].what = "session" /\ updates'[i].id = s
  BY <1>2, <1>3 DEF Result
<1>5. \A t \in Sessions : /\ worker'[t] = IF t = s THEN "wait" ELSE worker[t]
                          /\ life'[t] = IF t = s THEN "up" ELSE life[t]
  BY <1>1 DEF TypeOK
<1>6. Quiet' /\ Held' /\ Refusals'
  BY <1>1, <1>2, <1>4 DEF Quiet, Held, Refusals, Result, Refusal
<1>7. Lone'
  BY <1>2, <1>5 DEF Lone, Active
<1>8. Started'
  BY <1>2, <1>4, <1>5 DEF Started, Active, Result
<1>9. Truth'
  BY <1>4, <1>5 DEF Truth, Result
<1>10. Ordered'
  BY <1>3, <1>4 DEF Ordered, Result, Refusal
<1>11. Lives'
  BY <1>5 DEF Order, Lives
<1>12. QED BY <1>6, <1>7, <1>8, <1>9, <1>10, <1>11 DEF Order

LEMMA FailsOrder ==
  ASSUME TypeOK, Order, NEW s \in Sessions, StartFails(s)
  PROVE  Order'
<1>1. /\ worker[s] = "start" /\ Enqueue("error", s)
      /\ worker' = [worker EXCEPT ![s] = "over"]
      /\ UNCHANGED <<session, starting, life>>
  BY DEF StartFails, uiVars, sessionVars
<1>2. /\ starting /\ session = None
      /\ \A t \in Sessions : Active(t) => t = s
      /\ \A i \in DOMAIN updates : Result(updates[i])
  BY <1>1, StartingAlone
<1>3. /\ Len(updates) \in Nat /\ DOMAIN updates = 1 .. Len(updates)
      /\ \A i \in DOMAIN updates' :
           \/ i \in DOMAIN updates /\ updates'[i] = updates[i]
           \/ i = Len(updates) + 1 /\ updates'[i] = [what |-> "error", id |-> s]
  BY <1>1, EnqueueAdds DEF Update
<1>4. \A i \in DOMAIN updates' :
        \/ i \in 1 .. Len(updates) /\ Result(updates'[i])
        \/ i = Len(updates) + 1 /\ updates'[i].what = "error" /\ updates'[i].id = s
  BY <1>2, <1>3 DEF Result
<1>5. \A t \in Sessions : worker'[t] = IF t = s THEN "over" ELSE worker[t]
  BY <1>1 DEF TypeOK
<1>6. Quiet' /\ Held' /\ Refusals'
  BY <1>1, <1>2, <1>4, GuiAssumption DEF Quiet, Held, Refusals, Result, Refusal
<1>7. Lone' /\ Started'
  BY <1>2, <1>5 DEF Lone, Started, Active
<1>8. Truth'
  BY <1>4 DEF Truth, Result
<1>9. Ordered'
  BY <1>3, <1>4 DEF Ordered, Result, Refusal
<1>10. Lives'
  BY <1>1, <1>5 DEF Order, Lives
<1>11. QED BY <1>6, <1>7, <1>8, <1>9, <1>10 DEF Order

(* A session that ends while it is held finds only results before it; one  *)
(* whose start was not yet applied finds that report at most.              *)
LEMMA WaitOrder ==
  ASSUME TypeOK, UiConsistent, Order, NEW s \in Sessions, WaitReturns(s)
  PROVE  Order'
<1>1. /\ worker[s] = "wait" /\ life[s] = "done" /\ Enqueue("stopped", s)
      /\ worker' = [worker EXCEPT ![s] = "over"]
      /\ UNCHANGED <<session, starting, life>>
  BY DEF WaitReturns, uiVars, sessionVars
<1>2. \A t \in Sessions : Active(t) => t = s
  BY <1>1 DEF Order, Lone, Active
<1>3. starting \/ session = s
  BY <1>1 DEF Order, Quiet, Held, Active
<1>4. starting => session = None
  BY DEF UiConsistent
<1>5. \A i \in DOMAIN updates :
        \/ Result(updates[i])
        \/ starting /\ updates[i].what = "session" /\ updates[i].id = s
  <2>1. CASE starting
    <3>1. Active(s)
      BY <1>1 DEF Active
    <3>2. QED BY <2>1, <3>1 DEF Order, Started, Result
  <2>2. CASE session = s
    <3>1. session # None
      BY <2>2, GuiAssumption
    <3>2. \A i \in DOMAIN updates :
            Result(updates[i]) \/ (updates[i].what = "stopped" /\ updates[i].id = s)
      BY <2>2, <3>1 DEF Order, Held
    <3>3. \A i \in DOMAIN updates : updates[i].what = "stopped" => worker[updates[i].id] = "over"
      BY DEF Order, Truth
    <3>4. QED BY <1>1, <3>2, <3>3 DEF Result
  <2>3. QED BY <1>3, <2>1, <2>2
<1>6. /\ Len(updates) \in Nat /\ DOMAIN updates = 1 .. Len(updates)
      /\ \A i \in DOMAIN updates' :
           \/ i \in DOMAIN updates /\ updates'[i] = updates[i]
           \/ i = Len(updates) + 1 /\ updates'[i] = [what |-> "stopped", id |-> s]
  BY <1>1, EnqueueAdds DEF Update
<1>7. \A i \in DOMAIN updates' :
        \/ /\ i \in 1 .. Len(updates)
           /\ \/ Result(updates'[i])
              \/ starting /\ updates'[i].what = "session" /\ updates'[i].id = s
        \/ i = Len(updates) + 1 /\ updates'[i].what = "stopped" /\ updates'[i].id = s
  BY <1>5, <1>6 DEF Result
<1>8. \A t \in Sessions : worker'[t] = IF t = s THEN "over" ELSE worker[t]
  BY <1>1 DEF TypeOK
<1>9. Quiet' /\ Refusals'
  BY <1>1, <1>3, <1>7, GuiAssumption DEF Quiet, Refusals, Result, Refusal
<1>10. Held'
  BY <1>1, <1>2, <1>3, <1>4, <1>7, <1>8 DEF Held, Active, Result
<1>11. Lone' /\ Started'
  BY <1>2, <1>8 DEF Lone, Started, Active
<1>12. Truth'
  BY <1>1, <1>7, <1>8 DEF Truth, Result
<1>13. Ordered'
  <2>1. \A i, j \in DOMAIN updates : i < j /\ updates[i].what = "session" => Result(updates[j])
    BY <1>5 DEF Order, Ordered, Result, Refusal
  <2>2. QED BY <1>5, <1>6, <1>7, <2>1 DEF Ordered, Result, Refusal
<1>14. Lives'
  BY <1>1, <1>8 DEF Order, Lives
<1>15. QED BY <1>9, <1>10, <1>11, <1>12, <1>13, <1>14 DEF Order

LEMMA EndsOrder ==
  ASSUME TypeOK, Order, NEW s \in Sessions, SessionEnds(s)
  PROVE  Order'
<1>1. /\ life' = [life EXCEPT ![s] = "done"]
      /\ UNCHANGED <<session, starting, form, frame, updates, worker>>
  BY DEF SessionEnds, uiVars, sessionVars
<1>2. \A t \in Sessions : life'[t] = IF t = s THEN "done" ELSE life[t]
  BY <1>1 DEF TypeOK
<1>3. Quiet' /\ Refusals' /\ Lone' /\ Started'
  BY <1>1 DEF Order, Quiet, Refusals, Lone, Started, Active, Result, Refusal
<1>4. Held' /\ Ordered'
  BY <1>1 DEF Order, Held, Ordered, Active, Result, Refusal
<1>5. Truth'
  BY <1>1 DEF Order, Truth, TypeOK
<1>6. Lives'
  BY <1>1, <1>2 DEF Order, Lives
<1>7. QED BY <1>3, <1>4, <1>5, <1>6 DEF Order

LEMMA TaskOrder ==
  ASSUME TypeOK, Order, NEW t \in Tasks, TaskReturns(t)
  PROVE  Order'
<1>1. Enqueue("result", None) /\ UNCHANGED <<session, starting, form, frame, worker, life>>
  BY DEF TaskReturns, uiVars, sessionVars, workVars
<1>2. /\ Len(updates) \in Nat /\ DOMAIN updates = 1 .. Len(updates)
      /\ \A i \in DOMAIN updates' :
           \/ i \in DOMAIN updates /\ updates'[i] = updates[i]
           \/ i = Len(updates) + 1 /\ updates'[i] = [what |-> "result", id |-> None]
  BY <1>1, EnqueueAdds DEF Update
<1>3. \A i \in DOMAIN updates' :
        \/ i \in DOMAIN updates /\ updates'[i] = updates[i]
        \/ i = Len(updates) + 1 /\ updates'[i].what = "result"
  BY <1>2
<1>4. Quiet' /\ Refusals' /\ Lone'
  BY <1>1, <1>3 DEF Order, Quiet, Refusals, Lone, Active, Result, Refusal
<1>5. Started' /\ Held'
  BY <1>1, <1>3 DEF Order, Started, Held, Active, Result
<1>6. Truth' /\ Lives'
  BY <1>1, <1>3 DEF Order, Truth, Lives
<1>7. Ordered'
  BY <1>2, <1>3 DEF Order, Ordered, Result, Refusal
<1>8. QED BY <1>4, <1>5, <1>6, <1>7 DEF Order

LEMMA OrderKept == IInv /\ [Next]_vars => Order'
<1> SUFFICES ASSUME TypeOK, UiConsistent, Order, [Next]_vars PROVE Order'
  BY DEF IInv
<1>1. CASE UNCHANGED vars
  <2>1. UNCHANGED <<session, starting, form, frame, updates, worker, life>>
    BY <1>1 DEF vars, uiVars, sessionVars, workVars
  <2>2. Refusals'
    BY <2>1 DEF Order, Refusals, Refusal
  <2>3. QED BY <2>1, <2>2, Still DEF Order
<1>2. CASE Idle \/ ClickRequest \/ ClickPing
  BY <1>2, IdleOrder
<1>3. CASE ClickStartRefused \/ ClickStart \/ ClickStop
  BY <1>3, RefusedOrder, StartOrder, StopOrder
<1>4. CASE Applies
  BY <1>4, ErrorOrder, SessionOrder, StoppedOrder, ResultOrder DEF Applies
<1>5. CASE Background
  BY <1>5, SucceedsOrder, FailsOrder, WaitOrder, EndsOrder, TaskOrder DEF Background
<1>6. QED BY <1>1, <1>2, <1>3, <1>4, <1>5 DEF Next, Clicks, Apply, Applies, Idle

LEMMA GuiInvariant == Spec => []IInv
<1>1. IInv /\ [Next]_vars => IInv'
  BY TypesKept, UiKept, OrderKept DEF IInv
<1>2. QED BY IInvInit, <1>1, PTL DEF Spec
-----------------------------------------------------------------------------
(* Every variable of the window keeps its type, and the channel never      *)
(* holds more than it has room for.                                        *)
THEOREM GuiTypeCorrect == Spec => []TypeOK
<1>1. IInv => TypeOK
  BY DEF IInv
<1>2. QED BY GuiInvariant, <1>1, PTL

(* What the user sees agrees with itself, however many updates enqueue     *)
(* drops: running exactly while a session is held, stopping only one that  *)
(* was cancelled, the VPN tools only for the session that is held.         *)
THEOREM UiIsConsistent == Spec => []UiConsistent
<1>1. IInv => UiConsistent
  BY DEF IInv
<1>2. QED BY GuiInvariant, <1>1, PTL

(* Whatever is clicked, and whatever reports are dropped or arrive late,   *)
(* Start never makes a second session beside one that starts or runs.      *)
THEOREM OneSession == Spec => []AtMostOneSession
<1>1. IInv => AtMostOneSession
  BY DEF IInv, Order, Lone, Lives, Active, AtMostOneSession
<1>2. QED BY GuiInvariant, <1>1, PTL

(* applyUpdates never makes the GUI let go of a session that runs: no      *)
(* stale error or stopped report is in the channel while a session is held.*)
THEOREM LiveIsKept == Spec => NeverForgetsLive
<1>1. ASSUME IInv, [Next]_vars
      PROVE  [\A s \in Sessions : session = s /\ session' # s => life[s] = "done"]_vars
  <2> SUFFICES ASSUME NEW s \in Sessions, session = s, session' # s
               PROVE  life[s] = "done"
    OBVIOUS
  <2>0. TypeOK /\ Order /\ session # None
    BY <1>1, GuiAssumption DEF IInv
  <2>1. CASE ApplyError \/ ApplySession
    <3>1. 1 \in DOMAIN updates /\ updates[1].what \in {"error", "session"}
      BY <2>0, <2>1, ApplyTakes DEF ApplyError, ApplySession
    <3>2. QED BY <2>0, <3>1 DEF Order, Held, Result
  <2>2. CASE ApplyStopped
    <3>1. 1 \in DOMAIN updates /\ updates[1].what = "stopped"
      BY <2>0, <2>2, ApplyTakes DEF ApplyStopped
    <3>2. updates[1].id = session
      BY <2>0, <3>1 DEF Order, Held, Result
    <3>3. QED BY <2>0, <3>1, <3>2 DEF Order, Truth
  <2>3. CASE UNCHANGED session
    BY <2>3
  <2>4. QED
    <3>1. Idle \/ Clicks \/ ApplyResult \/ Background \/ UNCHANGED vars => UNCHANGED session
      BY DEF Idle, NextFrameStep, ApplyDone, Exit, Destroy, ChangeForm, Clicks, ClickStartRefused,
             ClickStart, ClickStop, ClickRequest, ClickPing, ApplyResult, Background, StartSucceeds,
             StartFails, WaitReturns, SessionEnds, TaskReturns, vars, uiVars, sessionVars
    <3>2. QED BY <1>1, <2>1, <2>2, <2>3, <3>1 DEF Next, Apply, Idle
<1>2. QED BY GuiInvariant, <1>1, PTL DEF Spec, NeverForgetsLive
=============================================================================
