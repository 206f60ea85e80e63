-------------------------------- MODULE Logs --------------------------------
(***************************************************************************)
(* The log lists of the apps.  In the GUI (gui/main.go) threads log        *)
(* through teeLogger, first to stdout, then to the logBuffer of the        *)
(* window, or straight to the buffer; the buffer asks the window for a     *)
(* frame, and a frame draws a snapshot.  In the mobile clients             *)
(* (mobilelib/client.go, android_client.go) every line goes to one list,   *)
(* blank lines are dropped, and the app asks for the list when it likes.   *)
(*                                                                         *)
(* A line is known by the call that made it, <<thread, number>>.  A        *)
(* critical section is one step.                                           *)
(***************************************************************************)
EXTENDS Naturals, Sequences

CONSTANTS Threads,
          Limit,   \* lines that are kept: 600, or maxLogLines
          MaxCalls \* bound: calls of a thread

ASSUME LogsAssumption == Limit \in Nat \ {0} /\ MaxCalls \in Nat

VARIABLES
  app,     \* which program this is
  alive,   \* the process has not been ended by a Fatal or a Panic
  pc, call, count, \* per thread: where it is, its call, how many it made
  lines,   \* logBuffer.lines, or Client.logs
  stdout,
  dirty,   \* the window was asked for a frame
  drawing, \* a frame is under way
  drawn,   \* the text on the screen
  kept,    \* history: every line ever added
  before   \* history: per call, the calls that had returned when it began

threads == <<pc, call, count>>
window == <<dirty, drawing, drawn>>
vars == <<app, alive, threads, lines, stdout, window, kept, before>>

CallIds == Threads \X (1 .. MaxCalls)
Calls == [level : {"info", "fatal", "panic"}, blank : BOOLEAN, tee : BOOLEAN]

TypeOK ==
  /\ app \in {"gui", "mobile"} /\ alive \in BOOLEAN
  /\ pc \in [Threads -> {"idle", "stdout", "add", "notify"}]
  /\ call \in [Threads -> Calls] /\ count \in [Threads -> 0 .. MaxCalls]
  /\ lines \in Seq(CallIds) /\ Len(lines) <= Limit
  /\ stdout \in Seq(CallIds) /\ kept \in Seq(CallIds) /\ drawn \in Seq(CallIds)
  /\ dirty \in BOOLEAN /\ drawing \in BOOLEAN
  /\ before \in [CallIds -> SUBSET CallIds]

Init ==
  /\ app \in {"gui", "mobile"} /\ alive = TRUE
  /\ pc = [t \in Threads |-> "idle"]
  /\ call = [t \in Threads |-> [level |-> "info", blank |-> FALSE, tee |-> FALSE]]
  /\ count = [t \in Threads |-> 0]
  /\ lines = <<>> /\ stdout = <<>> /\ kept = <<>> /\ drawn = <<>>
  /\ dirty = TRUE /\ drawing = FALSE
  /\ before = [c \in CallIds |-> {}]

(* The calls that have begun, and those that have returned.                *)
Current(t) == <<t, count[t]>>
Begun == {c \in CallIds : c[2] <= count[c[1]]}
Returned == {c \in Begun : c = Current(c[1]) => pc[c[1]] = "idle"}

LastOf(s) == IF Len(s) > Limit THEN SubSeq(s, Len(s) - Limit + 1, Len(s)) ELSE s
-----------------------------------------------------------------------------
(* Only the GUI's session threads have two targets.                        *)
Begin(t) ==
  /\ alive /\ pc[t] = "idle" /\ count[t] < MaxCalls
  /\ \E c \in Calls :
       /\ c.tee => app = "gui"
       /\ c.level # "info" => c.tee \/ app = "mobile"
       /\ call' = [call EXCEPT ![t] = c]
       /\ pc' = [pc EXCEPT ![t] = IF c.tee THEN "stdout" ELSE "add"]
  /\ count' = [count EXCEPT ![t] = @ + 1]
  /\ before' = [before EXCEPT ![<<t, count[t] + 1>>] = Returned]
  /\ UNCHANGED <<app, alive, lines, stdout, window, kept>>

(* The standard logger writes the line; its Fatal exits, its Panic panics, *)
(* and the second target is never asked.                                   *)
Stdout(t) ==
  /\ alive /\ pc[t] = "stdout"
  /\ stdout' = Append(stdout, Current(t))
  /\ alive' = (call[t].level = "info")
  /\ pc' = [pc EXCEPT ![t] = "add"]
  /\ UNCHANGED <<app, call, count, lines, window, kept, before>>

Dropped(t) == app = "mobile" /\ call[t].blank

(* The lock: the list becomes longer, and is cut.                          *)
AddAs(t, longer) ==
  /\ alive /\ pc[t] = "add"
  /\ lines' = IF Dropped(t) THEN lines ELSE longer
  /\ kept' = IF Dropped(t) THEN kept ELSE Append(kept, Current(t))
  /\ pc' = [pc EXCEPT ![t] = IF app = "gui" THEN "notify" ELSE "idle"]
  /\ UNCHANGED <<app, alive, call, count, stdout, window, before>>

(* The mutants: a full list is cut as if it were longer than the limit; the *)
(* newest line is put at the front.                                        *)
Add_CutsEarly(t) ==
  AddAs(t, IF Len(lines) + 1 >= Limit THEN Tail(Append(lines, Current(t)))
           ELSE Append(lines, Current(t)))
Add_Front(t) == AddAs(t, LastOf(<<Current(t)>> \o lines))

Add(t) == AddAs(t, LastOf(Append(lines, Current(t))))

(* The mutant: a frame is asked for only when the screen is empty.         *)
Notify_Once(t) ==
  /\ alive /\ pc[t] = "notify"
  /\ dirty' = (dirty \/ drawn = <<>>)
  /\ pc' = [pc EXCEPT ![t] = "idle"]
  /\ UNCHANGED <<app, alive, call, count, lines, stdout, drawing, drawn, kept, before>>

Notify(t) ==
  /\ alive /\ pc[t] = "notify"
  /\ dirty' = TRUE
  /\ pc' = [pc EXCEPT ![t] = "idle"]
  /\ UNCHANGED <<app, alive, call, count, lines, stdout, drawing, drawn, kept, before>>

FrameBegins ==
  /\ alive /\ app = "gui" /\ dirty /\ ~drawing
  /\ dirty' = FALSE /\ drawing' = TRUE
  /\ UNCHANGED <<app, alive, threads, lines, stdout, drawn, kept, before>>

(* snapshot, of the GUI's frame or behind the mobile Logs().               *)
Snapshot ==
  /\ alive /\ (app = "gui" => drawing)
  /\ drawn' = lines /\ drawing' = FALSE
  /\ UNCHANGED <<app, alive, threads, lines, stdout, dirty, kept, before>>

Next ==
  \/ \E t \in Threads : Begin(t) \/ Stdout(t) \/ Add(t) \/ Notify(t)
  \/ FrameBegins \/ Snapshot

Spec == Init /\ [][Next]_vars

(* The window draws the frames it was asked for, and a call goes on.       *)
FairSpec ==
  /\ Spec
  /\ WF_vars(FrameBegins) /\ WF_vars(Snapshot)
  /\ \A t \in Threads : WF_vars(Stdout(t) \/ Add(t) \/ Notify(t))
-----------------------------------------------------------------------------
(* The list holds the last lines that were added, as many as the limit     *)
(* allows, no matter how many threads add them.                            *)
KeepsLast == lines = LastOf(kept)

In(c, s) == \E i \in DOMAIN s : s[i] = c

(* What a call returned from is in the list or was pushed out of it, and   *)
(* through the tee it is on stdout as well.                                *)
ReturnedIsLogged ==
  \A t \in Threads :
    count[t] > 0 /\ pc[t] = "idle" =>
      /\ Dropped(t) \/ In(Current(t), kept)
      /\ call[t].tee => In(Current(t), stdout)

Ordered(s) == \A i, j \in DOMAIN s : i < j => s[j] \notin before[s[i]]

(* Two lines are in the order of their calls, on the screen and on stdout, *)
(* unless the calls overlapped.                                            *)
RealTimeOrder == Ordered(lines) /\ Ordered(stdout) /\ Ordered(drawn)

(* The window shows the newest lines in the end, also those that were      *)
(* added while a frame was under way.                                      *)
ScreenCatchesUp == (app = "gui" /\ drawn # lines) ~> (drawn = lines \/ ~alive)
=============================================================================
