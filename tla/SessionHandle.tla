---------------------------- MODULE SessionHandle ----------------------------
(***************************************************************************)
(* What every VPN session promises to the code that owns it: the contract  *)
(* behind the interface sessionHandle (Stop, Wait) that the desktop GUI    *)
(* declares and that runner.Session and clientcore.VTunClientSession       *)
(* implement.                                                              *)
(*                                                                         *)
(* A session is being started; then it is up, or the start has failed (or  *)
(* has taken the whole process down).  It may be cancelled at any moment,  *)
(* before it is up too, by Stop or through the parent context.  It gives   *)
(* its resources up only when it is cancelled, and Wait returns only when  *)
(* nothing is held any more.                                               *)
(***************************************************************************)

VARIABLES
  phase,       \* where the session is in its life
  cancelled,   \* its context has been cancelled
  held         \* it holds an open resource or a running goroutine

vars == <<phase, cancelled, held>>

TypeOK ==
  /\ phase \in {"starting", "up", "failed", "crashed", "done"}
  /\ cancelled \in BOOLEAN
  /\ held \in BOOLEAN

Init ==
  /\ phase = "starting"
  /\ cancelled = FALSE
  /\ held = FALSE

(* A step of the start that takes a resource.                              *)
Acquire ==
  /\ phase = "starting"
  /\ held' = TRUE
  /\ UNCHANGED <<phase, cancelled>>

(* The start succeeds: the caller gets a handle to a live session.         *)
StartOk ==
  /\ phase = "starting"
  /\ phase' = "up"
  /\ held' = TRUE
  /\ UNCHANGED cancelled

(* The start fails: nothing the session owned is held any longer.          *)
StartFail ==
  /\ phase = "starting"
  /\ phase' = "failed"
  /\ held' = FALSE
  /\ cancelled' \in {cancelled, TRUE}

(* The start panics in a goroutine nobody recovers.                        *)
StartCrash ==
  /\ phase = "starting"
  /\ phase' = "crashed"
  /\ held' = FALSE
  /\ UNCHANGED cancelled

Cancel ==
  /\ phase \in {"starting", "up"}
  /\ cancelled' = TRUE
  /\ UNCHANGED <<phase, held>>

Release ==
  /\ cancelled
  /\ phase \in {"starting", "up"}
  /\ held' = FALSE
  /\ UNCHANGED <<phase, cancelled>>

(* Wait returns.                                                           *)
Finish ==
  /\ phase = "up"
  /\ cancelled
  /\ ~held
  /\ phase' = "done"
  /\ UNCHANGED <<cancelled, held>>

Next ==
  \/ Acquire \/ StartOk \/ StartFail \/ StartCrash
  \/ Cancel \/ Release \/ Finish

Spec == Init /\ [][Next]_vars

(* Stop is answered: a live session that is cancelled is done at last, so  *)
(* no caller of Wait blocks for ever.                                      *)
StopIsAnswered == (phase = "up" /\ cancelled) ~> (phase = "done")
=============================================================================
