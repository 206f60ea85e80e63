------------------------------ MODULE VTunCalls ------------------------------
(***************************************************************************)
(* DoRequest and Ping of one VTunClientSession (clientcore/vtun_client.go):*)
(* any number of calls at once, on a session that may be closed under them *)
(* and over a tunnel that loses, delays and repeats what it carries.       *)
(*                                                                         *)
(* Of the vtun the model takes that a ping socket has an ICMP identifier   *)
(* no other open one has, gets the answers that carry it, and that the     *)
(* identifier of a closed one may be given again.  A message of the        *)
(* network is kept for good: it may arrive late, again, or never.  An      *)
(* answer of kind "other" is anything but the echo: another type, another  *)
(* payload, or nothing that parses.                                        *)
(***************************************************************************)
EXTENDS Integers, FiniteSets

CONSTANTS
  Pings, Requests,  \* calls of Ping and of DoRequest
  Idents,           \* ICMP identifiers
  SeqMod,           \* sequence numbers on the wire: 2^16
  None              \* no identifier, no number, no message

ASSUME CallsAssumption ==
  /\ SeqMod \in Nat \ {0}
  /\ None \notin Idents /\ None \notin Int

VARIABLES
  open,      \* the session's vtun is open
  pingSeq,   \* the session's counter
  ping,      \* per Ping: where it is
  ctxTimed,  \* per call: its context has a deadline
  timed,     \* per Ping: the deadline of its socket is set
  sock,      \* per Ping: the identifier of its open socket
  used,      \* history: the identifier it had
  seq,       \* per Ping: its number
  inbox,     \* per Ping: the first message its socket has received
  answer,    \* per Ping: the message it reports
  net,       \* messages of the network
  req,       \* per DoRequest: where it is
  served,    \* the requests a server has answered
  body       \* the responses whose body is open

socket == <<timed, sock, used, seq, inbox>>
pingVars == <<pingSeq, ping, socket, answer>>
reqVars == <<req, served, body>>
vars == <<open, pingVars, ctxTimed, net, reqVars>>

Messages ==
  [kind : {"echo", "reply", "other"}, ident : Idents, seq : 0 .. SeqMod - 1, of : Pings]

TypeOK ==
  /\ open \in BOOLEAN /\ pingSeq \in Nat
  /\ ping \in [Pings -> {"idle", "dialled", "counted", "armed", "sent", "ok", "failed"}]
  /\ ctxTimed \in [Pings \cup Requests -> BOOLEAN]
  /\ timed \in [Pings -> BOOLEAN]
  /\ sock \in [Pings -> Idents \cup {None}] /\ used \in [Pings -> Idents \cup {None}]
  /\ seq \in [Pings -> Nat \cup {None}]
  /\ inbox \in [Pings -> Messages \cup {None}] /\ answer \in [Pings -> Messages \cup {None}]
  /\ net \subseteq Messages
  /\ req \in [Requests -> {"idle", "doing", "reading", "ok", "failed"}]
  /\ served \subseteq Requests /\ body \subseteq Requests

Init ==
  /\ open = TRUE /\ pingSeq = 0
  /\ ping = [p \in Pings |-> "idle"]
  /\ ctxTimed \in [Pings \cup Requests -> BOOLEAN]
  /\ timed = [p \in Pings |-> FALSE]
  /\ sock = [p \in Pings |-> None] /\ used = sock /\ seq = sock
  /\ inbox = sock /\ answer = sock
  /\ net = {}
  /\ req = [r \in Requests |-> "idle"] /\ served = {} /\ body = {}

UnderWay == {"dialled", "counted", "armed", "sent"}
-----------------------------------------------------------------------------
(* Ping.                                                                   *)

(* No session, or no address: nothing has been opened.                     *)
PingRefused(p) ==
  /\ ping[p] = "idle"
  /\ ping' = [ping EXCEPT ![p] = "failed"]
  /\ UNCHANGED <<open, pingSeq, socket, answer, ctxTimed, net, reqVars>>

DialPingAddr(p) ==
  /\ ping[p] = "idle" /\ open
  /\ \E i \in Idents :
       /\ \A q \in Pings : sock[q] # i
       /\ sock' = [sock EXCEPT ![p] = i] /\ used' = [used EXCEPT ![p] = i]
  /\ ping' = [ping EXCEPT ![p] = "dialled"]
  /\ UNCHANGED <<open, pingSeq, timed, seq, inbox, answer, ctxTimed, net, reqVars>>

(* pingSeq.Add: one atomic step.                                           *)
Count(p) ==
  /\ ping[p] = "dialled"
  /\ pingSeq' = pingSeq + 1
  /\ seq' = [seq EXCEPT ![p] = pingSeq + 1]
  /\ ping' = [ping EXCEPT ![p] = "counted"]
  /\ UNCHANGED <<open, timed, sock, used, inbox, answer, ctxTimed, net, reqVars>>

(* The mutant: only a deadline of the context is set.                      *)
SetDeadline_OnlyGiven(p) ==
  /\ ping[p] = "counted" /\ open
  /\ timed' = [timed EXCEPT ![p] = ctxTimed[p]]
  /\ ping' = [ping EXCEPT ![p] = "armed"]
  /\ UNCHANGED <<open, pingSeq, sock, used, seq, inbox, answer, ctxTimed, net, reqVars>>

(* The deadline of the context, or five seconds from now.                  *)
SetDeadline(p) ==
  /\ ping[p] = "counted" /\ open
  /\ timed' = [timed EXCEPT ![p] = TRUE]
  /\ ping' = [ping EXCEPT ![p] = "armed"]
  /\ UNCHANGED <<open, pingSeq, sock, used, seq, inbox, answer, ctxTimed, net, reqVars>>

(* The number is cut to the sixteen bits of the header.                    *)
WriteEcho(p) ==
  /\ ping[p] = "armed" /\ open
  /\ net' = net \cup
       {[kind |-> "echo", ident |-> sock[p], seq |-> seq[p] % SeqMod, of |-> p]}
  /\ ping' = [ping EXCEPT ![p] = "sent"]
  /\ UNCHANGED <<open, pingSeq, socket, answer, ctxTimed, reqVars>>

(* The mutant: the socket is closed only where an answer was read.         *)
CallFails_KeepsSocket(p) ==
  /\ \/ ping[p] \in UnderWay \ {"dialled"} /\ ~open
     \/ ping[p] \in {"armed", "sent"} /\ timed[p]
  /\ ping' = [ping EXCEPT ![p] = "failed"]
  /\ UNCHANGED <<open, pingSeq, socket, answer, ctxTimed, net, reqVars>>

(* SetDeadline, Write or Read fails: the vtun is closed or time is up.     *)
CallFails(p) ==
  /\ \/ ping[p] \in UnderWay \ {"dialled"} /\ ~open
     \/ ping[p] \in {"armed", "sent"} /\ timed[p]
  /\ ping' = [ping EXCEPT ![p] = "failed"]
  /\ sock' = [sock EXCEPT ![p] = None]
  /\ UNCHANGED <<open, pingSeq, timed, used, seq, inbox, answer, ctxTimed, net, reqVars>>

(* The mutant: any message with the payload will do, as the echo that is   *)
(* quoted by an unreachable host has it.                                   *)
ReadReply_AnyType(p) ==
  /\ ping[p] = "sent" /\ inbox[p] # None
  /\ ping' = [ping EXCEPT ![p] = "ok"]
  /\ answer' = [answer EXCEPT ![p] = inbox[p]]
  /\ sock' = [sock EXCEPT ![p] = None]
  /\ UNCHANGED <<open, pingSeq, timed, used, seq, inbox, ctxTimed, net, reqVars>>

(* One message is read; its type and its payload are checked, its          *)
(* identifier and its number are not.                                      *)
ReadReply(p) ==
  /\ ping[p] = "sent" /\ inbox[p] # None
  /\ \/ /\ inbox[p].kind = "reply"
        /\ ping' = [ping EXCEPT ![p] = "ok"]
        /\ answer' = [answer EXCEPT ![p] = inbox[p]]
     \/ /\ inbox[p].kind # "reply"
        /\ ping' = [ping EXCEPT ![p] = "failed"]
        /\ UNCHANGED answer
  /\ sock' = [sock EXCEPT ![p] = None]
  /\ UNCHANGED <<open, pingSeq, timed, used, seq, inbox, ctxTimed, net, reqVars>>
-----------------------------------------------------------------------------
(* The tunnel and what is behind it; the end of the session.               *)

(* A host, or a router on the way, answers an echo.                        *)
Answer ==
  /\ \E m \in net, kind \in {"reply", "other"} :
       m.kind = "echo" /\ net' = net \cup {[m EXCEPT !.kind = kind]}
  /\ UNCHANGED <<open, pingVars, ctxTimed, reqVars>>

Deliver ==
  /\ open
  /\ \E m \in net, p \in Pings :
       /\ m.kind # "echo" /\ sock[p] = m.ident /\ inbox[p] = None
       /\ inbox' = [inbox EXCEPT ![p] = m]
  /\ UNCHANGED <<open, pingSeq, ping, timed, sock, used, seq, answer, ctxTimed, net, reqVars>>

closeResources ==
  /\ open
  /\ open' = FALSE
  /\ UNCHANGED <<pingVars, ctxTimed, net, reqVars>>

Serve(r) ==
  /\ open /\ req[r] = "doing"
  /\ served' = served \cup {r}
  /\ UNCHANGED <<open, pingVars, ctxTimed, net, req, body>>
-----------------------------------------------------------------------------
(* DoRequest.                                                              *)

(* No session, no URL, a request that cannot be built or a header line     *)
(* without a colon: nothing is sent.                                       *)
RequestRefused(r) ==
  /\ req[r] = "idle"
  /\ req' = [req EXCEPT ![r] = "failed"]
  /\ UNCHANGED <<open, pingVars, ctxTimed, net, served, body>>

DoRequest(r) ==
  /\ req[r] = "idle"
  /\ req' = [req EXCEPT ![r] = "doing"]
  /\ UNCHANGED <<open, pingVars, ctxTimed, net, served, body>>

Response(r) ==
  /\ req[r] = "doing" /\ r \in served
  /\ req' = [req EXCEPT ![r] = "reading"]
  /\ body' = body \cup {r}
  /\ UNCHANGED <<open, pingVars, ctxTimed, net, served>>

(* The deadline ends Do, and ReadAll as well.                              *)
TimesOut(r) ==
  /\ req[r] \in {"doing", "reading"} /\ ctxTimed[r]
  /\ req' = [req EXCEPT ![r] = "failed"]
  /\ body' = body \ {r}
  /\ UNCHANGED <<open, pingVars, ctxTimed, net, served>>

DoFails(r) ==
  /\ req[r] = "doing"
  /\ req' = [req EXCEPT ![r] = "failed"]
  /\ UNCHANGED <<open, pingVars, ctxTimed, net, served, body>>

ReadAll(r) ==
  /\ req[r] = "reading"
  /\ \E end \in {"ok", "failed"} : req' = [req EXCEPT ![r] = end]
  /\ body' = body \ {r}
  /\ UNCHANGED <<open, pingVars, ctxTimed, net, served>>
-----------------------------------------------------------------------------
PingSteps(p) ==
  Count(p) \/ SetDeadline(p) \/ WriteEcho(p) \/ CallFails(p) \/ ReadReply(p)

Next ==
  \/ Answer \/ Deliver \/ closeResources
  \/ \E p \in Pings : PingRefused(p) \/ DialPingAddr(p) \/ PingSteps(p)
  \/ \E r \in Requests :
       \/ RequestRefused(r) \/ DoRequest(r) \/ Serve(r) \/ Response(r)
       \/ TimesOut(r) \/ DoFails(r) \/ ReadAll(r)

Spec == Init /\ [][Next]_vars

(* Goroutines run and timers fire; the network owes nobody an answer.      *)
FairSpec ==
  /\ Spec
  /\ \A p \in Pings : WF_vars(PingSteps(p))
  /\ \A r \in Requests : WF_vars(TimesOut(r))
-----------------------------------------------------------------------------
(* A success reports a reply to this ping's own echo.  The exception is an *)
(* identifier that was given again: the reply may be a late one to an      *)
(* earlier ping, as the number in it is not looked at.                     *)
AnswerIsOwn ==
  \A p \in Pings : ping[p] = "ok" =>
    /\ answer[p].kind = "reply"
    /\ \/ answer[p].of = p /\ answer[p].seq = seq[p] % SeqMod
       \/ answer[p].of # p /\ used[answer[p].of] = used[p] /\ seq[answer[p].of] < seq[p]

(* Two pings look the same on the wire only when SeqMod calls lie between  *)
(* them, however the calls interleave.                                     *)
EchoesDiffer ==
  \A p, q \in Pings :
    p # q /\ seq[p] # None /\ seq[q] # None /\ seq[p] % SeqMod = seq[q] % SeqMod
      => seq[p] - seq[q] >= SeqMod \/ seq[q] - seq[p] >= SeqMod

(* A call that has returned, whichever way, holds nothing: no ping socket  *)
(* and no response body.                                                   *)
ReturnedHoldsNothing ==
  /\ \A p \in Pings : sock[p] # None => ping[p] \in UnderWay
  /\ \A r \in body : req[r] = "reading"

(* Every ping comes back, also one whose caller set no deadline and whose  *)
(* answer was lost.                                                        *)
PingEnds == \A p \in Pings : ping[p] \in UnderWay ~> ping[p] \in {"ok", "failed"}

(* A request whose caller set a deadline comes back; one without may not.  *)
TimedRequestEnds ==
  \A r \in Requests :
    req[r] \in {"doing", "reading"} /\ ctxTimed[r] ~> req[r] \in {"ok", "failed"}

(* What has a time limit, of its own or its caller's, comes back.          *)
CallsReturn == PingEnds /\ TimedRequestEnds
=============================================================================
