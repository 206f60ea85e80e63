---------------------------- MODULE TunnelProofs ----------------------------
(***************************************************************************)
(* What is done over a client's tunnel (VTunCalls), and what Android does  *)
(* with tunnels (VpnService), for any number of calls and of clicks.       *)
(*                                                                         *)
(* Ping, for any identifiers and any width of the sequence number: an      *)
(* identifier that is used twice was given back in between, so that the    *)
(* number of the older ping is the smaller one (Order); every message in   *)
(* the network or in a socket was sent by the ping it names (Sent), and a  *)
(* socket receives only its own messages or those of an older ping with    *)
(* its identifier (Mine).                                                  *)
(*                                                                         *)
(* The service: what is destroyed is destroyed ahead of any message to the *)
(* next instance (Successive), so that, as long as no coroutine has met    *)
(* another, at most one caller is about to touch clients (OneBusy), it     *)
(* runs in the instance that holds the one client there is (OneClient),    *)
(* and that instance is served, or ended, before any other (InUseFirst).   *)
(***************************************************************************)
EXTENDS VTunCalls, VpnService, SequenceTheorems, FiniteSetTheorems, TLAPS


Idle(p) == used[p] = None /\ seq[p] = None /\ inbox[p] = None

Sockets == \A p \in Pings :
  /\ sock[p] # None => ping[p] \in UnderWay /\ used[p] = sock[p]
  /\ ping[p] \in UnderWay => sock[p] # None
  /\ ping[p] = "idle" => Idle(p)

Alone == \A p, q \in Pings : p # q /\ sock[p] # None => sock[q] # sock[p]

Numbers == \A p \in Pings :
  /\ seq[p] # None => seq[p] <= pingSeq
  /\ ping[p] = "dialled" => seq[p] = None
  /\ ping[p] \in {"counted", "armed", "sent", "ok"} => seq[p] # None

Distinct == \A p, q \in Pings : p # q /\ seq[p] # None => seq[q] # seq[p]

Order == \A p, q \in Pings :
  p # q /\ sock[p] # None /\ used[q] = sock[p] /\ seq[p] # None /\ seq[q] # None
    => seq[q] < seq[p]

Sent(m) == seq[m.of] # None /\ m.ident = used[m.of] /\ m.seq = seq[m.of] % SeqMod

Mine(m, p) ==
  m.of = p \/ (used[m.of] = used[p] /\ (seq[p] # None => seq[m.of] < seq[p]))

Carried == \A m \in net : Sent(m)

Inboxes == \A p \in Pings :
  inbox[p] # None => inbox[p].kind # "echo" /\ Sent(inbox[p]) /\ Mine(inbox[p], p)

Answers == \A p \in Pings :
  ping[p] = "ok" =>
    /\ answer[p] \in Messages /\ answer[p].kind = "reply"
    /\ Sent(answer[p]) /\ Mine(answer[p], p)

Bodies == \A r \in body : req[r] = "reading"

IInv ==
  /\ TypeOK
  /\ Sockets /\ Alone /\ Numbers /\ Distinct /\ Order
  /\ Carried /\ Inboxes /\ Answers /\ Bodies

LEMMA IInvInit == Init => IInv
<1> SUFFICES ASSUME Init PROVE IInv
  OBVIOUS
<1>1. TypeOK
  <2>1. /\ ping \in [Pings -> {"idle", "dialled", "counted", "armed", "sent", "ok", "failed"}]
        /\ req \in [Requests -> {"idle", "doing", "reading", "ok", "failed"}]
        /\ timed \in [Pings -> BOOLEAN] /\ ctxTimed \in [Pings \cup Requests -> BOOLEAN]
    BY DEF Init
  <2>2. /\ sock \in [Pings -> Idents \cup {None}] /\ used \in [Pings -> Idents \cup {None}]
        /\ seq \in [Pings -> Nat \cup {None}]
        /\ inbox \in [Pings -> Messages \cup {None}] /\ answer \in [Pings -> Messages \cup {None}]
    BY DEF Init
  <2>3. open \in BOOLEAN /\ pingSeq \in Nat /\ net \subseteq Messages
        /\ served \subseteq Requests /\ body \subseteq Requests
    BY DEF Init
  <2>4. QED BY <2>1, <2>2, <2>3 DEF TypeOK
<1>2. Sockets /\ Alone /\ Numbers /\ Distinct /\ Order
  BY DEF Init, Sockets, Alone, Numbers, Distinct, Order, Idle, UnderWay
<1>3. Carried /\ Inboxes /\ Answers /\ Bodies
  BY DEF Init, Carried, Inboxes, Answers, Bodies
<1>4. QED BY <1>1, <1>2, <1>3 DEF IInv

(* Steps that open or close no socket, count nothing and carry nothing.    *)
Still == UNCHANGED <<sock, used, seq, pingSeq, inbox, answer, net>>

LEMMA TypeStep == IInv /\ [Next]_vars => TypeOK'
<1> SUFFICES ASSUME IInv, [Next]_vars PROVE TypeOK'
  OBVIOUS
<1>0. TypeOK /\ Sockets /\ Numbers
  BY DEF IInv
<1>1. CASE UNCHANGED vars
  BY <1>0, <1>1 DEF TypeOK, vars, pingVars, socket, reqVars
<1>2. ASSUME NEW p \in Pings, PingRefused(p) PROVE TypeOK'
  BY <1>0, <1>2 DEF TypeOK, PingRefused, socket, reqVars
<1>3. ASSUME NEW p \in Pings, DialPingAddr(p) PROVE TypeOK'
  BY <1>0, <1>3 DEF TypeOK, DialPingAddr, reqVars
<1>4. ASSUME NEW p \in Pings, Count(p) PROVE TypeOK'
  BY <1>0, <1>4 DEF TypeOK, Count, reqVars
<1>5. ASSUME NEW p \in Pings, SetDeadline(p) PROVE TypeOK'
  BY <1>0, <1>5 DEF TypeOK, SetDeadline, reqVars
<1>6. ASSUME NEW p \in Pings, WriteEcho(p) PROVE TypeOK'
  <2>1. sock[p] \in Idents /\ seq[p] \in Nat
    BY <1>0, <1>6 DEF TypeOK, Sockets, Numbers, WriteEcho, UnderWay
  <2>2. seq[p] % SeqMod \in 0 .. SeqMod - 1
    BY <2>1, CallsAssumption
  <2>3. net' \subseteq Messages
    BY <1>0, <1>6, <2>1, <2>2 DEF TypeOK, WriteEcho, Messages
  <2>4. QED BY <1>0, <1>6, <2>3 DEF TypeOK, WriteEcho, socket, reqVars
<1>7. ASSUME NEW p \in Pings, CallFails(p) PROVE TypeOK'
  BY <1>0, <1>7 DEF TypeOK, CallFails, reqVars
<1>8. ASSUME NEW p \in Pings, ReadReply(p) PROVE TypeOK'
  BY <1>0, <1>8 DEF TypeOK, ReadReply, reqVars
<1>9. CASE Answer
  BY <1>0, <1>9 DEF TypeOK, Answer, Messages, pingVars, socket, reqVars
<1>10. CASE Deliver
  BY <1>0, <1>10 DEF TypeOK, Deliver, reqVars
<1>11. CASE closeResources
  BY <1>0, <1>11 DEF TypeOK, closeResources, pingVars, socket, reqVars
<1>12. ASSUME NEW r \in Requests,
              \/ RequestRefused(r) \/ DoRequest(r) \/ Serve(r) \/ Response(r)
              \/ TimesOut(r) \/ DoFails(r) \/ ReadAll(r)
       PROVE  TypeOK'
  BY <1>0, <1>12 DEF TypeOK, RequestRefused, DoRequest, Serve, Response, TimesOut, DoFails,
                     ReadAll, pingVars, socket
<1>13. QED BY <1>1, <1>2, <1>3, <1>4, <1>5, <1>6, <1>7, <1>8, <1>9, <1>10, <1>11, <1>12
           DEF Next, PingSteps

(* A new socket: its identifier is nobody's, and its ping is new.          *)
LEMMA DialStep ==
  ASSUME IInv, NEW p \in Pings, DialPingAddr(p)
  PROVE  /\ Sockets' /\ Alone' /\ Numbers' /\ Distinct' /\ Order'
         /\ Carried' /\ Inboxes' /\ Answers' /\ Bodies'
<1>0. TypeOK /\ Sockets /\ Numbers
  BY DEF IInv
<1>1. PICK i \in Idents : /\ \A q \in Pings : sock[q] # i
                         /\ sock' = [sock EXCEPT ![p] = i] /\ used' = [used EXCEPT ![p] = i]
  BY DEF DialPingAddr
<1>2. /\ ping[p] = "idle" /\ Idle(p)
      /\ UNCHANGED <<seq, pingSeq, inbox, answer, net, req, body>>
      /\ ping' = [ping EXCEPT ![p] = "dialled"]
  BY <1>0 DEF DialPingAddr, Sockets, reqVars
<1>3. /\ \A q \in Pings \ {p} : sock'[q] = sock[q] /\ used'[q] = used[q] /\ ping'[q] = ping[q]
      /\ sock'[p] = i /\ used'[p] = i /\ ping'[p] = "dialled" /\ i # None
      /\ \A q \in Pings : Idle(q) => seq[q] = None
  BY <1>0, <1>1, <1>2, CallsAssumption DEF TypeOK, Idle
<1>4. Sockets'
  BY <1>0, <1>2, <1>3 DEF IInv, Sockets, Idle, UnderWay
<1>5. Alone'
  BY <1>1, <1>3 DEF IInv, Alone
<1>6. Numbers' /\ Distinct'
  BY <1>2, <1>3 DEF IInv, Numbers, Distinct, Idle
<1>7. Order'
  BY <1>1, <1>2, <1>3 DEF IInv, Order, Idle
<1>8. ASSUME NEW m \in Messages, Sent(m) PROVE Sent(m)' /\ m.of # p
  BY <1>2, <1>3, <1>8 DEF Sent, Messages, Idle
<1>9. Carried'
  BY <1>0, <1>2, <1>8 DEF IInv, Carried, TypeOK
<1>10. Inboxes'
  BY <1>0, <1>2, <1>3, <1>8 DEF IInv, Inboxes, TypeOK, Idle, Mine, Messages
<1>11. Answers'
  BY <1>0, <1>2, <1>3, <1>8 DEF IInv, Answers, Mine, Messages
<1>12. Bodies'
  BY <1>2 DEF IInv, Bodies
<1>13. QED BY <1>4, <1>5, <1>6, <1>7, <1>9, <1>10, <1>11, <1>12

(* A new number: it is larger than any other.                              *)
LEMMA CountStep ==
  ASSUME IInv, NEW p \in Pings, Count(p)
  PROVE  /\ Sockets' /\ Alone' /\ Numbers' /\ Distinct' /\ Order'
         /\ Carried' /\ Inboxes' /\ Answers' /\ Bodies'
<1>0. TypeOK /\ Sockets /\ Alone /\ Numbers
  BY DEF IInv
<1>1. /\ ping[p] = "dialled" /\ seq[p] = None /\ sock[p] # None /\ used[p] = sock[p]
      /\ UNCHANGED <<sock, used, inbox, answer, net, req, body>>
      /\ ping' = [ping EXCEPT ![p] = "counted"] /\ pingSeq' = pingSeq + 1
      /\ seq' = [seq EXCEPT ![p] = pingSeq + 1]
  BY <1>0 DEF Count, Sockets, Numbers, UnderWay, reqVars
<1>2. /\ \A q \in Pings \ {p} : seq'[q] = seq[q] /\ ping'[q] = ping[q]
      /\ seq'[p] = pingSeq + 1 /\ ping'[p] = "counted" /\ pingSeq \in Nat
      /\ pingSeq + 1 # None
      /\ \A q \in Pings : seq[q] # None => seq[q] \in Nat /\ seq[q] <= pingSeq
  BY <1>0, <1>1, CallsAssumption DEF TypeOK, Numbers
<1>3. Sockets' /\ Alone'
  BY <1>0, <1>1, <1>2 DEF Sockets, Alone, Idle, UnderWay
<1>4. Numbers'
  BY <1>0, <1>1, <1>2 DEF Numbers
<1>5. Distinct'
  BY <1>2 DEF IInv, Distinct
<1>6. Order'
  BY <1>0, <1>1, <1>2 DEF IInv, Order, Alone
<1>7. ASSUME NEW m \in Messages, Sent(m) PROVE Sent(m)' /\ m.of # p
  BY <1>1, <1>2, <1>7 DEF Sent, Messages
<1>8. ASSUME NEW m \in Messages, Sent(m), NEW q \in Pings, Mine(m, q) PROVE Mine(m, q)'
  <2>1. m.of \in Pings /\ m.of # p /\ seq'[m.of] = seq[m.of] /\ seq[m.of] # None
    BY <1>2, <1>7, <1>8 DEF Messages, Sent
  <2>2. QED BY <1>1, <1>2, <1>8, <2>1 DEF Mine
<1>9. Carried'
  BY <1>0, <1>1, <1>7 DEF IInv, Carried, TypeOK
<1>10. Inboxes'
  BY <1>0, <1>1, <1>7, <1>8 DEF IInv, Inboxes, TypeOK
<1>11. Answers'
  BY <1>0, <1>1, <1>2, <1>7, <1>8 DEF IInv, Answers
<1>12. Bodies'
  BY <1>1 DEF IInv, Bodies
<1>13. QED BY <1>3, <1>4, <1>5, <1>6, <1>9, <1>10, <1>11, <1>12

(* The echo names its ping and its number.                                 *)
LEMMA EchoStep ==
  ASSUME IInv, NEW p \in Pings, WriteEcho(p)
  PROVE  /\ Sockets' /\ Alone' /\ Numbers' /\ Distinct' /\ Order'
         /\ Carried' /\ Inboxes' /\ Answers' /\ Bodies'
<1> DEFINE e == [kind |-> "echo", ident |-> sock[p], seq |-> seq[p] % SeqMod, of |-> p]
<1>0. TypeOK /\ Sockets /\ Numbers
  BY DEF IInv
<1>1. /\ ping[p] = "armed" /\ net' = net \cup {e}
      /\ UNCHANGED <<sock, used, seq, pingSeq, inbox, answer, req, body>>
      /\ ping' = [ping EXCEPT ![p] = "sent"]
  BY DEF WriteEcho, socket, reqVars
<1>2. Sent(e)
  BY <1>0, <1>1 DEF Sent, Sockets, Numbers, UnderWay
<1>3. Carried'
  BY <1>1, <1>2 DEF IInv, Carried, Sent
<1>4. ping'[p] = "sent" /\ \A q \in Pings \ {p} : ping'[q] = ping[q]
  BY <1>0, <1>1 DEF TypeOK
<1>5. Sockets' /\ Numbers'
  BY <1>0, <1>1, <1>4 DEF Sockets, Numbers, Idle, UnderWay
<1>6. Alone' /\ Distinct' /\ Order' /\ Inboxes' /\ Bodies'
  BY <1>1 DEF IInv, Alone, Distinct, Order, Inboxes, Sent, Mine, Bodies
<1>7. Answers'
  BY <1>1, <1>4 DEF IInv, Answers, Sent, Mine
<1>8. QED BY <1>3, <1>5, <1>6, <1>7

(* A socket is closed.                                                     *)
LEMMA EndStep ==
  ASSUME IInv, NEW p \in Pings, CallFails(p) \/ ReadReply(p)
  PROVE  /\ Sockets' /\ Alone' /\ Numbers' /\ Distinct' /\ Order'
         /\ Carried' /\ Inboxes' /\ Answers' /\ Bodies'
<1>0. TypeOK /\ Sockets /\ Alone /\ Numbers
  BY DEF IInv
<1>1. /\ UNCHANGED <<used, seq, pingSeq, inbox, net, req, body>>
      /\ sock' = [sock EXCEPT ![p] = None]
  BY DEF CallFails, ReadReply, reqVars
<1>2. sock'[p] = None /\ \A q \in Pings \ {p} : sock'[q] = sock[q]
  BY <1>0, <1>1 DEF TypeOK
<1>3. /\ \A q \in Pings \ {p} : ping'[q] = ping[q] /\ answer'[q] = answer[q]
      /\ ping'[p] \in {"ok", "failed"}
      /\ ping'[p] = "ok" => /\ seq[p] # None /\ inbox[p] \in Messages /\ inbox[p] # None
                            /\ inbox[p].kind = "reply" /\ answer'[p] = inbox[p]
  <2>1. CASE CallFails(p)
    BY <1>0, <2>1 DEF CallFails, TypeOK
  <2>2. CASE ReadReply(p)
    BY <1>0, <2>2 DEF ReadReply, TypeOK, Numbers
  <2>3. QED BY <2>1, <2>2
<1>4. Sockets'
  BY <1>0, <1>1, <1>2, <1>3 DEF Sockets, Idle, UnderWay
<1>5. Alone' /\ Order'
  BY <1>1, <1>2 DEF IInv, Alone, Order
<1>6. Numbers' /\ Distinct'
  BY <1>0, <1>1, <1>3 DEF IInv, Numbers, Distinct
<1>7. Carried' /\ Inboxes' /\ Bodies'
  BY <1>1 DEF IInv, Carried, Inboxes, Sent, Mine, Bodies
<1>8. Answers'
  BY <1>1, <1>3 DEF IInv, Inboxes, Answers, Sent, Mine
<1>9. QED BY <1>4, <1>5, <1>6, <1>7, <1>8

(* The network answers, and a socket receives.                             *)
LEMMA NetStep ==
  ASSUME IInv, Answer \/ Deliver
  PROVE  /\ Sockets' /\ Alone' /\ Numbers' /\ Distinct' /\ Order'
         /\ Carried' /\ Inboxes' /\ Answers' /\ Bodies'
<1>0. TypeOK /\ Sockets /\ Order
  BY DEF IInv
<1>1. /\ UNCHANGED <<sock, used, seq, pingSeq, ping, answer, req, body>>
      /\ Alone' /\ Numbers' /\ Distinct' /\ Order' /\ Answers' /\ Bodies'
  <2>1. UNCHANGED <<sock, used, seq, pingSeq, ping, answer, req, body>>
    BY DEF Answer, Deliver, pingVars, socket, reqVars
  <2>2. QED BY <2>1 DEF IInv, Alone, Numbers, Distinct, Order, Answers, Bodies, Sent, Mine
<1>2. CASE Answer
  <2>1. PICK m \in net, k \in {"reply", "other"} : net' = net \cup {[m EXCEPT !.kind = k]}
    BY <1>2 DEF Answer
  <2>2. Sent([m EXCEPT !.kind = k])
    BY <1>0, <2>1 DEF IInv, Carried, Sent, TypeOK, Messages
  <2>3. Carried'
    BY <1>1, <2>1, <2>2 DEF IInv, Carried, Sent
  <2>4. Sockets' /\ Inboxes'
    BY <1>1, <1>2 DEF IInv, Sockets, Idle, Inboxes, Answer, pingVars, socket, Sent, Mine
  <2>5. QED BY <1>1, <2>3, <2>4
<1>3. CASE Deliver
  <2>1. PICK m \in net, p \in Pings :
          /\ m.kind # "echo" /\ sock[p] = m.ident /\ inbox' = [inbox EXCEPT ![p] = m]
    BY <1>3 DEF Deliver
  <2>2. m \in Messages /\ m.of \in Pings /\ m.ident # None /\ Sent(m)
    BY <1>0, CallsAssumption DEF IInv, Carried, TypeOK, Messages
  <2>3. Mine(m, p)
    BY <1>0, <2>1, <2>2 DEF Mine, Sent, Sockets, Order
  <2>4. Inboxes'
    BY <1>0, <1>1, <2>1, <2>2, <2>3 DEF IInv, Inboxes, TypeOK, Sent, Mine
  <2>5. ping[p] # "idle"
    BY <1>0, <2>1, <2>2 DEF Sockets, UnderWay
  <2>6. Sockets'
    BY <1>0, <1>1, <2>1, <2>5 DEF Sockets, TypeOK, Idle
  <2>7. Carried'
    BY <1>1, <1>3 DEF IInv, Carried, Deliver, Sent
  <2>8. QED BY <1>1, <2>4, <2>6, <2>7
<1>4. QED BY <1>2, <1>3

(* The other steps leave sockets, numbers and messages alone.              *)
LEMMA StillStep ==
  ASSUME IInv, Still, UNCHANGED <<req, body>> \/ Bodies',
         \/ UNCHANGED ping
         \/ \E p \in Pings : PingRefused(p) \/ SetDeadline(p)
  PROVE  /\ Sockets' /\ Alone' /\ Numbers' /\ Distinct' /\ Order'
         /\ Carried' /\ Inboxes' /\ Answers' /\ Bodies'
<1>0. TypeOK /\ Sockets /\ Numbers
  BY DEF IInv
<1>1. Alone' /\ Distinct' /\ Order' /\ Carried' /\ Inboxes' /\ Bodies'
  BY DEF IInv, Still, Alone, Distinct, Order, Carried, Inboxes, Bodies, Sent, Mine
<1>2. \A q \in Pings :
        \/ ping'[q] = ping[q]
        \/ ping[q] = "idle" /\ ping'[q] = "failed"
        \/ ping[q] = "counted" /\ ping'[q] = "armed"
  BY <1>0 DEF PingRefused, SetDeadline, TypeOK
<1>3. Sockets' /\ Numbers' /\ Answers'
  <2>1. Sockets'
    BY <1>0, <1>2 DEF Still, Sockets, Idle, UnderWay
  <2>2. Numbers'
    BY <1>0, <1>2 DEF Still, Numbers
  <2>3. Answers'
    BY <1>2 DEF IInv, Still, Answers, Sent, Mine
  <2>4. QED BY <2>1, <2>2, <2>3
<1>4. QED BY <1>1, <1>3

LEMMA IInvStep == IInv /\ [Next]_vars => IInv'
<1> SUFFICES ASSUME IInv, [Next]_vars PROVE IInv'
  OBVIOUS
<1>0. TypeOK'
  BY TypeStep
<1>1. CASE UNCHANGED vars
  BY <1>0, <1>1, StillStep DEF vars, pingVars, socket, reqVars, Still, IInv
<1>2. ASSUME NEW p \in Pings, DialPingAddr(p) PROVE IInv'
  BY <1>0, <1>2, DialStep DEF IInv
<1>3. ASSUME NEW p \in Pings, Count(p) PROVE IInv'
  BY <1>0, <1>3, CountStep DEF IInv
<1>4. ASSUME NEW p \in Pings, WriteEcho(p) PROVE IInv'
  BY <1>0, <1>4, EchoStep DEF IInv
<1>5. ASSUME NEW p \in Pings, CallFails(p) \/ ReadReply(p) PROVE IInv'
  BY <1>0, <1>5, EndStep DEF IInv
<1>6. CASE Answer \/ Deliver
  BY <1>0, <1>6, NetStep DEF IInv
<1>7. ASSUME NEW p \in Pings, PingRefused(p) \/ SetDeadline(p) PROVE IInv'
  <2>1. Still /\ UNCHANGED <<req, body>>
    BY <1>7 DEF PingRefused, SetDeadline, Still, socket, reqVars
  <2>2. QED BY <1>0, <1>7, <2>1, StillStep DEF IInv
<1>8. CASE closeResources
  <2>1. Still /\ UNCHANGED <<req, body, ping>>
    BY <1>8 DEF closeResources, Still, pingVars, socket, reqVars
  <2>2. QED BY <1>0, <2>1, StillStep DEF IInv
<1>9. ASSUME NEW r \in Requests,
             \/ RequestRefused(r) \/ DoRequest(r) \/ Serve(r) \/ Response(r)
             \/ TimesOut(r) \/ DoFails(r) \/ ReadAll(r)
      PROVE  IInv'
  <2>1. Still /\ UNCHANGED ping
    BY <1>9 DEF RequestRefused, DoRequest, Serve, Response, TimesOut, DoFails, ReadAll,
                Still, pingVars, socket
  <2>2. Bodies'
    BY <1>9 DEF IInv, TypeOK, Bodies, RequestRefused, DoRequest, Serve, Response, TimesOut,
                DoFails, ReadAll
  <2>3. QED BY <1>0, <2>1, <2>2, StillStep DEF IInv
<1>10. QED BY <1>1, <1>2, <1>3, <1>4, <1>5, <1>6, <1>7, <1>8, <1>9 DEF Next, PingSteps

LEMMA Inductive == Spec => []IInv
<1>1. QED BY IInvInit, IInvStep, PTL DEF Spec

(* The variables of any number of calls keep their types; every number on  *)
(* the wire fits its field.                                                *)
THEOREM CallsTypeCorrect == Spec => []TypeOK
<1>1. IInv => TypeOK
  BY DEF IInv
<1>2. QED BY <1>1, Inductive, PTL

(* A successful ping reports the reply to its own echo, or a late one to   *)
(* an older ping that had its identifier.                                  *)
THEOREM PingAnswersItself == Spec => []AnswerIsOwn
<1>1. IInv => AnswerIsOwn
  <2> SUFFICES ASSUME IInv, NEW p \in Pings, ping[p] = "ok"
               PROVE  /\ answer[p].kind = "reply"
                      /\ \/ answer[p].of = p /\ answer[p].seq = seq[p] % SeqMod
                         \/ /\ answer[p].of # p /\ used[answer[p].of] = used[p]
                            /\ seq[answer[p].of] < seq[p]
    BY DEF AnswerIsOwn
  <2>1. answer[p].kind = "reply" /\ Sent(answer[p]) /\ Mine(answer[p], p) /\ seq[p] # None
    BY DEF IInv, Answers, Numbers
  <2>2. QED BY <2>1 DEF Sent, Mine
<1>2. QED BY <1>1, Inductive, PTL

(* Whatever ends a call, its socket and its response body are closed.      *)
THEOREM CallsHoldNothing == Spec => []ReturnedHoldsNothing
<1>1. IInv => ReturnedHoldsNothing
  BY DEF IInv, Sockets, Bodies, ReturnedHoldsNothing
<1>2. QED BY <1>1, Inductive, PTL

(* Numbers with the same remainder are a modulus apart.                    *)
LEMMA Apart ==
  ASSUME NEW m \in Nat \ {0}, NEW a \in Nat, NEW b \in Nat, a < b, a % m = b % m
  PROVE  b - a >= m
<1>1. /\ a \div m \in Int /\ b \div m \in Int /\ a % m \in Int
      /\ a = m * (a \div m) + (a % m) /\ b = m * (b \div m) + (b % m)
  <2>1. \A x \in Nat : x \div m \in Int /\ x % m \in Int
    OBVIOUS
  <2>2. \A x \in Nat : x = m * (x \div m) + (x % m)
    OBVIOUS
  <2>3. QED BY <2>1, <2>2
<1> DEFINE k == (b \div m) - (a \div m)
<1>2. k \in Int /\ b - a = m * k
  BY <1>1
<1> HIDE DEF k
<1>3. k > 0
  BY <1>2
<1>4. QED BY <1>2, <1>3

(* Any two pings with one number on the wire are SeqMod calls apart.       *)
THEOREM WireNumbersApart == Spec => []EchoesDiffer
<1>1. IInv => EchoesDiffer
  <2> SUFFICES ASSUME IInv, NEW p \in Pings, NEW q \in Pings, p # q, seq[p] # None,
                      seq[q] # None, seq[p] % SeqMod = seq[q] % SeqMod
               PROVE  seq[p] - seq[q] >= SeqMod \/ seq[q] - seq[p] >= SeqMod
    BY DEF EchoesDiffer
  <2>1. seq[p] \in Nat /\ seq[q] \in Nat /\ seq[p] # seq[q]
    BY DEF IInv, TypeOK, Distinct
  <2>2. CASE seq[p] < seq[q]
    BY <2>1, <2>2, Apart, CallsAssumption
  <2>3. CASE seq[q] < seq[p]
    BY <2>1, <2>3, Apart, CallsAssumption
  <2>4. QED BY <2>1, <2>2, <2>3
<1>2. QED BY <1>1, Inductive, PTL

-----------------------------------------------------------------------------
(* The Android VPN service.                                                *)

Stopping == {"begin", "clear", "take", "nothing", "wait", "cancel"}
Publishing == {"pubRead", "pubIdle", "pubStatus", "pubShow"}
Cleared == {"take", "nothing", "wait", "cancel", "build", "connect", "dial", "assign",
            "catch", "catchAsk", "error", "showIdle", "stopSelf"}

(* A caller that may touch clients and tunnels.                            *)
Busy(c) == IF c = Main THEN pc[Main] \in Stopping ELSE Active(c)

(* Where a caller is says what it holds.                                   *)
Locals ==
  /\ pc[Main] \in Stopping \cup Publishing \cup {"done"}
  /\ pc[Main] # "done" => svc[Main] \in Jobs
  /\ pc[Main] \in Publishing => polling[svc[Main]] /\ svc[Main] \notin gone
  /\ \A j \in Jobs : pc[j] # "cancel" /\ (pc[j] \notin {"unused", "done"} => svc[j] \in Jobs)
  /\ \A c \in Callers :
       pc[c] \in {"take", "nothing", "wait", "pubStatus", "catchAsk"} => my[c] \in Jobs

(* A client that a field or a local variable holds has been assigned.      *)
Handed == Publishing \cup {"poller", "done"}

Assigned ==
  /\ \A i \in Jobs : client[i] # Nobody => pc[client[i]] \in Handed
  /\ \A c \in Callers : my[c] # Nobody => pc[my[c]] \in Handed

Tunnels == \A x \in Jobs :
  /\ session[x] <=> tunnel[x] = "up"
  /\ tunnel[x] = "dialing" <=> pc[x] = "dial"
  /\ pc[x] = "assign" => tunnel[x] = "up"
  /\ pc[x] = "connect" => tunnel[x] = "fd"
  /\ pc[x] \in {"unused", "sent", "begin", "clear", "take", "nothing", "wait", "build"} =>
       tunnel[x] = "none"
  /\ tunnel[x] = "stopped" => \E c \in Callers : pc[c] = "wait" /\ my[c] = x
-----------------------------------------------------------------------------
(* The looper.                                                             *)

Destroyed(i, k) == looper[k].what = "destroy" /\ looper[k].to = i
Ending(i) == pc[Main] \in Stopping /\ svc[Main] = i
NoMessage(i) == i # rec /\ \A k \in DOMAIN looper : looper[k].to # i

Intents ==
  /\ \A k \in DOMAIN looper : looper[k].what = "intent" =>
       pc[looper[k].id] = "sent" /\ svc[looper[k].id] = looper[k].to
  /\ \A k, l \in DOMAIN looper :
       k # l /\ looper[k].what = "intent" /\ looper[l].what = "intent" =>
         looper[k].id # looper[l].id

(* The destruction of an instance is the last message to it.               *)
LastMessage ==
  /\ \A m \in DOMAIN looper, i \in Jobs : Destroyed(i, m) =>
       i # rec /\ \A k \in DOMAIN looper : k > m => looper[k].to # i
  /\ \A i \in Jobs : Ending(i) \/ i \in gone => NoMessage(i)

(* An instance is destroyed before there is a message to the next.         *)
Successive == \A l \in DOMAIN looper :
  /\ \A k \in DOMAIN looper : l < k /\ looper[k].to # looper[l].to =>
       \E m \in DOMAIN looper : l <= m /\ m < k /\ Destroyed(looper[l].to, m)
  /\ looper[l].to # rec =>
       \E m \in DOMAIN looper : l <= m /\ Destroyed(looper[l].to, m)

Fresh == \A j \in Jobs : pc[j] = "unused" =>
  /\ NoMessage(j) /\ j \notin gone /\ client[j] = Nobody /\ ~polling[j]
  /\ \A c \in Callers : svc[c] # j
-----------------------------------------------------------------------------
(* As long as nothing has crossed.                                         *)

InUse(i) == client[i] # Nobody \/ \E j \in Jobs : Active(j) /\ svc[j] = i

OneBusy ==
  /\ \A c, d \in Callers : Busy(c) /\ Busy(d) => c = d
  /\ \A j \in Jobs : Active(j) => svc[j] \notin gone /\ ~shown.error

(* The instance before is destroyed, or about to be, ahead of any message  *)
(* to the next one.                                                        *)
InUseFirst == \A i \in Jobs : InUse(i) /\ ~Ending(i) =>
  /\ \A k \in DOMAIN looper : looper[k].to # i =>
       \E m \in DOMAIN looper : m < k /\ Destroyed(i, m)
  /\ i # rec => \E m \in DOMAIN looper : Destroyed(i, m)

OneClient ==
  /\ \A i, k \in Jobs : client[i] # Nobody /\ client[k] # Nobody => i = k
  /\ \A i \in gone : client[i] = Nobody
  /\ \A c \in Callers : Busy(c) /\ pc[c] \in {"begin", "clear"} =>
       \A i \in Jobs : client[i] # Nobody => i = svc[c]
  /\ \A c \in Callers : pc[c] = "clear" => my[c] = client[svc[c]]
  /\ \A c \in Callers : pc[c] \in Cleared => \A i \in Jobs : client[i] = Nobody

UpIsHeld == \A x \in Jobs : tunnel[x] = "up" =>
  \/ pc[x] = "assign"
  \/ \E i \in Jobs : client[i] = x
  \/ \E c \in Callers : pc[c] = "take" /\ my[c] = x

(* What holds as long as no coroutine has met another.                     *)
Calm == OneBusy /\ InUseFirst /\ OneClient /\ UpIsHeld

(* What holds whatever meets.                                              *)
QInv ==
  /\ VpnTypeOK /\ Locals /\ Assigned /\ Tunnels
  /\ Intents /\ LastMessage /\ Successive /\ Fresh

VInv == QInv /\ (crossed \/ Calm)
-----------------------------------------------------------------------------
(* A step of a caller: it leaves the looper and the other callers alone.   *)
CallerSteps(c) ==
  \/ Steps(c)
  \/ /\ c \in Jobs
     /\ \/ BuildFails(c) \/ Establish(c) \/ ConnectRefused(c) \/ ConnectDials(c)
        \/ DialFails(c) \/ Connected(c) \/ AssignClient(c) \/ StartPoller(c)
        \/ Catch(c) \/ CatchAsks(c) \/ SetError(c) \/ ShowIdle(c) \/ StopSelf(c) \/ Dropped(c)

Moves(c) ==
  /\ UNCHANGED <<looper, rec, kind, gone, crossed>>
  /\ \E place \in Places \ {"unused", "sent", "begin"} : pc' = [pc EXCEPT ![c] = place]
  /\ \E m \in JobOrNone : my' = [my EXCEPT ![c] = m]
  /\ svc' = IF pc'[c] = "done" THEN [svc EXCEPT ![c] = Nobody] ELSE svc
  /\ pc[c] \notin {"unused", "sent", "done"}

LEMMA CallerMoves == ASSUME VpnTypeOK, Locals, NEW c \in Callers, CallerSteps(c) PROVE Moves(c)
<1>0. /\ pc \in [Callers -> Places] /\ my \in [Callers -> JobOrNone]
      /\ svc \in [Callers -> JobOrNone] /\ client \in [Jobs -> JobOrNone]
  BY DEF VpnTypeOK
<1>1. svc[c] \in Jobs \/ pc[c] \in {"unused", "done"}
  BY VpnAssumption DEF Locals, Callers
<1>2. Nobody \in JobOrNone /\ my[c] \in JobOrNone /\ (svc[c] \in Jobs => client[svc[c]] \in JobOrNone)
  BY <1>0 DEF JobOrNone
<1>3. my = [my EXCEPT ![c] = my[c]]
  BY <1>0
<1>4. ASSUME pc[c] \notin {"unused", "sent", "done"}, UNCHANGED <<looper, rec, kind, gone, crossed>>,
             NEW place \in Places \ {"unused", "sent", "begin"}, NEW m \in JobOrNone,
             pc' = [pc EXCEPT ![c] = place], my' = [my EXCEPT ![c] = m],
             svc' = IF place = "done" THEN [svc EXCEPT ![c] = Nobody] ELSE svc
      PROVE  Moves(c)
  BY <1>0, <1>4 DEF Moves
<1>5. CASE Steps(c)
  <2>1. CASE ReadClient(c)
    BY <1>0, <1>1, <1>2, <1>4, <2>1 DEF ReadClient, At, Places, android, service, clients
  <2>2. CASE ClearClient(c)
    BY <1>0, <1>1, <1>2, <1>3, <1>4, <2>2 DEF ClearClient, At, Goto, AfterStop, Places,
           android, clients
  <2>3. CASE TakeSession(c)
    BY <1>0, <1>1, <1>2, <1>3, <1>4, <2>3 DEF TakeSession, At, Goto, Places, android, service
  <2>4. CASE Disconnected(c)
    BY <1>0, <1>1, <1>2, <1>4, <2>4 DEF Disconnected, At, Leave, AfterStop, Places,
           android, service
  <2>5. CASE PublishReads(c)
    BY <1>0, <1>1, <1>2, <1>4, <2>5 DEF PublishReads, At, Places, android, service, clients
  <2>6. CASE PublishIdle(c)
    BY <1>0, <1>1, <1>2, <1>4, <2>6 DEF PublishIdle, At, Leave, AfterPublish, Places,
           android, service, clients
  <2>7. CASE PublishAsks(c)
    BY <1>0, <1>1, <1>2, <1>3, <1>4, <2>7 DEF PublishAsks, At, Places, android, service, clients
  <2>8. CASE PublishShows(c)
    BY <1>0, <1>1, <1>2, <1>4, <2>8 DEF PublishShows, At, Leave, AfterPublish, Places,
           android, service, clients
  <2>9. QED BY <1>5, <2>1, <2>2, <2>3, <2>4, <2>5, <2>6, <2>7, <2>8 DEF Steps
<1>6. CASE c \in Jobs /\ (BuildFails(c) \/ ConnectRefused(c) \/ ConnectDials(c) \/ DialFails(c))
  BY <1>0, <1>1, <1>2, <1>3, <1>4, <1>6
     DEF BuildFails, ConnectRefused, ConnectDials, DialFails, At, Goto, Places, android,
         service, clients
<1>7. CASE /\ c \in Jobs
           /\ \/ Establish(c) \/ Connected(c) \/ AssignClient(c) \/ ShowIdle(c)
              \/ Catch(c) \/ CatchAsks(c)
  BY <1>0, <1>1, <1>2, <1>3, <1>4, <1>7
     DEF Establish, Connected, AssignClient, ShowIdle, Catch, CatchAsks, At, Goto, Places, android,
         service, clients
<1>8. CASE c \in Jobs /\ (StartPoller(c) \/ SetError(c) \/ StopSelf(c) \/ Dropped(c))
  BY <1>0, <1>1, <1>2, <1>4, <1>8
     DEF StartPoller, SetError, StopSelf, Dropped, At, Leave, Places, android, service, clients
<1>9. QED BY <1>5, <1>6, <1>7, <1>8 DEF CallerSteps

(* Every step of the system is one of these.                               *)
LEMMA Cases ==
  ASSUME [VpnNext]_vpnVars
  PROVE  \/ UNCHANGED vpnVars
         \/ \E c \in Callers : CallerSteps(c)
         \/ OnStartCommand \/ OnDestroy \/ CancelScope \/ Destroys \/ Revoke
         \/ \E j \in Jobs : SessionCloses(j) \/ PollTick(j)
         \/ \E j \in Jobs, button \in {"start", "stop"} : Click(j, button)
BY DEF VpnNext, JobSteps, OwnSteps, DialEnds, MainSteps, CallerSteps, Callers

(* What AndroidVpnRuntime.state is.                                        *)
Screens == [status : ClientStatuses \cup {"starting", "stopping"}, busy : BOOLEAN, error : BOOLEAN]

(* A message of the looper.                                                *)
ToLooper == [what : {"intent", "destroy"}, id : Jobs, to : Jobs]

LEMMA VpnTypeStep == VpnTypeOK /\ Locals /\ [VpnNext]_vpnVars => VpnTypeOK'
<1> SUFFICES ASSUME VpnTypeOK, Locals, [VpnNext]_vpnVars PROVE VpnTypeOK'
  OBVIOUS
<1>1. CASE UNCHANGED vpnVars
  BY <1>1 DEF VpnTypeOK, Screens, vpnVars, android, local, service, clients
<1>2. ASSUME NEW c \in Callers, CallerSteps(c) PROVE VpnTypeOK'
  <2>0. Moves(c)
    BY <1>2, CallerMoves
  <2>1. svc[c] \in Jobs
    BY <2>0, VpnAssumption DEF Locals, Callers, Moves
  <2>2. pc[c] \in {"take", "nothing", "wait", "pubStatus", "catchAsk"} => my[c] \in Jobs
    BY DEF Locals
  <2>3. pc' \in [Callers -> Places] /\ my' \in [Callers -> JobOrNone] /\ svc' \in [Callers -> JobOrNone]
    BY <2>0 DEF Moves, VpnTypeOK, JobOrNone
  <2>4. UNCHANGED <<looper, rec, kind, gone, crossed>>
    BY <2>0 DEF Moves
  <2>5. /\ seen' \in [Callers -> ClientStatuses]
        /\ shown' \in Screens
        /\ client' \in [Jobs -> JobOrNone] /\ polling' \in [Jobs -> BOOLEAN]
    <3>1. /\ \A d \in Callers : seen[d] \in ClientStatuses
          /\ \A x \in Jobs : status[x] \in ClientStatuses /\ client[x] \in JobOrNone
      BY DEF VpnTypeOK, Screens
    <3>2. CASE PublishAsks(c) \/ PublishShows(c) \/ PublishIdle(c)
      <4>1. /\ UNCHANGED <<client, polling>>
            /\ \E t \in ClientStatuses : seen' = [seen EXCEPT ![c] = t]
        BY <2>2, <3>1, <3>2
           DEF PublishAsks, PublishShows, PublishIdle, Leave, At, ClientStatuses, service
      <4>2. \/ shown' = shown
            \/ \E t \in ClientStatuses : shown' = [status |-> t, busy |-> FALSE, error |-> FALSE]
        BY <3>1, <3>2 DEF PublishAsks, PublishShows, PublishIdle, SetIdle, ClientStatuses
      <4>3. shown' \in Screens
        <5>1. CASE shown' = shown
          BY <5>1 DEF VpnTypeOK, Screens
        <5>2. ASSUME NEW t \in ClientStatuses, NEW e \in BOOLEAN,
                     shown' = [status |-> t, busy |-> FALSE, error |-> e]
              PROVE  shown' \in Screens
          BY <5>2 DEF Screens
        <5>3. QED BY <4>2, <5>1, <5>2
      <4>4. /\ seen' \in [Callers -> ClientStatuses]
            /\ client' \in [Jobs -> JobOrNone] /\ polling' \in [Jobs -> BOOLEAN]
        BY <4>1 DEF VpnTypeOK, Screens
      <4>5. QED BY <4>3, <4>4
    <3>3. CASE ReadClient(c) \/ ClearClient(c) \/ TakeSession(c) \/ Disconnected(c) \/ PublishReads(c)
      BY <2>1, <3>3 DEF VpnTypeOK, Screens, ReadClient, ClearClient, TakeSession, Disconnected,
             PublishReads,
         Goto, Leave, ClientStatuses, JobOrNone, service
    <3>4. CASE c \in Jobs /\ (Catch(c) \/ CatchAsks(c) \/ SetError(c) \/ ShowIdle(c))
      <4>1. /\ UNCHANGED <<client, polling>>
            /\ \/ seen' = seen
               \/ \E t \in ClientStatuses : seen' = [seen EXCEPT ![c] = t]
        <5>1. /\ svc[c] \in Jobs /\ seen[c] \in ClientStatuses /\ "failed" \in ClientStatuses
              /\ "idle" \in ClientStatuses
          BY <2>1, <3>1 DEF ClientStatuses
        <5>2. CASE Catch(c)
          BY <5>1, <5>2 DEF Catch, service
        <5>3. CASE CatchAsks(c)
          BY <2>2, <3>1, <5>3 DEF CatchAsks, At, service
        <5>4. CASE SetError(c) \/ ShowIdle(c)
          BY <5>1, <5>4 DEF SetError, ShowIdle, Goto, Leave, service
        <5>5. QED BY <3>4, <5>2, <5>3, <5>4
      <4>2. \/ shown' = shown
            \/ \E t \in ClientStatuses, e \in BOOLEAN :
                 shown' = [status |-> t, busy |-> FALSE, error |-> e]
        BY <3>1, <3>4 DEF Catch, CatchAsks, SetError, ShowIdle, SetIdle, ClientStatuses
      <4>3. shown' \in Screens
        <5>1. CASE shown' = shown
          BY <5>1 DEF VpnTypeOK, Screens
        <5>2. ASSUME NEW t \in ClientStatuses, NEW e \in BOOLEAN,
                     shown' = [status |-> t, busy |-> FALSE, error |-> e]
              PROVE  shown' \in Screens
          BY <5>2 DEF Screens
        <5>3. QED BY <4>2, <5>1, <5>2
      <4>4. /\ seen' \in [Callers -> ClientStatuses]
            /\ client' \in [Jobs -> JobOrNone] /\ polling' \in [Jobs -> BOOLEAN]
        BY <4>1 DEF VpnTypeOK, Screens
      <4>5. QED BY <4>3, <4>4
    <3>5. CASE /\ c \in Jobs
               /\ \/ BuildFails(c) \/ Establish(c) \/ ConnectRefused(c) \/ ConnectDials(c)
                  \/ DialFails(c) \/ Connected(c) \/ AssignClient(c) \/ StartPoller(c) \/ StopSelf(c) \/ Dropped(c)
      BY <2>1, <3>5 DEF VpnTypeOK, Screens, BuildFails, Establish, ConnectRefused, ConnectDials,
         DialFails, Connected, AssignClient, StartPoller, StopSelf, Dropped,
         Goto, Leave, ClientStatuses, JobOrNone, service
    <3>6. QED BY <1>2, <3>2, <3>3, <3>4, <3>5 DEF CallerSteps, Steps
  <2>6. /\ tunnel' \in [Jobs -> {"none", "fd", "dialing", "up", "stopped", "closed", "lost"}]
        /\ session' \in [Jobs -> BOOLEAN] /\ status' \in [Jobs -> ClientStatuses]
        /\ iface' \in JobOrNone /\ wanted' \in BOOLEAN
    <3>1. CASE TakeSession(c) \/ Disconnected(c)
      BY <2>2, <3>1 DEF VpnTypeOK, TakeSession, Disconnected, At, ClientStatuses,
             JobOrNone, android
    <3>2. CASE /\ c \in Jobs
               /\ \/ Establish(c) \/ ConnectRefused(c) \/ ConnectDials(c) \/ DialFails(c)
                  \/ Connected(c) \/ StopSelf(c)
      BY <3>2 DEF VpnTypeOK, Screens, Establish, ConnectRefused, ConnectDials, DialFails, Connected,
             StopSelf,
         ClientStatuses, JobOrNone, android, clients
    <3>3. CASE UNCHANGED <<tunnel, session, status, iface, wanted>>
      BY <3>3 DEF VpnTypeOK, Screens
    <3>4. QED
      BY <1>2, <3>1, <3>2, <3>3 DEF CallerSteps, Steps, ReadClient, ClearClient, PublishReads,
         PublishIdle, PublishAsks, PublishShows, BuildFails, AssignClient, StartPoller,
         Catch, CatchAsks, SetError,
         ShowIdle, Dropped, android, clients
  <2>7. QED BY <2>3, <2>4, <2>5, <2>6 DEF VpnTypeOK, Screens
<1>3. CASE OnStartCommand
  <2>1. Head(looper) \in ToLooper /\ Tail(looper) \in Seq(ToLooper)
    <3>1. looper # <<>> /\ looper \in Seq(ToLooper)
      BY <1>3 DEF OnStartCommand, VpnTypeOK, ToLooper
    <3>2. QED BY <3>1, HeadTailProperties
  <2>2. QED
    BY <1>3, <2>1 DEF OnStartCommand, VpnTypeOK, ToLooper, Goto, Places, ClientStatuses,
           service, clients
<1>4. CASE OnDestroy
  <2>1. Head(looper) \in ToLooper /\ Tail(looper) \in Seq(ToLooper)
    <3>1. looper # <<>> /\ looper \in Seq(ToLooper)
      BY <1>4 DEF OnDestroy, VpnTypeOK, ToLooper
    <3>2. QED BY <3>1, HeadTailProperties
  <2>2. QED
    BY <1>4, <2>1 DEF OnDestroy, VpnTypeOK, ToLooper, Places, JobOrNone, service, clients
<1>5. CASE CancelScope
  BY <1>5, VpnAssumption DEF CancelScope, VpnTypeOK, Locals, Leave, At, Places, JobOrNone,
         ClientStatuses, service, clients
<1>6. CASE Destroys \/ Revoke
  <2>1. CASE Destroys
    <3>1. rec \in Jobs
      BY <2>1 DEF Destroys, VpnTypeOK, JobOrNone
    <3>2. looper' \in Seq(ToLooper)
      BY <2>1, <3>1 DEF Destroys, VpnTypeOK, ToLooper
    <3>3. QED BY <2>1, <3>2 DEF Destroys, VpnTypeOK, ToLooper, JobOrNone, local, service, clients
  <2>2. CASE Revoke
    BY <2>2 DEF Revoke, VpnTypeOK, JobOrNone, local, service, clients
  <2>3. QED BY <1>6, <2>1, <2>2
<1>7. ASSUME NEW j \in Jobs, SessionCloses(j) \/ PollTick(j) PROVE VpnTypeOK'
  <2>1. CASE SessionCloses(j)
    BY <2>1 DEF SessionCloses, VpnTypeOK, JobOrNone, local, service
  <2>2. CASE PollTick(j)
    BY <2>2 DEF PollTick, VpnTypeOK, JobOrNone, Places, Callers, android, service, clients
  <2>3. QED BY <1>7, <2>1, <2>2
<1>8. ASSUME NEW j \in Jobs, NEW button \in {"start", "stop"}, Click(j, button) PROVE VpnTypeOK'
  <2>1. PICK to \in Jobs :
          /\ rec' = to
          /\ looper' = Append(looper, [what |-> "intent", id |-> j, to |-> to])
          /\ svc' = [svc EXCEPT ![j] = to]
    BY <1>8 DEF Click
  <2>2. looper' \in Seq(ToLooper)
    BY <2>1 DEF VpnTypeOK, ToLooper
  <2>3. /\ pc' \in [Callers -> Places] /\ svc' \in [Callers -> JobOrNone] /\ rec' \in JobOrNone
        /\ kind' \in [Jobs -> {"start", "stop"}]
    BY <1>8, <2>1 DEF Click, VpnTypeOK, Places, JobOrNone
  <2>4. QED BY <1>8, <2>2, <2>3 DEF Click, VpnTypeOK, ToLooper, service, clients
<1>9. QED BY <1>1, <1>2, <1>3, <1>4, <1>5, <1>6, <1>7, <1>8, Cases

(* What a step of a caller does to the caller's own locals.                *)
LEMMA CallerLocals ==
  ASSUME VpnTypeOK, Locals, Assigned, NEW c \in Callers, CallerSteps(c)
  PROVE  /\ pc'[c] \in {"take", "nothing", "wait", "pubStatus", "catchAsk"} => my'[c] \in Jobs
         /\ c = Main => pc'[c] \in Stopping \cup Publishing \cup {"done"}
         /\ c = Main /\ pc'[c] \in Publishing => pc[c] \in Publishing
         /\ c = Main => (pc'[c] \in Stopping <=> pc[c] \in Stopping)
         /\ c \in Jobs => pc'[c] # "cancel"
         /\ \A i \in Jobs : polling[i] => polling'[i]
         /\ my'[c] # Nobody => my'[c] = my[c] \/ my'[c] = client[svc[c]]
         /\ c \in Jobs => (pc[c] \in Handed => pc'[c] \in Handed)
<1>0. Moves(c) /\ svc[c] \in Jobs
  BY CallerMoves, VpnAssumption DEF Moves, Locals, Callers
<1>1. /\ pc \in [Callers -> Places] /\ my \in [Callers -> JobOrNone] /\ polling \in [Jobs -> BOOLEAN]
      /\ client \in [Jobs -> JobOrNone]
  BY DEF VpnTypeOK
<1>2. CASE Steps(c)
  BY <1>0, <1>1, <1>2, VpnAssumption
     DEF Steps, ReadClient, ClearClient, TakeSession, Disconnected, PublishReads,
         PublishIdle, PublishAsks,
         PublishShows, Goto, Leave, At, AfterStop, AfterPublish, Locals, Stopping,
         Publishing, JobOrNone,
         Handed, service
<1>3. CASE /\ c \in Jobs
           /\ \/ BuildFails(c) \/ Establish(c) \/ ConnectRefused(c) \/ ConnectDials(c)
              \/ DialFails(c) \/ Connected(c) \/ AssignClient(c) \/ StartPoller(c)
              \/ SetError(c) \/ ShowIdle(c) \/ StopSelf(c) \/ Dropped(c)
  BY <1>0, <1>1, <1>3, VpnAssumption
     DEF BuildFails, Establish, ConnectRefused, ConnectDials, DialFails, Connected,
         AssignClient, StartPoller,
         SetError, ShowIdle, StopSelf, Dropped, Goto, Leave, At, Publishing, Handed,
         service
<1>4. CASE c \in Jobs /\ (Catch(c) \/ CatchAsks(c))
  BY <1>0, <1>1, <1>4, VpnAssumption
     DEF Catch, CatchAsks, At, Locals, Stopping, Publishing, JobOrNone, Handed, service
<1>5. QED BY <1>2, <1>3, <1>4 DEF CallerSteps

(* The looper, by its indices.                                             *)
LEMMA Looper ==
  ASSUME VpnTypeOK, NEW k \in DOMAIN looper
  PROVE  /\ k \in Nat \ {0} /\ looper[k] \in ToLooper
         /\ looper[k].what \in {"intent", "destroy"} /\ looper[k].id \in Jobs /\ looper[k].to \in Jobs
<1>1. looper \in Seq(ToLooper)
  BY DEF VpnTypeOK, ToLooper
<1>2. k \in 1 .. Len(looper) /\ looper[k] \in ToLooper
  BY <1>1
<1>3. QED BY <1>2 DEF ToLooper

LEMMA Served ==
  ASSUME VpnTypeOK, looper # <<>>, looper' = Tail(looper)
  PROVE  /\ Head(looper) \in ToLooper /\ Head(looper) = looper[1]
         /\ 1 \in DOMAIN looper /\ DOMAIN looper \subseteq Nat \ {0}
         /\ \A k \in DOMAIN looper : looper[k] \in ToLooper
         /\ \A k \in DOMAIN looper' : k + 1 \in DOMAIN looper /\ looper'[k] = looper[k + 1]
         /\ \A k \in DOMAIN looper : k = 1 \/ (k - 1 \in DOMAIN looper' /\ looper'[k - 1] = looper[k])
<1>1. looper \in Seq(ToLooper)
  BY DEF VpnTypeOK, ToLooper
<1>2. /\ Head(looper) \in ToLooper /\ Head(looper) = looper[1]
      /\ looper' \in Seq(ToLooper) /\ Len(looper') = Len(looper) - 1
      /\ \A k \in 1 .. Len(looper') : looper'[k] = looper[k + 1]
  BY <1>1, HeadTailProperties
<1>3. /\ DOMAIN looper = 1 .. Len(looper) /\ DOMAIN looper' = 1 .. Len(looper')
      /\ Len(looper) \in Nat /\ Len(looper) # 0
  BY <1>1, <1>2
<1>4. \A k \in DOMAIN looper : looper[k] \in ToLooper
  BY <1>1
<1>5. QED BY <1>2, <1>3, <1>4

LEMMA Appended ==
  ASSUME VpnTypeOK, NEW m \in ToLooper, looper' = Append(looper, m)
  PROVE  /\ DOMAIN looper' = DOMAIN looper \cup {Len(looper) + 1}
         /\ DOMAIN looper \subseteq Nat \ {0} /\ Len(looper) \in Nat
         /\ \A k \in DOMAIN looper :
              k <= Len(looper) /\ looper[k] \in ToLooper /\ looper'[k] = looper[k]
         /\ looper'[Len(looper) + 1] = m
<1>1. looper \in Seq(ToLooper)
  BY DEF VpnTypeOK, ToLooper
<1>2. DOMAIN looper = 1 .. Len(looper) /\ Len(looper) \in Nat
  BY <1>1
<1>3. /\ DOMAIN looper' = 1 .. Len(looper) + 1
      /\ \A k \in 1 .. Len(looper) : looper'[k] = looper[k]
      /\ looper'[Len(looper) + 1] = m
  BY <1>1, <1>2
<1>4. QED BY <1>1, <1>2, <1>3

LEMMA LocalsStep ==
  VpnTypeOK /\ Locals /\ Assigned /\ Intents /\ [VpnNext]_vpnVars => Locals'
<1> SUFFICES ASSUME VpnTypeOK, Locals, Assigned, Intents, [VpnNext]_vpnVars PROVE Locals'
  OBVIOUS
<1>0. /\ pc \in [Callers -> Places] /\ my \in [Callers -> JobOrNone] /\ svc \in [Callers -> JobOrNone]
      /\ looper \in Seq(ToLooper)
  BY DEF VpnTypeOK, ToLooper
<1>1. CASE UNCHANGED vpnVars
  BY <1>1 DEF Locals, vpnVars, android, local, service
<1>2. ASSUME NEW c \in Callers, CallerSteps(c) PROVE Locals'
  <2>1. Moves(c)
    BY <1>2, CallerMoves
  <2>2. /\ pc'[c] \in {"take", "nothing", "wait", "pubStatus", "catchAsk"} => my'[c] \in Jobs
        /\ c = Main => pc'[c] \in Stopping \cup Publishing \cup {"done"}
        /\ c = Main /\ pc'[c] \in Publishing => pc[c] \in Publishing
        /\ c \in Jobs => pc'[c] # "cancel"
        /\ \A i \in Jobs : polling[i] => polling'[i]
    BY <1>2, CallerLocals
  <2>3. \A d \in Callers : d # c => pc'[d] = pc[d] /\ my'[d] = my[d] /\ svc'[d] = svc[d]
    BY <1>0, <2>1 DEF Moves
  <2>4. pc'[c] # "unused" /\ (pc'[c] # "done" => svc'[c] = svc[c] /\ svc[c] \in Jobs)
    BY <1>0, <2>1, VpnAssumption DEF Locals, Moves, Callers
  <2>5. /\ pc'[Main] \in Stopping \cup Publishing \cup {"done"}
        /\ pc'[Main] # "done" => svc'[Main] \in Jobs
    BY <2>2, <2>3, <2>4 DEF Locals, Callers
  <2>6. pc'[Main] \in Publishing => polling'[svc'[Main]] /\ svc'[Main] \notin gone'
    <3>1. UNCHANGED gone
      BY <2>1 DEF Moves
    <3>2. pc'[Main] \in Publishing => pc[Main] \in Publishing /\ svc'[Main] = svc[Main]
      BY <2>2, <2>3, <2>4 DEF Callers, Publishing
    <3>3. QED BY <2>2, <2>5, <3>1, <3>2 DEF Locals, Publishing
  <2>7. \A j \in Jobs : pc'[j] # "cancel" /\ (pc'[j] \notin {"unused", "done"} => svc'[j] \in Jobs)
    BY <2>2, <2>3, <2>4 DEF Locals, Callers
  <2>8. \A d \in Callers :
          pc'[d] \in {"take", "nothing", "wait", "pubStatus", "catchAsk"} => my'[d] \in Jobs
    BY <2>2, <2>3 DEF Locals
  <2>9. QED BY <2>5, <2>6, <2>7, <2>8 DEF Locals
<1>3. CASE OnStartCommand
  <2>1. /\ Head(looper).id \in Jobs /\ pc[Head(looper).id] = "sent"
        /\ svc[Head(looper).id] \in Jobs
    BY <1>3, Served DEF OnStartCommand, Intents, ToLooper
  <2>2. QED
    BY <1>0, <1>3, <2>1, VpnAssumption
       DEF Locals, OnStartCommand, Goto, Callers, At, Stopping, Publishing, service
<1>4. CASE OnDestroy
  <2>1. Head(looper).to \in Jobs
    BY <1>4, Served DEF OnDestroy, ToLooper
  <2>2. QED
    BY <1>0, <1>4, <2>1, VpnAssumption
       DEF Locals, OnDestroy, Callers, At, Stopping, Publishing, service
<1>5. CASE CancelScope
  BY <1>0, <1>5, VpnAssumption DEF Locals, CancelScope, Leave, Callers, At, Publishing,
         Stopping, service
<1>6. CASE Destroys \/ Revoke \/ \E j \in Jobs : SessionCloses(j)
  BY <1>6 DEF Locals, Destroys, Revoke, SessionCloses, local, service
<1>7. ASSUME NEW j \in Jobs, PollTick(j) PROVE Locals'
  BY <1>0, <1>7, VpnAssumption
     DEF Locals, PollTick, Callers, At, Publishing, Stopping, service, android
<1>8. ASSUME NEW j \in Jobs, NEW button \in {"start", "stop"}, Click(j, button) PROVE Locals'
  <2>1. PICK to \in Jobs : svc' = [svc EXCEPT ![j] = to]
    BY <1>8 DEF Click
  <2>2. QED BY <1>0, <1>8, <2>1, VpnAssumption DEF Locals, Click, Callers, At, service
<1>9. QED BY <1>1, <1>2, <1>3, <1>4, <1>5, <1>6, <1>7, <1>8, Cases

LEMMA AssignedStep ==
  VpnTypeOK /\ Locals /\ Assigned /\ Intents /\ [VpnNext]_vpnVars => Assigned'
<1> SUFFICES ASSUME VpnTypeOK, Locals, Assigned, Intents, [VpnNext]_vpnVars PROVE Assigned'
  OBVIOUS
<1>0. /\ pc \in [Callers -> Places] /\ my \in [Callers -> JobOrNone] /\ svc \in [Callers -> JobOrNone]
      /\ client \in [Jobs -> JobOrNone]
  BY DEF VpnTypeOK
<1>1. CASE UNCHANGED vpnVars
  BY <1>1 DEF Assigned, Handed, vpnVars, android, local, service
<1>2. ASSUME NEW c \in Callers, CallerSteps(c) PROVE Assigned'
  <2>1. Moves(c) /\ svc[c] \in Jobs
    BY <1>2, CallerMoves, VpnAssumption DEF Moves, Locals, Callers
  <2>2. \A x \in Jobs : pc[x] \in Handed => pc'[x] \in Handed
    BY <1>0, <1>2, <2>1, CallerLocals DEF Moves, Handed, Callers
  <2>3. \A d \in Callers : my'[d] # Nobody => my'[d] \in Jobs /\ pc[my'[d]] \in Handed
    BY <1>0, <1>2, <2>1, CallerLocals DEF Moves, Assigned, JobOrNone
  <2>4. \A i \in Jobs :
          client'[i] # Nobody => client'[i] \in Jobs /\ pc'[client'[i]] \in Handed
    <3>1. CASE client' = client
      BY <1>0, <2>2, <3>1 DEF Assigned, JobOrNone
    <3>2. CASE ClearClient(c)
      BY <1>0, <2>1, <2>2, <3>2 DEF ClearClient, Assigned, JobOrNone
    <3>3. CASE c \in Jobs /\ AssignClient(c)
      BY <1>0, <2>1, <2>2, <3>3 DEF AssignClient, Goto, Handed, Publishing, Assigned, JobOrNone
    <3>4. QED
      BY <1>2, <3>1, <3>2, <3>3 DEF CallerSteps, Steps, ReadClient, TakeSession,
             Disconnected, PublishReads,
         PublishIdle, PublishAsks, PublishShows, BuildFails, Establish, ConnectRefused,
         ConnectDials,
         DialFails, Connected, StartPoller, Catch, CatchAsks, SetError, ShowIdle, StopSelf, Dropped, service
  <2>5. QED BY <2>2, <2>3, <2>4 DEF Assigned
<1>3. CASE OnStartCommand
  <2>1. /\ Head(looper).id \in Jobs /\ pc[Head(looper).id] = "sent"
    BY <1>3, Served DEF OnStartCommand, Intents, ToLooper
  <2>2. QED
    BY <1>0, <1>3, <2>1 DEF Assigned, OnStartCommand, Goto, Handed, Publishing, Callers,
           service, JobOrNone
<1>4. CASE OnDestroy \/ CancelScope \/ \E j \in Jobs : PollTick(j)
  BY <1>0, <1>4, VpnAssumption DEF Assigned, OnDestroy, CancelScope, PollTick, Leave,
         Handed, Callers, service, JobOrNone
<1>5. CASE Destroys \/ Revoke \/ \E j \in Jobs : SessionCloses(j)
  BY <1>5 DEF Assigned, Handed, Destroys, Revoke, SessionCloses, local, service
<1>6. ASSUME NEW j \in Jobs, NEW button \in {"start", "stop"}, Click(j, button) PROVE Assigned'
  BY <1>0, <1>6 DEF Assigned, Handed, Publishing, Click, At, Callers, service, JobOrNone
<1>7. QED BY <1>1, <1>2, <1>3, <1>4, <1>5, <1>6, Cases

LEMMA TunnelsStep ==
  VpnTypeOK /\ Locals /\ Assigned /\ Intents /\ Tunnels /\ [VpnNext]_vpnVars => Tunnels'
<1> SUFFICES ASSUME VpnTypeOK, Locals, Assigned, Intents, Tunnels, [VpnNext]_vpnVars PROVE Tunnels'
  OBVIOUS
<1>0. /\ pc \in [Callers -> Places] /\ my \in [Callers -> JobOrNone] /\ svc \in [Callers -> JobOrNone]
      /\ session \in [Jobs -> BOOLEAN]
      /\ tunnel \in [Jobs -> {"none", "fd", "dialing", "up", "stopped", "closed", "lost"}]
  BY DEF VpnTypeOK
<1>1. CASE UNCHANGED vpnVars
  BY <1>1 DEF Tunnels, vpnVars, local, clients
<1>2. ASSUME NEW c \in Callers, CallerSteps(c) PROVE Tunnels'
  <2>0. Moves(c)
    BY <1>2, CallerMoves
  <2>1. /\ \A d \in Callers : d # c => pc'[d] = pc[d] /\ my'[d] = my[d]
        /\ pc'[c] \in Places \ {"unused", "sent", "begin"} /\ pc[c] \notin {"unused", "sent", "done"}
    BY <1>0, <2>0 DEF Moves
  <2>2. ASSUME UNCHANGED <<tunnel, session>>, pc[c] \notin {"wait", "dial", "connect", "assign"},
               pc'[c] \notin {"dial", "connect", "assign"},
               pc'[c] \in {"clear", "take", "nothing", "wait", "build"} =>
                 pc[c] \in {"begin", "clear", "take", "nothing", "wait"}
        PROVE  Tunnels'
    BY <1>0, <2>1, <2>2 DEF Tunnels, Callers
  <2>3. CASE \/ ReadClient(c) \/ ClearClient(c) \/ PublishReads(c)
             \/ PublishIdle(c) \/ PublishAsks(c) \/ PublishShows(c)
    BY <1>0, <2>2, <2>3 DEF ReadClient, ClearClient, PublishReads, PublishIdle,
           PublishAsks, PublishShows,
       AfterStop, AfterPublish, Goto, Leave, At, clients
  <2>4. CASE TakeSession(c)
    <3>1. my[c] \in Jobs /\ pc[my[c]] \in Handed
      BY <2>4, VpnAssumption DEF TakeSession, At, Locals, Assigned
    <3>2. CASE session[my[c]]
      BY <1>0, <2>1, <2>4, <3>1, <3>2 DEF TakeSession, Tunnels, Goto, At, Handed,
             Publishing, Callers
    <3>3. CASE ~session[my[c]]
      BY <1>0, <2>1, <2>4, <3>1, <3>3 DEF TakeSession, Tunnels, Goto, At, Handed,
             Publishing, Callers
    <3>4. QED BY <3>2, <3>3
  <2>5. CASE Disconnected(c)
    BY <1>0, <2>1, <2>5 DEF Disconnected, Tunnels, Leave, AfterStop, At, Handed,
           Publishing, Callers
  <2>6. CASE /\ c \in Jobs
             /\ \/ BuildFails(c) \/ StartPoller(c) \/ Catch(c) \/ CatchAsks(c) \/ SetError(c)
                \/ ShowIdle(c) \/ StopSelf(c) \/ Dropped(c)
    BY <1>0, <2>2, <2>6 DEF BuildFails, StartPoller, Catch, CatchAsks, SetError, ShowIdle, StopSelf, Dropped,
       Goto, Leave, At, clients
  <2>7. CASE c \in Jobs /\ (Establish(c) \/ ConnectRefused(c) \/ ConnectDials(c) \/ DialFails(c))
    BY <1>0, <2>1, <2>7 DEF Establish, ConnectRefused, ConnectDials, DialFails, Tunnels,
           Goto, At, Callers
  <2>8. CASE c \in Jobs /\ (Connected(c) \/ AssignClient(c))
    BY <1>0, <2>1, <2>8 DEF Connected, AssignClient, Tunnels, Goto, At, Callers, clients
  <2>9. QED BY <1>2, <2>3, <2>4, <2>5, <2>6, <2>7, <2>8 DEF CallerSteps, Steps
<1>3. CASE OnStartCommand
  <2>1. /\ Head(looper).id \in Jobs /\ pc[Head(looper).id] = "sent"
    BY <1>3, Served DEF OnStartCommand, Intents, ToLooper
  <2>2. QED
    BY <1>0, <1>3, <2>1 DEF Tunnels, OnStartCommand, Goto, Callers, clients
<1>4. CASE OnDestroy \/ CancelScope \/ \E j \in Jobs : PollTick(j)
  BY <1>0, <1>4, VpnAssumption DEF Tunnels, OnDestroy, CancelScope, PollTick, Leave, At,
         Callers, clients
<1>5. CASE Destroys \/ Revoke
  BY <1>5 DEF Tunnels, Destroys, Revoke, local, clients
<1>6. ASSUME NEW j \in Jobs, SessionCloses(j) PROVE Tunnels'
  BY <1>0, <1>6 DEF Tunnels, SessionCloses, local
<1>7. ASSUME NEW j \in Jobs, NEW button \in {"start", "stop"}, Click(j, button) PROVE Tunnels'
  BY <1>0, <1>7 DEF Tunnels, Click, At, Callers, clients
<1>8. QED BY <1>1, <1>2, <1>3, <1>4, <1>5, <1>6, <1>7, Cases

(* A step of a caller keeps everything that is said of the looper.         *)
LEMMA QueueMoves ==
  ASSUME VpnTypeOK, Locals, Assigned, Intents, LastMessage, Successive, Fresh,
         NEW c \in Callers, CallerSteps(c)
  PROVE  Intents' /\ LastMessage' /\ Successive' /\ Fresh'
<1>0. /\ pc \in [Callers -> Places] /\ svc \in [Callers -> JobOrNone]
      /\ client \in [Jobs -> JobOrNone] /\ polling \in [Jobs -> BOOLEAN]
  BY DEF VpnTypeOK
<1>1. Moves(c) /\ svc[c] \in Jobs
  BY CallerMoves, VpnAssumption DEF Moves, Locals, Callers
<1>2. /\ \A d \in Callers : d # c => pc'[d] = pc[d] /\ svc'[d] = svc[d]
      /\ pc'[c] \notin {"unused", "sent"} /\ pc[c] \notin {"unused", "sent"}
      /\ svc'[c] \in {svc[c], Nobody}
      /\ UNCHANGED <<looper, rec, gone>>
  BY <1>0, <1>1 DEF Moves
<1>3. Intents'
  BY <1>2, Looper DEF Intents, Callers
<1>4. LastMessage'
  <2>1. \A i \in Jobs : Ending(i)' => Ending(i)
    <3>1. CASE c = Main
      BY <1>0, <1>1, <3>1, CallerLocals DEF Ending, Moves, Stopping
    <3>2. CASE c # Main
      BY <1>2, <3>2 DEF Ending, Callers
    <3>3. QED BY <3>1, <3>2
  <2>2. QED BY <1>2, <2>1 DEF LastMessage, Destroyed, NoMessage
<1>5. Successive'
  BY <1>2 DEF Successive, Destroyed
<1>6. Fresh'
  <2>1. \A j \in Jobs : j # svc[c] => client'[j] = client[j] /\ polling'[j] = polling[j]
    <3>1. CASE Steps(c)
      BY <1>0, <3>1 DEF Steps, ReadClient, ClearClient, TakeSession, Disconnected, PublishReads,
         PublishIdle, PublishAsks, PublishShows, service
    <3>2. CASE ~Steps(c)
      BY <1>0, <3>2 DEF CallerSteps, BuildFails, Establish, ConnectRefused, ConnectDials,
         DialFails, Connected, AssignClient, StartPoller, Catch, CatchAsks, SetError, ShowIdle,
         StopSelf, Dropped, service
    <3>3. QED BY <3>1, <3>2
  <2>2. QED BY <1>1, <1>2, <2>1, VpnAssumption DEF Fresh, NoMessage, Callers
<1>7. QED BY <1>3, <1>4, <1>5, <1>6

LEMMA QueueServed ==
  ASSUME VpnTypeOK, LastMessage, Successive, looper # <<>>, looper' = Tail(looper), rec' = rec
  PROVE  /\ Successive' /\ \A i \in Jobs : NoMessage(i) => NoMessage(i)'
         /\ \A m \in DOMAIN looper', i \in Jobs : Destroyed(i, m)' =>
              i # rec' /\ \A k \in DOMAIN looper' : k > m => looper'[k].to # i
<1>1. /\ DOMAIN looper \subseteq Nat \ {0}
      /\ \A k \in DOMAIN looper' : k + 1 \in DOMAIN looper /\ looper'[k] = looper[k + 1]
      /\ \A k \in DOMAIN looper : k = 1 \/ (k - 1 \in DOMAIN looper' /\ looper'[k - 1] = looper[k])
  BY Served
<1>2. DOMAIN looper' \subseteq Nat \ {0}
  <2>1. looper' \in Seq(ToLooper)
    BY HeadTailProperties DEF VpnTypeOK, ToLooper
  <2>2. QED BY <2>1
<1>3. \A i \in Jobs : NoMessage(i) => NoMessage(i)'
  BY <1>1 DEF NoMessage
<1>4. ASSUME NEW m \in DOMAIN looper', NEW i \in Jobs, Destroyed(i, m)'
      PROVE  i # rec' /\ \A k \in DOMAIN looper' : k > m => looper'[k].to # i
  <2>1. m + 1 \in DOMAIN looper /\ Destroyed(i, m + 1)
    BY <1>1, <1>4 DEF Destroyed
  <2>2. QED BY <1>1, <1>2, <2>1 DEF LastMessage
<1>5. ASSUME NEW l \in DOMAIN looper'
      PROVE  /\ \A k \in DOMAIN looper' : l < k /\ looper'[k].to # looper'[l].to =>
                  \E m \in DOMAIN looper' : l <= m /\ m < k
                    /\ looper'[m].what = "destroy" /\ looper'[m].to = looper'[l].to
             /\ looper'[l].to # rec' =>
                  \E m \in DOMAIN looper' :
                    l <= m /\ looper'[m].what = "destroy" /\ looper'[m].to = looper'[l].to
  <2>1. l + 1 \in DOMAIN looper /\ looper'[l] = looper[l + 1]
    BY <1>1
  <2>2. ASSUME NEW k \in DOMAIN looper', l < k, looper'[k].to # looper'[l].to
        PROVE  \E m \in DOMAIN looper' : l <= m /\ m < k
                    /\ looper'[m].what = "destroy" /\ looper'[m].to = looper'[l].to
    <3>1. PICK m \in DOMAIN looper : l + 1 <= m /\ m < k + 1 /\ Destroyed(looper[l + 1].to, m)
      BY <1>1, <1>2, <2>1, <2>2 DEF Successive
    <3>2. m - 1 \in DOMAIN looper' /\ looper'[m - 1] = looper[m] /\ l <= m - 1 /\ m - 1 < k
      BY <1>1, <1>2, <3>1
    <3>3. QED BY <2>1, <3>1, <3>2 DEF Destroyed
  <2>3. ASSUME looper'[l].to # rec'
        PROVE  \E m \in DOMAIN looper' :
                 l <= m /\ looper'[m].what = "destroy" /\ looper'[m].to = looper'[l].to
    <3>1. PICK m \in DOMAIN looper : l + 1 <= m /\ Destroyed(looper[l + 1].to, m)
      BY <1>1, <1>2, <2>1, <2>3 DEF Successive
    <3>2. m - 1 \in DOMAIN looper' /\ looper'[m - 1] = looper[m] /\ l <= m - 1
      BY <1>1, <1>2, <3>1
    <3>3. QED BY <2>1, <3>1, <3>2 DEF Destroyed
  <2>4. QED BY <2>2, <2>3
<1>6. QED BY <1>1, <1>3, <1>4, <1>5 DEF Successive, Destroyed

LEMMA QueueStep ==
  VpnTypeOK /\ Locals /\ Assigned /\ Intents /\ LastMessage /\ Successive /\ Fresh /\ [VpnNext]_vpnVars
    => Intents' /\ LastMessage' /\ Successive' /\ Fresh'
<1> SUFFICES ASSUME VpnTypeOK, Locals, Assigned, Intents, LastMessage, Successive, Fresh,
                    [VpnNext]_vpnVars
             PROVE  Intents' /\ LastMessage' /\ Successive' /\ Fresh'
  OBVIOUS
<1>0. /\ pc \in [Callers -> Places] /\ svc \in [Callers -> JobOrNone] /\ rec \in JobOrNone
      /\ \A k \in DOMAIN looper : k \in Nat \ {0} /\ looper[k].id \in Jobs /\ looper[k].to \in Jobs
  BY Looper DEF VpnTypeOK
<1>1. CASE UNCHANGED vpnVars
  BY <1>1 DEF Intents, LastMessage, Successive, Fresh, Destroyed, NoMessage, Ending,
         vpnVars, android, local, service
<1>2. ASSUME NEW c \in Callers, CallerSteps(c) PROVE Intents' /\ LastMessage' /\ Successive' /\ Fresh'
  BY <1>2, QueueMoves
<1>3. CASE OnStartCommand
  <2>1. /\ looper # <<>> /\ looper' = Tail(looper) /\ rec' = rec
        /\ UNCHANGED <<svc, gone, client, polling>>
    BY <1>3 DEF OnStartCommand, Goto, service
  <2>2. /\ 1 \in DOMAIN looper /\ looper[1].what = "intent"
        /\ pc' = [pc EXCEPT ![looper[1].id] = "begin"]
        /\ \A k \in DOMAIN looper' : k + 1 \in DOMAIN looper /\ looper'[k] = looper[k + 1]
    BY <1>3, <2>1, Served DEF OnStartCommand, Goto
  <2>3. \A k \in DOMAIN looper' : k \in Nat \ {0}
    <3>1. looper' \in Seq(ToLooper)
      BY <2>1, HeadTailProperties DEF VpnTypeOK, ToLooper
    <3>2. QED BY <3>1
  <2>4. Intents'
    <3>1. \A k \in DOMAIN looper' : looper'[k].what = "intent" =>
            pc'[looper'[k].id] = "sent" /\ svc'[looper'[k].id] = looper'[k].to
      BY <1>0, <2>1, <2>2, <2>3 DEF Intents, Callers
    <3>2. \A k, l \in DOMAIN looper' :
            k # l /\ looper'[k].what = "intent" /\ looper'[l].what = "intent" =>
              looper'[k].id # looper'[l].id
      BY <1>0, <2>2, <2>3 DEF Intents
    <3>3. QED BY <3>1, <3>2 DEF Intents
  <2>5. \A i \in Jobs : Ending(i)' => Ending(i)
    BY <1>0, <2>1, <2>2, VpnAssumption DEF Ending
  <2>6. LastMessage' /\ Successive'
    BY <2>1, <2>5, QueueServed DEF LastMessage
  <2>7. Fresh'
    BY <1>0, <2>1, <2>2, QueueServed DEF Fresh, Callers
  <2>8. QED BY <2>4, <2>6, <2>7
<1>4. CASE OnDestroy
  <2>1. looper # <<>> /\ looper' = Tail(looper) /\ rec' = rec /\ UNCHANGED <<gone, client, polling>>
    BY <1>4 DEF OnDestroy, service
  <2>2. /\ 1 \in DOMAIN looper /\ Destroyed(looper[1].to, 1) /\ looper[1].to \in Jobs
        /\ pc' = [pc EXCEPT ![Main] = "begin"] /\ svc' = [svc EXCEPT ![Main] = looper[1].to]
        /\ \A k \in DOMAIN looper' : k + 1 \in DOMAIN looper /\ looper'[k] = looper[k + 1]
    BY <1>4, <2>1, Served, Looper DEF OnDestroy, Destroyed
  <2>3. \A k \in DOMAIN looper' : k \in Nat \ {0}
    <3>1. looper' \in Seq(ToLooper)
      BY <2>1, HeadTailProperties DEF VpnTypeOK, ToLooper
    <3>2. QED BY <3>1
  <2>4. Intents'
    <3>1. \A k \in DOMAIN looper' : looper'[k].what = "intent" =>
            pc'[looper'[k].id] = "sent" /\ svc'[looper'[k].id] = looper'[k].to
      BY <1>0, <2>1, <2>2, <2>3, VpnAssumption DEF Intents, Callers
    <3>2. \A k, l \in DOMAIN looper' :
            k # l /\ looper'[k].what = "intent" /\ looper'[l].what = "intent" =>
              looper'[k].id # looper'[l].id
      BY <1>0, <2>2, <2>3 DEF Intents
    <3>3. QED BY <3>1, <3>2 DEF Intents
  <2>5. LastMessage' /\ Successive'
    <3>1. \A i \in Jobs : Ending(i)' => i = looper[1].to
      BY <1>0, <2>2 DEF Ending, Callers
    <3>2. \A i \in Jobs : i = looper[1].to => NoMessage(i)'
      <4>1. ASSUME NEW i \in Jobs, i = looper[1].to PROVE NoMessage(i)'
        <5>1. i # rec /\ \A k \in DOMAIN looper : k > 1 => looper[k].to # i
          BY <2>2, <4>1 DEF LastMessage
        <5>2. \A k \in DOMAIN looper' : k + 1 > 1
          BY <2>3
        <5>3. QED BY <2>1, <2>2, <5>1, <5>2 DEF NoMessage
      <4>2. QED BY <4>1
    <3>3. QED BY <2>1, <3>1, <3>2, QueueServed DEF LastMessage
  <2>6. Fresh'
    BY <1>0, <2>1, <2>2, QueueServed, VpnAssumption DEF Fresh, NoMessage, Callers
  <2>7. QED BY <2>4, <2>5, <2>6
<1>5. CASE CancelScope
  <2>1. UNCHANGED <<looper, rec, client, polling>> /\ gone' = gone \cup {svc[Main]}
    BY <1>5 DEF CancelScope, service
  <2>2. /\ pc[Main] = "cancel" /\ pc' = [pc EXCEPT ![Main] = "done"]
        /\ svc' = [svc EXCEPT ![Main] = Nobody]
        /\ svc[Main] \in Jobs
    BY <1>5 DEF CancelScope, Leave, At, Locals
  <2>3. Intents' /\ Successive'
    BY <1>0, <2>1, <2>2, VpnAssumption DEF Intents, Successive, Destroyed, Callers
  <2>4. LastMessage'
    <3>1. Ending(svc[Main]) /\ \A i \in Jobs : ~Ending(i)'
      BY <1>0, <2>2 DEF Ending, Stopping, Callers
    <3>2. QED BY <2>1, <2>2, <3>1 DEF LastMessage, Destroyed, NoMessage
  <2>5. Fresh'
    BY <1>0, <2>1, <2>2, VpnAssumption DEF Fresh, NoMessage, Callers
  <2>6. QED BY <2>3, <2>4, <2>5
<1>6. CASE Destroys
  <2>1. /\ rec \in Jobs /\ rec' = Nobody /\ UNCHANGED <<pc, svc, gone, client, polling>>
        /\ looper' = Append(looper, [what |-> "destroy", id |-> rec, to |-> rec])
    BY <1>0, <1>6 DEF Destroys, JobOrNone, local, service
  <2>2. PICK n : /\ DOMAIN looper' = DOMAIN looper \cup {n} /\ n \in Nat
                 /\ \A k \in DOMAIN looper : k < n /\ looper'[k] = looper[k]
                 /\ looper'[n] = [what |-> "destroy", id |-> rec, to |-> rec]
    <3>1. [what |-> "destroy", id |-> rec, to |-> rec] \in ToLooper
      BY <2>1 DEF ToLooper
    <3>2. QED BY <2>1, <3>1, Appended
  <2>3. Intents'
    BY <1>0, <2>1, <2>2 DEF Intents
  <2>4. LastMessage'
    BY <1>0, <2>1, <2>2, VpnAssumption DEF LastMessage, Destroyed, NoMessage, Ending
  <2>5. Successive'
    BY <1>0, <2>1, <2>2, VpnAssumption DEF Successive, Destroyed
  <2>6. Fresh'
    BY <1>0, <2>1, <2>2, VpnAssumption DEF Fresh, NoMessage
  <2>7. QED BY <2>3, <2>4, <2>5, <2>6
<1>7. CASE Revoke \/ \E j \in Jobs : SessionCloses(j)
  BY <1>7 DEF Intents, LastMessage, Successive, Fresh, Destroyed, NoMessage, Ending,
         Revoke, SessionCloses,
     local, service
<1>8. ASSUME NEW j \in Jobs, PollTick(j) PROVE Intents' /\ LastMessage' /\ Successive' /\ Fresh'
  <2>1. UNCHANGED <<looper, rec, gone, client, polling>> /\ polling[j]
    BY <1>8 DEF PollTick, android, service
  <2>2. pc' = [pc EXCEPT ![Main] = "pubRead"] /\ svc' = [svc EXCEPT ![Main] = j]
    BY <1>8 DEF PollTick
  <2>3. Intents' /\ Successive'
    BY <1>0, <2>1, <2>2, VpnAssumption DEF Intents, Successive, Destroyed, Callers
  <2>4. LastMessage'
    BY <1>0, <2>1, <2>2 DEF LastMessage, Destroyed, NoMessage, Ending, Stopping, Callers
  <2>5. Fresh'
    BY <1>0, <2>1, <2>2, VpnAssumption DEF Fresh, NoMessage, Callers
  <2>6. QED BY <2>3, <2>4, <2>5
<1>9. ASSUME NEW j \in Jobs, NEW button \in {"start", "stop"}, Click(j, button)
      PROVE  Intents' /\ LastMessage' /\ Successive' /\ Fresh'
  <2>1. PICK to \in Jobs :
          /\ to = IF rec = Nobody THEN j ELSE rec
          /\ rec' = to
          /\ looper' = Append(looper, [what |-> "intent", id |-> j, to |-> to])
          /\ svc' = [svc EXCEPT ![j] = to]
    BY <1>9 DEF Click
  <2>2. /\ pc[j] = "unused" /\ pc' = [pc EXCEPT ![j] = "sent"] /\ UNCHANGED <<gone, client, polling>>
    BY <1>9 DEF Click, At, service
  <2>3. PICK n : /\ DOMAIN looper' = DOMAIN looper \cup {n} /\ n \in Nat
                 /\ \A k \in DOMAIN looper : k < n /\ looper'[k] = looper[k]
                 /\ looper'[n] = [what |-> "intent", id |-> j, to |-> to]
    <3>1. [what |-> "intent", id |-> j, to |-> to] \in ToLooper
      BY <2>1 DEF ToLooper
    <3>2. QED BY <2>1, <3>1, Appended
  <2>4. Intents'
    <3>1. \A k \in DOMAIN looper : looper[k].what = "intent" => looper[k].id # j
      BY <2>2 DEF Intents
    <3>2. QED BY <1>0, <2>1, <2>2, <2>3, <3>1 DEF Intents, Callers
  <2>5. LastMessage'
    <3>1. \A i \in Jobs : Ending(i)' => Ending(i)
      BY <1>0, <2>1, <2>2, VpnAssumption DEF Ending, Callers
    <3>2. \A i \in Jobs : Ending(i) \/ i \in gone => i # to
      BY <1>0, <2>1, <2>2 DEF LastMessage, NoMessage, Fresh, Ending, Callers
    <3>3. \A m \in DOMAIN looper, i \in Jobs : Destroyed(i, m) => i # to
      BY <1>0, <2>1, <2>2 DEF LastMessage, NoMessage, Fresh, Destroyed
    <3>4. QED BY <1>0, <2>1, <2>2, <2>3, <3>1, <3>2, <3>3 DEF LastMessage, Destroyed, NoMessage
  <2>6. Successive'
    <3>1. \A l \in DOMAIN looper : looper[l].to # to => looper[l].to # rec
      BY <1>0, <2>1, VpnAssumption
    <3>2. ASSUME NEW l \in DOMAIN looper, looper[l].to # to
          PROVE  \E m \in DOMAIN looper : l <= m /\ Destroyed(looper[l].to, m)
      BY <3>1, <3>2 DEF Successive
    <3>3. \A l \in DOMAIN looper', k \in DOMAIN looper' : l < k => l \in DOMAIN looper
      BY <1>0, <2>3
    <3>4. ASSUME NEW l \in DOMAIN looper, NEW k \in DOMAIN looper', l < k, looper'[k].to # looper'[l].to
          PROVE  \E m \in DOMAIN looper : l <= m /\ m < k /\ Destroyed(looper[l].to, m)
      <4>1. CASE k = n
        BY <2>3, <3>2, <3>4, <4>1
      <4>2. CASE k # n
        BY <2>3, <3>4, <4>2 DEF Successive
      <4>3. QED BY <4>1, <4>2
    <3>5. ASSUME NEW l \in DOMAIN looper', NEW k \in DOMAIN looper', l < k,
                 looper'[k].to # looper'[l].to
          PROVE  \E m \in DOMAIN looper' :
                   l <= m /\ m < k /\ looper'[m].what = "destroy" /\ looper'[m].to = looper'[l].to
      <4>1. PICK m \in DOMAIN looper : l <= m /\ m < k /\ Destroyed(looper[l].to, m)
        BY <3>3, <3>4, <3>5
      <4>2. QED BY <2>3, <3>3, <3>5, <4>1 DEF Destroyed
    <3>6. ASSUME NEW l \in DOMAIN looper', looper'[l].to # rec'
          PROVE  \E m \in DOMAIN looper' :
                   l <= m /\ looper'[m].what = "destroy" /\ looper'[m].to = looper'[l].to
      <4>1. l \in DOMAIN looper /\ looper'[l] = looper[l]
        BY <2>1, <2>3, <3>6
      <4>2. PICK m \in DOMAIN looper : l <= m /\ Destroyed(looper[l].to, m)
        BY <2>1, <3>2, <3>6, <4>1
      <4>3. QED BY <2>3, <4>1, <4>2 DEF Destroyed
    <3>7. QED BY <3>5, <3>6 DEF Successive, Destroyed
  <2>7. Fresh'
    BY <1>0, <2>1, <2>2, <2>3, VpnAssumption DEF Fresh, NoMessage, Callers
  <2>8. QED BY <2>4, <2>5, <2>6, <2>7
<1>10. QED BY <1>1, <1>2, <1>3, <1>4, <1>5, <1>6, <1>7, <1>8, <1>9, Cases

LEMMA QInvStep == QInv /\ [VpnNext]_vpnVars => QInv'
BY VpnTypeStep, LocalsStep, AssignedStep, TunnelsStep, QueueStep DEF QInv

-----------------------------------------------------------------------------
(* A caller's step makes nobody busy, and ends nothing.                    *)
LEMMA CallerBusy ==
  ASSUME QInv, NEW c \in Callers, CallerSteps(c)
  PROVE  /\ UNCHANGED <<looper, rec, gone>> /\ svc[c] \in Jobs
         /\ \A d \in Callers : d # c => pc'[d] = pc[d] /\ my'[d] = my[d] /\ svc'[d] = svc[d]
         /\ \A d \in Callers : Busy(d)' => Busy(d)
         /\ \A j \in Jobs : Active(j)' => Active(j) /\ svc'[j] = svc[j]
         /\ \A i \in Jobs : Ending(i)' <=> Ending(i)
         /\ Busy(c) \/ (c = Main /\ pc[c] \in Publishing)
         /\ pc'[c] # "done" => svc'[c] = svc[c]
         /\ pc[c] \notin {"unused", "sent", "done"}
<1>0. VpnTypeOK /\ Locals /\ Assigned
  BY DEF QInv
<1>1. Moves(c) /\ svc[c] \in Jobs
  BY <1>0, CallerMoves, VpnAssumption DEF Moves, Locals, Callers
<1>2. /\ \A d \in Callers : d # c => pc'[d] = pc[d] /\ my'[d] = my[d] /\ svc'[d] = svc[d]
      /\ pc'[c] # "done" => svc'[c] = svc[c]
      /\ UNCHANGED <<looper, rec, gone>>
      /\ pc[c] \notin {"unused", "sent", "done"}
  BY <1>0, <1>1 DEF Moves, VpnTypeOK
<1>3. c = Main => (pc'[c] \in Stopping <=> pc[c] \in Stopping)
  BY <1>0, CallerLocals
<1>4. \A d \in Callers : Busy(d)' => Busy(d)
  BY <1>2, <1>3, VpnAssumption DEF Busy, Active, Callers
<1>5. \A j \in Jobs : Active(j)' => Active(j) /\ svc'[j] = svc[j]
  BY <1>2 DEF Active, Callers
<1>6. \A i \in Jobs : Ending(i)' <=> Ending(i)
  BY <1>2, <1>3 DEF Ending, Callers, Stopping
<1>7. Busy(c) \/ (c = Main /\ pc[c] \in Publishing)
  BY <1>0, <1>2 DEF Busy, Active, Locals
<1>8. QED BY <1>1, <1>2, <1>4, <1>5, <1>6, <1>7

(* The field is written only by these two.                                 *)
LEMMA ClientWrites ==
  ASSUME QInv, NEW c \in Callers, CallerSteps(c)
  PROVE  client' = client \/ ClearClient(c) \/ (c \in Jobs /\ AssignClient(c))
BY DEF CallerSteps, Steps, ReadClient, TakeSession, Disconnected, PublishReads,
   PublishIdle, PublishAsks, PublishShows, BuildFails, Establish, ConnectRefused, ConnectDials,
   DialFails, Connected, StartPoller, Catch, CatchAsks, SetError, ShowIdle, StopSelf, Dropped, service

LEMMA OneBusyMoves ==
  ASSUME QInv, OneBusy, NEW c \in Callers, CallerSteps(c) PROVE OneBusy'
<1>0. /\ UNCHANGED gone
      /\ \A d \in Callers : Busy(d)' => Busy(d)
      /\ \A j \in Jobs : Active(j)' => Active(j) /\ svc'[j] = svc[j]
  BY CallerBusy
<1>1. \A j \in Jobs : Active(j)' => ~shown'.error
  <2>1. CASE c \in Jobs /\ SetError(c)
    <3>1. pc'[c] = "done" /\ pc[c] = "error"
      BY <2>1 DEF SetError, Leave, At, QInv, VpnTypeOK
    <3>2. Busy(c)
      BY <2>1, <3>1, VpnAssumption DEF Busy, Active
    <3>3. \A j \in Jobs : Active(j)' => j = c
      BY <1>0, <3>2, VpnAssumption DEF OneBusy, Busy, Callers
    <3>4. QED BY <3>1, <3>3 DEF Active
  <2>2. CASE shown' = shown \/ shown'.error = FALSE
    BY <1>0, <2>2 DEF OneBusy
  <2>3. CASE PublishIdle(c) \/ PublishShows(c) \/ (c \in Jobs /\ ShowIdle(c))
    <3>1. shown'.error = FALSE
      BY <2>3 DEF PublishIdle, PublishShows, ShowIdle, SetIdle
    <3>2. QED BY <2>2, <3>1
  <2>4. QED
    BY <2>1, <2>2, <2>3 DEF CallerSteps, Steps, ReadClient, ClearClient, TakeSession,
           Disconnected, PublishReads,
       PublishAsks, BuildFails, Establish, ConnectRefused, ConnectDials,
       DialFails, Connected, AssignClient, StartPoller, Catch, CatchAsks, StopSelf, Dropped
<1>2. QED BY <1>0, <1>1 DEF OneBusy

LEMMA OneClientMoves ==
  ASSUME QInv, OneBusy, OneClient, NEW c \in Callers, CallerSteps(c) PROVE OneClient'
<1>0. /\ UNCHANGED gone /\ svc[c] \in Jobs
      /\ \A d \in Callers : d # c => pc'[d] = pc[d] /\ my'[d] = my[d] /\ svc'[d] = svc[d]
      /\ \A d \in Callers : Busy(d)' => Busy(d)
      /\ Busy(c) \/ (c = Main /\ pc[c] \in Publishing)
      /\ pc'[c] # "done" => svc'[c] = svc[c]
  BY CallerBusy
<1>1. /\ pc \in [Callers -> Places] /\ my \in [Callers -> JobOrNone] /\ client \in [Jobs -> JobOrNone]
      /\ svc \in [Callers -> JobOrNone]
  BY DEF QInv, VpnTypeOK
<1>2. \A d \in Callers : pc[d] \in {"begin", "clear"} \cup Cleared => Busy(d)
  BY DEF QInv, Locals, Busy, Active, Stopping, Publishing, Cleared
<1>3. CASE ClearClient(c)
  <2>1. /\ pc[c] = "clear" /\ client' = [client EXCEPT ![svc[c]] = Nobody]
        /\ pc'[c] \notin {"begin", "clear"}
    BY <1>1, <1>3 DEF ClearClient, At, Goto, AfterStop
  <2>2. \A i \in Jobs : client'[i] = Nobody
    BY <1>1, <1>2, <2>1 DEF OneClient
  <2>3. \A d \in Callers : d # c => pc[d] \notin {"begin", "clear"}
    BY <1>2, <2>1 DEF OneBusy
  <2>4. \A d \in Callers : pc'[d] \notin {"begin", "clear"}
    BY <1>0, <2>1, <2>3
  <2>5. gone' \subseteq Jobs
    BY <1>0 DEF QInv, VpnTypeOK
  <2>6. QED BY <2>2, <2>4, <2>5 DEF OneClient
<1>4. CASE c \in Jobs /\ AssignClient(c)
  <2>1. /\ pc[c] = "assign" /\ client' = [client EXCEPT ![svc[c]] = c] /\ pc'[c] = "pubRead"
    BY <1>1, <1>4 DEF AssignClient, At, Goto
  <2>2. \A i \in Jobs : client[i] = Nobody
    BY <2>1 DEF OneClient, Cleared
  <2>3. \A i \in Jobs : client'[i] # Nobody => i = svc[c]
    BY <1>1, <2>1, <2>2
  <2>4. svc[c] \notin gone
    BY <1>4, <2>1 DEF OneBusy, Active
  <2>5. \A d \in Callers : pc'[d] \notin {"begin", "clear"} \cup Cleared
    BY <1>0, <1>2, <2>1, Zenon DEF OneBusy, Cleared
  <2>6. gone \subseteq Jobs
    BY DEF QInv, VpnTypeOK
  <2>7. QED BY <1>0, <2>3, <2>4, <2>5, <2>6 DEF OneClient
<1>5. CASE client' = client /\ ~ClearClient(c)
  <2>1. /\ pc'[c] \in {"begin", "clear"} => ReadClient(c)
        /\ pc'[c] \in Cleared => pc[c] \in Cleared
    <3>1. CASE Steps(c)
      BY <1>1, <1>5, <3>1, VpnAssumption
         DEF Steps, ReadClient, TakeSession, Disconnected, PublishReads, PublishIdle, PublishAsks,
             PublishShows, At, Goto, Leave, AfterStop, AfterPublish, Cleared
    <3>2. CASE c \in Jobs /\ ~Steps(c)
      BY <1>1, <3>2 DEF CallerSteps, BuildFails, Establish, ConnectRefused, ConnectDials,
         DialFails, Connected, AssignClient, StartPoller, Catch, CatchAsks, SetError, ShowIdle,
         StopSelf, Dropped,
         At, Goto, Leave, Cleared
    <3>3. QED BY <3>1, <3>2 DEF CallerSteps
  <2>2. pc'[c] \in {"begin", "clear"} =>
          /\ pc[c] = "begin" /\ my'[c] = client[svc[c]] /\ svc'[c] = svc[c]
    BY <1>1, <2>1 DEF ReadClient, At
  <2>3. /\ \A i, k \in Jobs : client'[i] # Nobody /\ client'[k] # Nobody => i = k
        /\ \A i \in gone' : client'[i] = Nobody
    BY <1>0, <1>5 DEF OneClient
  <2>4. \A d \in Callers : Busy(d)' /\ pc'[d] \in {"begin", "clear"} =>
          \A i \in Jobs : client'[i] # Nobody => i = svc'[d]
    BY <1>0, <1>2, <1>5, <2>2 DEF OneClient
  <2>5. \A d \in Callers : pc'[d] = "clear" => my'[d] = client'[svc'[d]]
    BY <1>0, <1>5, <2>2 DEF OneClient
  <2>6. \A d \in Callers : pc'[d] \in Cleared => \A i \in Jobs : client'[i] = Nobody
    BY <1>0, <1>5, <2>1 DEF OneClient
  <2>7. QED BY <2>3, <2>4, <2>5, <2>6 DEF OneClient
<1>6. QED BY <1>3, <1>4, <1>5, ClientWrites

LEMMA InUseMoves ==
  ASSUME QInv, InUseFirst, NEW c \in Callers, CallerSteps(c) PROVE InUseFirst'
<1>0. /\ UNCHANGED <<looper, rec>> /\ svc[c] \in Jobs
      /\ \A j \in Jobs : Active(j)' => Active(j) /\ svc'[j] = svc[j]
      /\ \A i \in Jobs : Ending(i)' <=> Ending(i)
      /\ pc[c] \notin {"unused", "sent", "done"}
  BY CallerBusy
<1>1. \A i \in Jobs : client'[i] # Nobody => InUse(i)
  <2>1. client \in [Jobs -> JobOrNone]
    BY DEF QInv, VpnTypeOK
  <2>2. CASE client' = client \/ ClearClient(c)
    BY <2>1, <2>2 DEF ClearClient, InUse
  <2>3. CASE c \in Jobs /\ AssignClient(c)
    BY <1>0, <2>1, <2>3 DEF AssignClient, InUse, Active
  <2>4. QED BY <2>2, <2>3, ClientWrites
<1>2. \A i \in Jobs : InUse(i)' => InUse(i)
  BY <1>0, <1>1 DEF InUse
<1>3. QED BY <1>0, <1>2 DEF InUseFirst, Destroyed

LEMMA UpIsHeldMoves ==
  ASSUME QInv, OneBusy, OneClient, UpIsHeld, NEW c \in Callers, CallerSteps(c) PROVE UpIsHeld'
<1>0. /\ svc[c] \in Jobs /\ \A d \in Callers : d # c => pc'[d] = pc[d] /\ my'[d] = my[d]
  BY CallerBusy
<1>1. /\ pc \in [Callers -> Places] /\ my \in [Callers -> JobOrNone] /\ client \in [Jobs -> JobOrNone]
      /\ tunnel \in [Jobs -> {"none", "fd", "dialing", "up", "stopped", "closed", "lost"}]
  BY DEF QInv, VpnTypeOK
<1>2. CASE ClearClient(c)
  BY <1>0, <1>1, <1>2, VpnAssumption DEF ClearClient, At, Goto, OneClient, UpIsHeld,
         Callers, clients
<1>3. CASE c \in Jobs /\ AssignClient(c)
  <2>1. \A i \in Jobs : client[i] = Nobody
    BY <1>3 DEF AssignClient, At, OneClient, Cleared
  <2>2. QED
    BY <1>0, <1>1, <1>3, <2>1, VpnAssumption DEF AssignClient, At, Goto, UpIsHeld, Callers,
           clients
<1>4. CASE TakeSession(c)
  <2>1. my[c] \in Jobs /\ client' = client /\ pc[c] = "take"
    BY <1>4 DEF TakeSession, At, QInv, Locals, service
  <2>2. tunnel'[my[c]] # "up" /\ \A x \in Jobs : tunnel'[x] = "up" => tunnel[x] = "up"
    BY <1>1, <1>4, <2>1 DEF TakeSession, QInv, Tunnels
  <2>3. QED BY <1>0, <2>1, <2>2 DEF UpIsHeld, Callers
<1>5. CASE c \in Jobs /\ Connected(c)
  BY <1>0, <1>1, <1>5 DEF Connected, At, Goto, UpIsHeld, Callers, service
<1>6. CASE client' = client /\ ~TakeSession(c) /\ ~(c \in Jobs /\ Connected(c)) /\ ~ClearClient(c)
            /\ ~(c \in Jobs /\ AssignClient(c))
  <2>1. \A x \in Jobs : tunnel'[x] = "up" => tunnel[x] = "up"
    BY <1>1, <1>6 DEF CallerSteps, Steps, ReadClient, Disconnected, PublishReads,
       PublishIdle, PublishAsks, PublishShows, BuildFails, Establish, ConnectRefused,
       ConnectDials,
       DialFails, StartPoller, Catch, CatchAsks, SetError, ShowIdle, StopSelf, Dropped, clients
  <2>2. pc[c] \notin {"take", "assign"}
    BY <1>6, VpnAssumption DEF CallerSteps, Steps, ReadClient, Disconnected, PublishReads,
       PublishIdle, PublishAsks, PublishShows, BuildFails, Establish, ConnectRefused,
       ConnectDials,
       DialFails, StartPoller, Catch, CatchAsks, SetError, ShowIdle, StopSelf, Dropped, At
  <2>3. QED BY <1>0, <1>6, <2>1, <2>2 DEF UpIsHeld, Callers
<1>7. QED BY <1>2, <1>3, <1>4, <1>5, <1>6, ClientWrites

LEMMA CalmServes == ASSUME QInv, Calm, OnStartCommand, ~crossed' PROVE Calm'
<1>0. /\ pc \in [Callers -> Places] /\ svc \in [Callers -> JobOrNone]
      /\ looper # <<>> /\ looper' = Tail(looper) /\ pc[Main] = "done"
      /\ UNCHANGED <<rec, svc, my, gone, client, tunnel>>
  BY DEF QInv, VpnTypeOK, OnStartCommand, At, Goto, service, clients
<1>1. PICK j \in Jobs : j = looper[1].id
  BY <1>0, Served DEF QInv, ToLooper
<1>2. PICK i0 \in Jobs : i0 = looper[1].to
  BY <1>0, Served DEF QInv, ToLooper
<1>3. /\ 1 \in DOMAIN looper /\ looper[1].what = "intent"
      /\ pc' = [pc EXCEPT ![j] = "begin"] /\ ~shown'.error
      /\ \A k \in Jobs : ~Active(k)
  BY <1>0, <1>1, Served DEF OnStartCommand, Goto, QInv
<1>4. /\ svc[j] = i0 /\ pc[j] = "sent" /\ i0 \notin gone
      /\ \A i \in gone : NoMessage(i)
  BY <1>1, <1>2, <1>3 DEF QInv, VpnTypeOK, Intents, LastMessage, NoMessage
<1>5. /\ \A d \in Callers : d # j => ~Busy(d)'
      /\ \A k \in Jobs : Active(k)' => k = j
  BY <1>0, <1>3, VpnAssumption DEF Busy, Active, Callers, Stopping
<1>6. \A i \in Jobs : client[i] # Nobody => i = i0
  <2>1. ASSUME NEW i \in Jobs, client[i] # Nobody, i # i0 PROVE FALSE
    <3>1. InUse(i) /\ ~Ending(i)
      BY <1>0, <2>1 DEF InUse, Ending, Stopping
    <3>2. \E m \in DOMAIN looper : m < 1
      BY <1>2, <1>3, <2>1, <3>1 DEF Calm, InUseFirst
    <3>3. QED BY <3>2, Looper DEF QInv
  <2>2. QED BY <2>1
<1>7. OneBusy'
  BY <1>0, <1>3, <1>4, <1>5 DEF OneBusy
<1>8. OneClient'
  <2>1. \A d \in Callers : pc'[d] \in {"begin", "clear"} \cup Cleared => d = j
    <3>1. \A d \in Callers : d # j => pc'[d] \in {"unused", "sent", "done"}
      BY <1>0, <1>3 DEF Active, Callers
    <3>2. QED BY <3>1 DEF Cleared
  <2>2. pc'[j] = "begin"
    BY <1>0, <1>3 DEF Callers
  <2>3. QED BY <1>0, <1>4, <1>6, <2>1, <2>2 DEF Calm, OneClient, Cleared
<1>9. UpIsHeld'
  BY <1>0, <1>3, <1>4 DEF Calm, UpIsHeld, Callers
<1>10. InUseFirst'
  <2>1. \A i \in Jobs : InUse(i)' => i = i0 \/ InUse(i)
    BY <1>0, <1>4, <1>5 DEF InUse
  <2>2. ASSUME NEW i \in Jobs, NEW m \in DOMAIN looper, Destroyed(i, m)
        PROVE  m - 1 \in DOMAIN looper' /\ Destroyed(i, m - 1)' /\ m \in Nat
    BY <1>0, <1>3, <2>2, Served DEF Destroyed, QInv
  <2>3. ASSUME NEW i \in Jobs, InUse(i)', NEW k \in DOMAIN looper', looper'[k].to # i
        PROVE  \E m \in DOMAIN looper' : m < k /\ Destroyed(i, m)'
    <3>1. k + 1 \in DOMAIN looper /\ looper[k + 1].to # i /\ k \in Nat /\ 1 < k + 1
      <4>1. k + 1 \in DOMAIN looper /\ looper[k + 1].to # i
        BY <1>0, <2>3, Served DEF QInv
      <4>2. k \in Nat \ {0}
        <5>1. looper' \in Seq(ToLooper)
          BY <1>0, HeadTailProperties DEF QInv, VpnTypeOK, ToLooper
        <5>2. QED BY <5>1
      <4>3. QED BY <4>1, <4>2
    <3>2. PICK m \in DOMAIN looper : m < k + 1 /\ Destroyed(i, m)
      <4>1. CASE i = i0
        BY <1>2, <1>3, <3>1, <4>1 DEF QInv, Successive
      <4>2. CASE i # i0
        <5>1. InUse(i) /\ ~Ending(i)
          BY <1>0, <2>1, <2>3, <4>2 DEF Ending, Stopping
        <5>2. QED BY <3>1, <5>1 DEF Calm, InUseFirst
      <4>3. QED BY <4>1, <4>2
    <3>3. QED BY <2>2, <3>1, <3>2
  <2>4. ASSUME NEW i \in Jobs, InUse(i)', i # rec'
        PROVE  \E m \in DOMAIN looper' : Destroyed(i, m)'
    <3>1. \E m \in DOMAIN looper : Destroyed(i, m)
      <4>1. CASE i = i0
        BY <1>0, <1>2, <1>3, <2>4, <4>1 DEF QInv, Successive
      <4>2. CASE i # i0
        <5>1. InUse(i) /\ ~Ending(i)
          BY <1>0, <2>1, <2>4, <4>2 DEF Ending, Stopping
        <5>2. QED BY <1>0, <2>4, <5>1 DEF Calm, InUseFirst
      <4>3. QED BY <4>1, <4>2
    <3>2. QED BY <2>2, <3>1
  <2>5. QED BY <2>3, <2>4 DEF InUseFirst
<1>11. QED BY <1>7, <1>8, <1>9, <1>10 DEF Calm

LEMMA CalmDestroys == ASSUME QInv, Calm, OnDestroy, ~crossed' PROVE Calm'
<1>0. /\ pc \in [Callers -> Places] /\ svc \in [Callers -> JobOrNone]
      /\ looper # <<>> /\ looper' = Tail(looper) /\ pc[Main] = "done"
      /\ UNCHANGED <<rec, my, gone, client, tunnel, shown>>
  BY DEF QInv, VpnTypeOK, OnDestroy, At, service, clients
<1>1. PICK i0 \in Jobs : i0 = looper[1].to
  BY <1>0, Served DEF QInv, ToLooper
<1>2. /\ 1 \in DOMAIN looper /\ pc' = [pc EXCEPT ![Main] = "begin"] /\ svc' = [svc EXCEPT ![Main] = i0]
      /\ \A k \in Jobs : ~Active(k)
  BY <1>0, <1>1, Served DEF OnDestroy, QInv
<1>3. \A i \in Jobs : InUse(i) => i = i0
  <2>1. ASSUME NEW i \in Jobs, InUse(i), i # i0 PROVE FALSE
    <3>1. ~Ending(i)
      BY <1>0, <2>1 DEF Ending, Stopping
    <3>2. \E m \in DOMAIN looper : m < 1
      BY <1>1, <1>2, <2>1, <3>1 DEF Calm, InUseFirst
    <3>3. QED BY <3>2, Looper DEF QInv
  <2>2. QED BY <2>1
<1>4. /\ \A k \in Jobs : ~Active(k)' /\ pc'[k] = pc[k]
      /\ pc'[Main] = "begin" /\ svc'[Main] = i0
  BY <1>0, <1>2, VpnAssumption DEF Active, Callers
<1>5. OneBusy'
  BY <1>4 DEF OneBusy, Busy, Callers
<1>6. OneClient'
  <2>1. \A d \in Callers : pc'[d] \in {"begin", "clear"} \cup Cleared => d = Main
    BY <1>4 DEF Active, Callers, Cleared
  <2>2. QED BY <1>0, <1>3, <1>4, <2>1 DEF Calm, OneClient, InUse, Cleared
<1>7. UpIsHeld'
  BY <1>0, <1>4 DEF Calm, UpIsHeld, Callers
<1>8. InUseFirst'
  <2>1. \A i \in Jobs : InUse(i)' => InUse(i)
    BY <1>0, <1>4 DEF InUse
  <2>2. \A i \in Jobs : i = i0 => Ending(i)'
    BY <1>4 DEF Ending, Stopping
  <2>3. QED BY <1>3, <2>1, <2>2 DEF InUseFirst
<1>9. QED BY <1>5, <1>6, <1>7, <1>8 DEF Calm

LEMMA CalmEnds == ASSUME QInv, Calm, CancelScope PROVE Calm'
<1>0. /\ pc \in [Callers -> Places] /\ svc \in [Callers -> JobOrNone]
      /\ pc[Main] = "cancel" /\ pc' = [pc EXCEPT ![Main] = "done"]
      /\ gone' = gone \cup {svc[Main]} /\ gone \subseteq Jobs /\ svc[Main] \in Jobs
      /\ UNCHANGED <<client, tunnel, shown>> /\ svc' = [svc EXCEPT ![Main] = Nobody]
      /\ my' = [my EXCEPT ![Main] = Nobody]
  BY DEF QInv, VpnTypeOK, Locals, CancelScope, Leave, At, service, clients
<1>1. /\ \A j \in Jobs : ~Active(j)
      /\ \A i \in Jobs : client[i] = Nobody
  BY <1>0, VpnAssumption, Zenon DEF Calm, OneBusy, OneClient, Busy, Stopping, Cleared, Callers
<1>2. \A j \in Jobs : ~Active(j)' /\ pc'[j] = pc[j]
  BY <1>0, <1>1, VpnAssumption DEF Active, Callers
<1>3. \A d \in Callers : pc'[d] \in {"unused", "sent", "done"}
  BY <1>0, <1>2 DEF Active, Callers
<1>4. OneBusy' /\ OneClient' /\ InUseFirst'
  <2>1. OneBusy'
    BY <1>2, <1>3 DEF OneBusy, Busy, Callers, Stopping
  <2>2. OneClient'
    BY <1>0, <1>1, <1>3 DEF OneClient, Cleared
  <2>3. InUseFirst'
    BY <1>0, <1>1, <1>2 DEF InUseFirst, InUse
  <2>4. QED BY <2>1, <2>2, <2>3
<1>5. UpIsHeld'
  <2>1. \A d \in Callers : pc[d] # "take"
    BY <1>0, <1>1 DEF Active, Callers
  <2>2. QED BY <1>0, <1>1, <2>1 DEF Calm, UpIsHeld, Active
<1>6. QED BY <1>4, <1>5 DEF Calm

LEMMA InUseAppends ==
  ASSUME QInv, InUseFirst, NEW m \in ToLooper, looper' = Append(looper, m),
         \A i \in Jobs : InUse(i)' => InUse(i), \A i \in Jobs : Ending(i) => Ending(i)',
         \A i \in Jobs : m.to # i => rec # i,
         \A i \in Jobs : rec' # i => rec # i \/ m = [what |-> "destroy", id |-> i, to |-> i]
  PROVE  InUseFirst'
<1>1. PICK n : /\ DOMAIN looper' = DOMAIN looper \cup {n} /\ n \in Nat
               /\ \A k \in DOMAIN looper : k < n /\ looper'[k] = looper[k]
               /\ looper'[n] = m
  BY Appended DEF QInv
<1>2. \A k \in DOMAIN looper : k \in Nat
  BY Looper DEF QInv
<1>3. ASSUME NEW i \in Jobs, InUse(i)', ~Ending(i)', NEW k \in DOMAIN looper', looper'[k].to # i
      PROVE  \E l \in DOMAIN looper' : l < k /\ Destroyed(i, l)'
  <2>1. PICK l \in DOMAIN looper : l < k /\ Destroyed(i, l)
    <3>1. CASE k = n
      BY <1>1, <1>3, <3>1 DEF InUseFirst
    <3>2. CASE k # n
      BY <1>1, <1>3, <3>2 DEF InUseFirst
    <3>3. QED BY <3>1, <3>2
  <2>2. QED BY <1>1, <2>1 DEF Destroyed
<1>4. ASSUME NEW i \in Jobs, InUse(i)', ~Ending(i)', i # rec'
      PROVE  \E l \in DOMAIN looper' : Destroyed(i, l)'
  <2>1. CASE i # rec
    BY <1>1, <1>4, <2>1 DEF InUseFirst, Destroyed
  <2>2. CASE m = [what |-> "destroy", id |-> i, to |-> i]
    BY <1>1, <2>2 DEF Destroyed
  <2>3. QED BY <1>4, <2>1, <2>2
<1>5. QED BY <1>3, <1>4 DEF InUseFirst

LEMMA CalmClicks ==
  ASSUME QInv, Calm, NEW j \in Jobs, NEW button \in {"start", "stop"}, Click(j, button) PROVE Calm'
<1>1. PICK to \in Jobs :
        /\ to = IF rec = Nobody THEN j ELSE rec
        /\ rec' = to
        /\ looper' = Append(looper, [what |-> "intent", id |-> j, to |-> to])
        /\ svc' = [svc EXCEPT ![j] = to]
  BY DEF Click
<1>2. /\ pc \in [Callers -> Places] /\ svc \in [Callers -> JobOrNone]
      /\ pc[j] = "unused" /\ pc' = [pc EXCEPT ![j] = "sent"]
      /\ UNCHANGED <<my, gone, client, tunnel, shown>>
  BY DEF QInv, VpnTypeOK, Click, At, service, clients
<1>3. /\ \A d \in Callers : d # j => pc'[d] = pc[d] /\ svc'[d] = svc[d]
      /\ pc'[j] = "sent" /\ pc[j] = "unused"
  BY <1>2, <1>1 DEF Callers
<1>4. /\ \A d \in Callers : Busy(d)' <=> Busy(d)
      /\ \A k \in Jobs : Active(k)' <=> Active(k)
      /\ ~Active(j) /\ j # Main
  BY <1>3, VpnAssumption DEF Busy, Active, Callers
<1>5. OneBusy'
  BY <1>2, <1>3, <1>4 DEF Calm, OneBusy, Callers
<1>6. OneClient'
  <2>1. \A d \in Callers : pc'[d] \in {"begin", "clear"} \cup Cleared =>
          d # j /\ pc'[d] = pc[d] /\ svc'[d] = svc[d]
    BY <1>3 DEF Cleared
  <2>2. QED BY <1>2, <1>4, <2>1 DEF Calm, OneClient, Cleared
<1>7. UpIsHeld'
  BY <1>2, <1>3 DEF Calm, UpIsHeld, Callers
<1>8. InUseFirst'
  <2>1. \A i \in Jobs : InUse(i)' => InUse(i)
    BY <1>2, <1>3, <1>4 DEF InUse, Callers
  <2>2. \A i \in Jobs : Ending(i) => Ending(i)'
    BY <1>3, <1>4 DEF Ending, Callers
  <2>3. [what |-> "intent", id |-> j, to |-> to] \in ToLooper
    BY DEF ToLooper
  <2>4. \A i \in Jobs : to # i => rec # i
    BY <1>1, VpnAssumption
  <2>5. QED BY <1>1, <2>1, <2>2, <2>3, <2>4, InUseAppends DEF Calm
<1>9. QED BY <1>5, <1>6, <1>7, <1>8 DEF Calm

(* Steps that neither a caller takes nor the screen.                       *)
LEMMA CalmElse ==
  ASSUME QInv, Calm,
         \/ UNCHANGED vpnVars \/ Destroys \/ Revoke \/ \E j \in Jobs : SessionCloses(j) \/ PollTick(j)
  PROVE  Calm'
<1>0. /\ pc \in [Callers -> Places] /\ svc \in [Callers -> JobOrNone] /\ rec \in JobOrNone
      /\ tunnel \in [Jobs -> {"none", "fd", "dialing", "up", "stopped", "closed", "lost"}]
  BY DEF QInv, VpnTypeOK
<1>1. CASE /\ UNCHANGED <<pc, svc, my, gone, client, shown>>
           /\ \A x \in Jobs : tunnel'[x] = "up" => tunnel[x] = "up"
  <2>1. OneBusy' /\ OneClient' /\ UpIsHeld'
    BY <1>1 DEF Calm, OneBusy, Busy, Active, OneClient, UpIsHeld
  <2>2. \A i \in Jobs : (InUse(i)' <=> InUse(i)) /\ (Ending(i)' <=> Ending(i))
    BY <1>1 DEF InUse, Active, Ending
  <2>3. InUseFirst'
    <3>1. CASE UNCHANGED <<looper, rec>>
      BY <2>2, <3>1 DEF Calm, InUseFirst, Destroyed
    <3>2. CASE Destroys
      <4>1. /\ rec \in Jobs /\ looper' = Append(looper, [what |-> "destroy", id |-> rec, to |-> rec])
        BY <1>0, <3>2 DEF Destroys, JobOrNone
      <4>2. [what |-> "destroy", id |-> rec, to |-> rec] \in ToLooper
        BY <4>1 DEF ToLooper
      <4>3. QED BY <2>2, <4>1, <4>2, InUseAppends DEF Calm
    <3>3. QED
      BY <3>1, <3>2 DEF Revoke, SessionCloses, PollTick, vpnVars, android
  <2>4. QED BY <2>1, <2>3 DEF Calm
<1>2. CASE UNCHANGED vpnVars \/ Destroys \/ Revoke \/ \E j \in Jobs : SessionCloses(j)
  BY <1>0, <1>1, <1>2 DEF vpnVars, android, local, service, clients, Destroys, Revoke,
         SessionCloses
<1>3. ASSUME NEW j \in Jobs, PollTick(j) PROVE Calm'
  <2>1. /\ pc[Main] = "done" /\ pc'[Main] = "pubRead"
        /\ \A d \in Callers : d # Main => pc'[d] = pc[d] /\ svc'[d] = svc[d]
        /\ UNCHANGED <<looper, rec, gone, client, tunnel, my, shown>>
    BY <1>0, <1>3 DEF PollTick, At, Callers, android, service, clients
  <2>2. /\ \A d \in Callers : Busy(d)' => Busy(d)
        /\ \A k \in Jobs : (Active(k)' <=> Active(k)) /\ svc'[k] = svc[k]
        /\ \A i \in Jobs : ~Ending(i)' /\ ~Ending(i)
    BY <2>1, VpnAssumption DEF Busy, Active, Ending, Callers, Stopping
  <2>3. OneBusy'
    BY <2>1, <2>2 DEF Calm, OneBusy
  <2>4. OneClient'
    <3>1. \A d \in Callers : pc'[d] \in {"begin", "clear"} \cup Cleared =>
            pc'[d] = pc[d] /\ svc'[d] = svc[d]
      BY <2>1 DEF Cleared
    <3>2. QED BY <2>1, <2>2, <3>1 DEF Calm, OneClient, Cleared
  <2>5. InUseFirst'
    BY <2>1, <2>2 DEF Calm, InUseFirst, InUse, Destroyed
  <2>6. UpIsHeld'
    BY <2>1, VpnAssumption DEF Calm, UpIsHeld, Callers
  <2>7. QED BY <2>3, <2>4, <2>5, <2>6 DEF Calm
<1>4. QED BY <1>2, <1>3

LEMMA CrossedStays == [VpnNext]_vpnVars /\ QInv /\ crossed => crossed'
<1> SUFFICES ASSUME [VpnNext]_vpnVars, QInv, crossed PROVE crossed'
  OBVIOUS
<1>1. ASSUME NEW c \in Callers, CallerSteps(c) PROVE crossed'
  BY <1>1, CallerMoves DEF Moves, QInv
<1>2. QED
  BY <1>1, Cases DEF vpnVars, OnStartCommand, OnDestroy, CancelScope, Destroys, Revoke,
         SessionCloses, PollTick, Click

LEMMA VInvInit == VpnInit => VInv
<1> SUFFICES ASSUME VpnInit PROVE VInv
  OBVIOUS
<1>1. VpnTypeOK
  <2>0. looper \in Seq([what : {"intent", "destroy"}, id : Jobs, to : Jobs])
    BY EmptySeq DEF VpnInit
  <2>1. /\ rec \in JobOrNone /\ iface \in JobOrNone
        /\ wanted \in BOOLEAN /\ crossed \in BOOLEAN /\ gone \subseteq Jobs
    BY DEF VpnInit, JobOrNone
  <2>2. /\ client \in [Jobs -> JobOrNone] /\ polling \in [Jobs -> BOOLEAN]
        /\ kind \in [Jobs -> {"start", "stop"}]
        /\ svc \in [Callers -> JobOrNone] /\ my \in [Callers -> JobOrNone]
    BY DEF VpnInit, JobOrNone
  <2>3. /\ pc \in [Callers -> Places] /\ seen \in [Callers -> ClientStatuses]
        /\ tunnel \in [Jobs -> {"none", "fd", "dialing", "up", "stopped", "closed", "lost"}]
        /\ session \in [Jobs -> BOOLEAN] /\ status \in [Jobs -> ClientStatuses]
    BY DEF VpnInit, Places, ClientStatuses
  <2>4. shown \in Screens
    BY DEF VpnInit, Screens, ClientStatuses
  <2>5. QED BY <2>0, <2>1, <2>2, <2>3, <2>4 DEF VpnTypeOK, Screens
<1>2. DOMAIN looper = {}
  BY DEF VpnInit
<1>3. Locals /\ Assigned /\ Tunnels
  <2>1. pc[Main] = "done" /\ \A j \in Jobs : pc[j] = "unused"
    BY VpnAssumption DEF VpnInit, Callers
  <2>2. \A c \in Callers : pc[c] \in {"unused", "done"} /\ my[c] = Nobody
    BY DEF VpnInit
  <2>3. Locals
    BY <2>1, <2>2 DEF Locals, Publishing
  <2>4. Assigned
    BY <2>2 DEF VpnInit, Assigned
  <2>5. Tunnels
    BY <2>1 DEF VpnInit, Tunnels
  <2>6. QED BY <2>3, <2>4, <2>5
<1>4. Intents /\ LastMessage /\ Successive /\ Fresh
  BY <1>2, VpnAssumption DEF VpnInit, Intents, LastMessage, Successive, Fresh, NoMessage,
         Ending, Stopping, Callers
<1>5. Calm
  BY <1>2, VpnAssumption DEF VpnInit, Calm, OneBusy, Busy, Active, InUseFirst, InUse,
         OneClient, UpIsHeld, Cleared,
     Stopping, Callers
<1>6. QED BY <1>1, <1>3, <1>4, <1>5 DEF VInv, QInv

LEMMA VInvStep == VInv /\ [VpnNext]_vpnVars => VInv'
<1> SUFFICES ASSUME VInv, [VpnNext]_vpnVars PROVE VInv'
  OBVIOUS
<1>0. QInv /\ QInv'
  BY QInvStep DEF VInv
<1>1. ASSUME ~crossed' PROVE Calm'
  <2>0. Calm
    BY <1>0, <1>1, CrossedStays DEF VInv
  <2>1. ASSUME NEW c \in Callers, CallerSteps(c) PROVE Calm'
    BY <1>0, <2>0, <2>1, OneBusyMoves, InUseMoves, OneClientMoves, UpIsHeldMoves DEF Calm
  <2>2. CASE OnStartCommand \/ OnDestroy \/ CancelScope
    BY <1>0, <1>1, <2>0, <2>2, CalmServes, CalmDestroys, CalmEnds
  <2>3. ASSUME NEW j \in Jobs, NEW button \in {"start", "stop"}, Click(j, button) PROVE Calm'
    BY <1>0, <2>0, <2>3, CalmClicks
  <2>4. QED BY <1>0, <2>0, <2>1, <2>2, <2>3, CalmElse, Cases
<1>2. QED BY <1>0, <1>1 DEF VInv

LEMMA VInvariance == VpnSpec => []VInv
BY VInvInit, VInvStep, PTL DEF VpnSpec

(* The service's state keeps its types (GonnectVpnService.kt,              *)
(* AndroidVpnRuntime.kt).                                                  *)
THEOREM VpnTypeCorrect == VpnSpec => []VpnTypeOK
<1>1. VInv => VpnTypeOK
  BY DEF VInv, QInv
<1>2. QED BY <1>1, VInvariance, PTL

(* Who has a tunnel that dials, is up or stops is either the one client or *)
(* the one busy caller, and never both.                                    *)
LEMMA Ordered == VInv => TunnelsInOrder
<1> SUFFICES ASSUME VInv, ~crossed
             PROVE  /\ TunnelIsOwned
                    /\ Cardinality({x \in Jobs : tunnel[x] \in {"dialing", "up", "stopped"}}) <= 1
  BY DEF TunnelsInOrder, NoTunnelLost, OneTunnel
<1>0. QInv /\ Calm
  BY DEF VInv
<1>1. TunnelIsOwned
  <2>1. ASSUME NEW x \in Jobs, tunnel[x] = "up" PROVE Owned(x)
    <3>1. CASE \E i \in Jobs : client[i] = x
      BY <1>0, <3>1, VpnAssumption DEF Owned, Calm, OneClient
    <3>2. CASE ~\E i \in Jobs : client[i] = x
      BY <1>0, <2>1, <3>2 DEF Owned, Calm, UpIsHeld
    <3>3. QED BY <3>1, <3>2
  <2>2. QED BY <2>1 DEF TunnelIsOwned
<1> DEFINE Field(x) == \E i \in Jobs : client[i] = x
           Hand(c, x) == \/ c = x /\ pc[c] \in {"dial", "assign"}
                         \/ my[c] = x /\ pc[c] \in {"take", "wait"}
           Running(x) == tunnel[x] \in {"dialing", "up", "stopped"}
<1>2. ASSUME NEW x \in Jobs, Running(x) PROVE Field(x) \/ \E c \in Callers : Hand(c, x)
  BY <1>0, <1>2 DEF QInv, Tunnels, Calm, UpIsHeld, Callers
<1>3. ASSUME NEW x \in Jobs, NEW y \in Jobs, Running(x), Running(y) PROVE x = y
  <2>1. \A c \in Callers, z \in Jobs : Hand(c, z) => Busy(c) /\ ~Field(x) /\ ~Field(y)
    <3>1. ASSUME NEW c \in Callers, NEW z \in Jobs, Hand(c, z)
          PROVE  Busy(c) /\ pc[c] \in Cleared
      BY <3>1, VpnAssumption DEF Busy, Active, Cleared, Stopping
    <3>2. \A c \in Callers : pc[c] \in Cleared => ~Field(x) /\ ~Field(y)
      BY <1>0, VpnAssumption DEF Calm, OneClient
    <3>3. QED BY <3>1, <3>2
  <2>2. CASE Field(x) /\ Field(y)
    BY <1>0, <2>2, VpnAssumption DEF Calm, OneClient
  <2>3. ASSUME NEW c \in Callers, NEW d \in Callers, Hand(c, x), Hand(d, y) PROVE x = y
    <3>1. c = d
      BY <1>0, <2>1, <2>3 DEF Calm, OneBusy
    <3>2. QED BY <2>3, <3>1
  <2>4. /\ Field(x) \/ \E c \in Callers : Hand(c, x)
        /\ Field(y) \/ \E c \in Callers : Hand(c, y)
    BY <1>2, <1>3
  <2> HIDE DEF Field, Hand
  <2>5. QED BY <2>1, <2>2, <2>3, <2>4
<1>4. Cardinality({x \in Jobs : tunnel[x] \in {"dialing", "up", "stopped"}}) <= 1
  <2> DEFINE S == {x \in Jobs : tunnel[x] \in {"dialing", "up", "stopped"}}
  <2>1. S = {} \/ \E x : S = {x}
    BY <1>3
  <2>2. QED BY <2>1, FS_EmptySet, FS_Singleton
<1>5. QED BY <1>1, <1>4

(* However many clicks, and wherever Android destroys an instance: as long *)
(* as no coroutine meets another, every tunnel that is up has an owner who *)
(* will stop it, and there is one at a time (startVpn, stopVpn, onDestroy).*)
THEOREM TunnelsOrdered == VpnSpec => []TunnelsInOrder
BY Ordered, VInvariance, PTL

(* As long as no coroutine meets another, only a click or the poller of an *)
(* earlier start takes an error off the screen (publishState).             *)
THEOREM ErrorsStay == VpnSpec => ErrorStays
<1> DEFINE Step == shown.error /\ ~shown'.error =>
                     shown'.busy \/ crossed \/ \E i \in Jobs \ gone : polling[i]
<1>1. ASSUME VInv, [VpnNext]_vpnVars PROVE [Step]_vpnVars
  <2> SUFFICES ASSUME shown.error, ~shown'.error, ~crossed
               PROVE  shown'.busy \/ \E i \in Jobs \ gone : polling[i]
    BY <1>1
  <2>0. QInv /\ Calm
    BY <1>1 DEF VInv
  <2>1. \A j \in Jobs : ~Active(j)
    BY <2>0 DEF Calm, OneBusy
  <2>2. ASSUME NEW c \in Callers, CallerSteps(c) PROVE \E i \in Jobs \ gone : polling[i]
    <3>1. c = Main /\ svc[c] \in Jobs
      BY <2>0, <2>1, <2>2, CallerBusy DEF Active, Callers
    <3>2. pc[Main] \in Publishing
      BY <2>2, <3>1, VpnAssumption DEF CallerSteps, Steps, ReadClient, ClearClient,
             TakeSession, Disconnected,
         PublishReads, PublishIdle, PublishAsks, PublishShows, At, Publishing
    <3>3. QED BY <2>0, <3>1, <3>2 DEF QInv, Locals
  <2>3. CASE OnStartCommand
    BY <2>3 DEF OnStartCommand
  <2>4. QED
    BY <1>1, <2>2, <2>3, Cases DEF vpnVars, OnDestroy, CancelScope, Destroys, Revoke,
           SessionCloses, PollTick, Click
<1>2. QED BY <1>1, VInvariance, PTL DEF VpnSpec, ErrorStays
=============================================================================
