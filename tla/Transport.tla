------------------------------ MODULE Transport ------------------------------
(***************************************************************************)
(* The websocket transport (transport/transport.go, dial_native.go): the   *)
(* opening of a connection, the packets that one end writes and the other  *)
(* reads, and the Close calls of both ends.                                *)
(*                                                                         *)
(* A message is its kind and its size, and is known by its place on the    *)
(* wire; of a packet only what fits the reader's buffer arrives.  Text     *)
(* messages come from peers that are not this program.  Of the websocket   *)
(* library the model takes: messages stay in order and whole; on an end    *)
(* that is closed, lost or whose context is done, calls fail, though a     *)
(* write may have reached the wire before it was told so; messages that    *)
(* have arrived may still be read, or not.                                 *)
(***************************************************************************)
EXTENDS Naturals, Sequences, FiniteSets

CONSTANTS
  Closers,       \* the calls of Close, each at one end
  Cap,           \* room of an event channel: 42
  Sizes, Rooms,  \* sizes of packets, and room in the reader's buffers
  BatchMax,      \* packets in one Write
  MaxMessages, MaxFailures \* bounds: messages on the wire, failed writes

ASSUME TransportAssumption ==
  /\ Cap \in Nat \ {0} /\ Sizes \subseteq Nat /\ Rooms \subseteq Nat
  /\ BatchMax \in Nat /\ MaxMessages \in Nat /\ MaxFailures \in Nat

VARIABLES
  dial,     \* where DialWithConfig is, or what became of it
  opts,     \* what its configuration asks for
  socket,   \* its socket: "none", "plain" or "protected"
  ws,       \* per end: the websocket
  ctxDone,  \* per end: its context is cancelled
  ev,       \* per end: the events in Conn.Ev
  close, at, \* per call of Close: where it is, at which end
  wire,     \* every message the client has sent
  pos,      \* how many of them the server has taken off the wire
  reading,  \* a Read is under way, and the room in its buffer
  room,
  got,      \* history: what the Reads returned
  batch, sent, \* the Write under way, and how many packets of it are sent
  reported, \* history: the packets that Writes said they sent
  failures  \* history: Writes that failed

opening == <<dial, opts, socket>>
closing == <<close, at>>
reader == <<pos, reading, room, got>>
writer == <<batch, sent, reported, failures>>
vars == <<opening, ws, ctxDone, ev, closing, wire, reader, writer>>

Ends == {"client", "server"}
Messages == [kind : {"binary", "text"}, size : Sizes]

TypeOK ==
  /\ dial \in {"options", "socket", "connect", "upgrade", "open", "failed"}
  /\ opts \subseteq {"dialer", "protect"}
  /\ socket \in {"none", "plain", "protected"}
  /\ ws \in [Ends -> {"none", "open", "lost", "closed"}]
  /\ ctxDone \in [Ends -> BOOLEAN]
  /\ ev \in [Ends -> Seq({"up", "down"})] /\ \A e \in Ends : Len(ev[e]) <= Cap
  /\ close \in [Closers -> {"idle", "event", "websocket", "done"}]
  /\ at \in [Closers -> Ends]
  /\ wire \in Seq(Messages) /\ pos \in 0 .. Len(wire)
  /\ reading \in BOOLEAN /\ room \in Nat
  /\ got \in Seq([place : Nat \ {0}, room : Nat, size : Nat])
  /\ batch \in Seq(Sizes) /\ sent \in 0 .. Len(batch)
  /\ reported \in Nat /\ failures \in 0 .. MaxFailures

Init ==
  /\ dial = "options" /\ opts \in SUBSET {"dialer", "protect"} /\ socket = "none"
  /\ ws = [e \in Ends |-> "none"] /\ ctxDone = [e \in Ends |-> FALSE]
  /\ ev = [e \in Ends |-> <<>>]
  /\ close = [c \in Closers |-> "idle"] /\ at = [c \in Closers |-> "client"]
  /\ wire = <<>> /\ pos = 0 /\ reading = FALSE /\ room = 0 /\ got = <<>>
  /\ batch = <<>> /\ sent = 0 /\ reported = 0 /\ failures = 0

Broken(e) == ws[e] \in {"lost", "closed"} \/ ctxDone[e]
-----------------------------------------------------------------------------
(* Opening.                                                                *)

(* Two ways to make the socket cannot be combined.                         *)
dialOptionsFromConfig ==
  /\ dial = "options"
  /\ dial' = IF opts = {"dialer", "protect"} THEN "failed" ELSE "socket"
  /\ UNCHANGED <<opts, socket, ws, ctxDone, ev, closing, wire, reader, writer>>

(* The socket is made; Control runs before it connects.                    *)
Control ==
  /\ dial = "socket"
  /\ \/ "protect" \notin opts /\ socket' = "plain" /\ dial' = "connect"
     \/ "protect" \in opts /\ socket' = "protected" /\ dial' = "connect"
     \/ "protect" \in opts /\ socket' = "plain" /\ dial' = "failed"
  /\ UNCHANGED <<opts, ws, ctxDone, ev, closing, wire, reader, writer>>

Connect ==
  /\ dial = "connect"
  /\ dial' = "upgrade"
  /\ UNCHANGED <<opts, socket, ws, ctxDone, ev, closing, wire, reader, writer>>

(* Accept, at the server: the upgrade, and the first event.                *)
Accept ==
  /\ dial = "upgrade" /\ ws["server"] = "none" /\ ~ctxDone["server"]
  /\ ws' = [ws EXCEPT !["server"] = "open"]
  /\ ev' = [ev EXCEPT !["server"] = <<"up">>]
  /\ UNCHANGED <<opening, ctxDone, closing, wire, reader, writer>>

(* The dial ends: the upgrade is answered, or something went wrong on the  *)
(* way; a server that has accepted notices a client that is gone.          *)
DialReturns ==
  \/ /\ dial = "upgrade" /\ ws["server"] # "none" /\ ~ctxDone["client"]
     /\ dial' = "open"
     /\ ws' = [ws EXCEPT !["client"] = IF ws["server"] = "closed" THEN "lost" ELSE "open"]
     /\ ev' = [ev EXCEPT !["client"] = <<"up">>]
     /\ UNCHANGED <<opts, socket, ctxDone, closing, wire, reader, writer>>
  \/ /\ dial \in {"connect", "upgrade"}
     /\ dial' = "failed"
     /\ ws' = [ws EXCEPT !["server"] = IF @ = "open" THEN "lost" ELSE @]
     /\ UNCHANGED <<opts, socket, ctxDone, ev, closing, wire, reader, writer>>
-----------------------------------------------------------------------------
(* The network, and the contexts of the two sessions.                      *)

Lose ==
  /\ \E e \in Ends : ws[e] = "open"
  /\ ws' = [e \in Ends |-> IF ws[e] = "open" THEN "lost" ELSE ws[e]]
  /\ UNCHANGED <<opening, ctxDone, ev, closing, wire, reader, writer>>

Cancel(e) ==
  /\ ~ctxDone[e]
  /\ ctxDone' = [ctxDone EXCEPT ![e] = TRUE]
  /\ UNCHANGED <<opening, ws, ev, closing, wire, reader, writer>>

(* A peer that is not this program sends a text message.                   *)
ForeignText ==
  /\ ws["client"] = "open" /\ Len(wire) < MaxMessages
  /\ \E s \in Sizes : wire' = Append(wire, [kind |-> "text", size |-> s])
  /\ UNCHANGED <<opening, ws, ctxDone, ev, closing, reader, writer>>
-----------------------------------------------------------------------------
(* Write.                                                                  *)

WriteCalled ==
  /\ ws["client"] # "none" /\ batch = <<>>
  /\ \E n \in 1 .. BatchMax : \E b \in [1 .. n -> Sizes] : batch' = b
  /\ sent' = 0
  /\ UNCHANGED <<opening, ws, ctxDone, ev, closing, wire, reader, reported, failures>>

Put == wire' = Append(wire, [kind |-> "binary", size |-> batch[sent + 1]])

(* The mutant: the packet that failed is counted.                          *)
WriteFails_CountsIt ==
  /\ batch # <<>> /\ Broken("client") /\ failures < MaxFailures
  /\ UNCHANGED wire
  /\ reported' = reported + sent + 1 /\ failures' = failures + 1
  /\ batch' = <<>> /\ sent' = 0
  /\ UNCHANGED <<opening, ws, ctxDone, ev, closing, reader>>

WriteFails ==
  /\ batch # <<>> /\ Broken("client") /\ failures < MaxFailures
  /\ UNCHANGED wire \/ (Len(wire) < MaxMessages /\ Put)
  /\ reported' = reported + sent /\ failures' = failures + 1
  /\ batch' = <<>> /\ sent' = 0
  /\ UNCHANGED <<opening, ws, ctxDone, ev, closing, reader>>

WriteOne ==
  /\ batch # <<>> /\ ws["client"] = "open" /\ Len(wire) < MaxMessages
  /\ Put
  /\ \/ /\ sent + 1 < Len(batch)
        /\ sent' = sent + 1 /\ UNCHANGED <<batch, reported>>
     \/ /\ sent + 1 = Len(batch)
        /\ sent' = 0 /\ batch' = <<>> /\ reported' = reported + Len(batch)
  /\ UNCHANGED <<opening, ws, ctxDone, ev, closing, reader, failures>>
-----------------------------------------------------------------------------
(* Read.                                                                   *)

(* Without buffers a Read returns nothing, and changes nothing.            *)
ReadCalled ==
  /\ ws["server"] # "none" /\ ~reading
  /\ \E r \in Rooms : room' = r
  /\ reading' = TRUE
  /\ UNCHANGED <<opening, ws, ctxDone, ev, closing, wire, pos, got, writer>>

Arrived == IF room < wire[pos + 1].size THEN room ELSE wire[pos + 1].size

ReadSkips ==
  /\ reading /\ ws["server"] # "closed" /\ pos < Len(wire)
  /\ wire[pos + 1].kind # "binary"
  /\ pos' = pos + 1
  /\ UNCHANGED <<opening, ws, ctxDone, ev, closing, wire, reading, room, got, writer>>

(* The mutant: the size of the message is returned, fit or not.            *)
ReadReturns_WholeSize ==
  /\ reading /\ ws["server"] # "closed" /\ pos < Len(wire)
  /\ wire[pos + 1].kind = "binary"
  /\ pos' = pos + 1 /\ reading' = FALSE
  /\ got' = Append(got, [place |-> pos + 1, room |-> room, size |-> wire[pos + 1].size])
  /\ UNCHANGED <<opening, ws, ctxDone, ev, closing, wire, room, writer>>

ReadReturns ==
  /\ reading /\ ws["server"] # "closed" /\ pos < Len(wire)
  /\ wire[pos + 1].kind = "binary"
  /\ pos' = pos + 1 /\ reading' = FALSE
  /\ got' = Append(got, [place |-> pos + 1, room |-> room, size |-> Arrived])
  /\ UNCHANGED <<opening, ws, ctxDone, ev, closing, wire, room, writer>>

(* A Read whose context is cancelled closes the websocket behind it.       *)
ReadFails ==
  /\ reading /\ Broken("server")
  /\ reading' = FALSE
  /\ ws' = [e \in Ends |-> IF ctxDone["server"] /\ ws[e] = "open" THEN "lost" ELSE ws[e]]
  /\ UNCHANGED <<opening, ctxDone, ev, closing, wire, pos, room, got, writer>>
-----------------------------------------------------------------------------
(* Close: the event first, then the websocket.                             *)

CloseCalled(c, e) ==
  /\ close[c] = "idle" /\ ws[e] # "none"
  /\ close' = [close EXCEPT ![c] = "event"] /\ at' = [at EXCEPT ![c] = e]
  /\ UNCHANGED <<opening, ws, ctxDone, ev, wire, reader, writer>>

(* The mutant: the channel has room for one event less.                    *)
SendDown_SmallerChannel(c) ==
  /\ close[c] = "event" /\ Len(ev[at[c]]) < Cap - 1
  /\ ev' = [ev EXCEPT ![at[c]] = Append(@, "down")]
  /\ close' = [close EXCEPT ![c] = "websocket"]
  /\ UNCHANGED <<opening, ws, ctxDone, at, wire, reader, writer>>

SendDown(c) ==
  /\ close[c] = "event" /\ Len(ev[at[c]]) < Cap
  /\ ev' = [ev EXCEPT ![at[c]] = Append(@, "down")]
  /\ close' = [close EXCEPT ![c] = "websocket"]
  /\ UNCHANGED <<opening, ws, ctxDone, at, wire, reader, writer>>

CloseWebsocket(c) ==
  /\ close[c] = "websocket"
  /\ close' = [close EXCEPT ![c] = "done"]
  /\ ws' = [e \in Ends |-> IF e = at[c] THEN "closed"
                           ELSE IF ws[e] = "open" THEN "lost" ELSE ws[e]]
  /\ UNCHANGED <<opening, ctxDone, ev, at, wire, reader, writer>>

Close(c) == SendDown(c) \/ CloseWebsocket(c)

Next ==
  \/ dialOptionsFromConfig \/ Control \/ Connect \/ Accept \/ DialReturns
  \/ Lose \/ ForeignText \/ (\E e \in Ends : Cancel(e))
  \/ WriteCalled \/ WriteOne \/ WriteFails
  \/ ReadCalled \/ ReadSkips \/ ReadReturns \/ ReadFails
  \/ \E c \in Closers : Close(c) \/ (\E e \in Ends : CloseCalled(c, e))

Spec == Init /\ [][Next]_vars

(* The goroutines in Close and Read go on when nothing blocks them.        *)
FairSpec ==
  Spec /\ WF_vars(ReadFails) /\ \A c \in Closers : WF_vars(Close(c))
-----------------------------------------------------------------------------
(* Reads return the packets in the order they were sent, each once, none   *)
(* left out, and of each what fits; text messages are no packets.          *)
ReadsInOrder ==
  /\ \A k \in DOMAIN got :
       /\ got[k].place \in 1 .. pos /\ wire[got[k].place].kind = "binary"
       /\ got[k].size <= got[k].room /\ got[k].size <= wire[got[k].place].size
       /\ got[k].size \in {got[k].room, wire[got[k].place].size}
  /\ \A k, l \in DOMAIN got : k < l => got[k].place < got[l].place
  /\ \A p \in 1 .. pos :
       wire[p].kind = "binary" => \E k \in DOMAIN got : got[k].place = p

Packets == Cardinality({p \in DOMAIN wire : wire[p].kind = "binary"})

(* A Write never claims a packet that it did not send; it may have sent    *)
(* one more than it claims for each time it failed.                        *)
WriteTellsTruth ==
  Packets \in reported + sent .. reported + sent + failures

(* No connection is made over a socket that should have been protected and *)
(* is not: its packets would go into the tunnel they come from.            *)
ProtectedFirst ==
  "protect" \in opts /\ dial \in {"connect", "upgrade", "open"} => socket = "protected"

Calls(e) == Cardinality({c \in Closers : close[c] # "idle" /\ at[c] = e})

(* Close comes back as long as the channel has room for the event of the   *)
(* opening and for one of each Close at that end.                          *)
CloseReturns ==
  \A c \in Closers : close[c] = "event" ~> (close[c] = "done" \/ Calls(at[c]) >= Cap)

(* A Read never outlives the connection.                                   *)
ReadEnds == reading /\ Broken("server") ~> ~reading

(* Nobody is left in a call of a connection that has ended.                *)
CallsReturn == CloseReturns /\ ReadEnds
=============================================================================
