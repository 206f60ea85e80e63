--------------------------- MODULE DataPathProofs ---------------------------
(***************************************************************************)
(* What a packet passes on its way out of one machine: the TUN device that *)
(* the platform makes (NativeTun) and the websocket (Transport).  The two  *)
(* share no state; each has an invariant of its own.                       *)
(*                                                                         *)
(* Transport, for any sizes, rooms, channel and calls: the reads are the   *)
(* packets of the wire up to pos, in order and cut to what fits.  The wire *)
(* only grows, at its end (Grows), so that nothing a Read has returned     *)
(* changes behind it, and every packet on it is one that a Write reports,  *)
(* or one that a failed Write may have sent.                               *)
(*                                                                         *)
(* NativeTun, for addresses of any width of four octets: arithmetic first, *)
(* up to the prefix that is read back from a mask (MasksReadBack), then    *)
(* the list of commands: what is not configured yet is still on the list   *)
(* (OnItsWay), and only its last command may go astray (Planned).          *)
(***************************************************************************)
EXTENDS Transport, NativeTun, SequenceTheorems, FiniteSetTheorems, WellFoundedInduction, TLAPS

-----------------------------------------------------------------------------
(* The transport.                                                          *)

Started == batch # <<>> => sent < Len(batch)

TInv == TypeOK /\ ReadsInOrder /\ Started

LEMMA TInvInit == Init => TInv
<1> SUFFICES ASSUME Init PROVE TInv
  OBVIOUS
<1> USE TransportAssumption DEF Init
<1>1. ev \in [Ends -> Seq({"up", "down"})] /\ \A e \in Ends : Len(ev[e]) <= Cap
  OBVIOUS
<1>2. wire \in Seq(Messages) /\ Len(wire) = 0 /\ batch \in Seq(Sizes) /\ Len(batch) = 0
      /\ got \in Seq([place : Nat \ {0}, room : Nat, size : Nat])
  OBVIOUS
<1>3. /\ ws \in [Ends -> {"none", "open", "lost", "closed"}]
      /\ ctxDone \in [Ends -> BOOLEAN]
  OBVIOUS
<1>4. /\ close \in [Closers -> {"idle", "event", "websocket", "done"}]
      /\ at \in [Closers -> Ends]
  BY DEF Ends
<1>5. TypeOK
  <2>1. /\ dial = "options" /\ opts \subseteq {"dialer", "protect"} /\ socket = "none"
        /\ reading \in BOOLEAN /\ pos = 0 /\ sent = 0 /\ room = 0 /\ reported = 0 /\ failures = 0
    OBVIOUS
  <2> HIDE DEF Init
  <2>2. /\ pos \in 0 .. Len(wire) /\ sent \in 0 .. Len(batch)
        /\ room \in Nat /\ reported \in Nat /\ failures \in 0 .. MaxFailures
    BY <1>2, <2>1
  <2>3. QED BY <1>1, <1>2, <1>3, <1>4, <2>1, <2>2 DEF TypeOK
<1>6. ReadsInOrder
  BY DEF ReadsInOrder
<1>7. QED BY <1>5, <1>6 DEF TInv, Started

Grows ==
  \/ wire' = wire
  \/ \E m \in Messages : wire' = Append(wire, m)

(* A step that leaves the reader alone keeps its reads in order.           *)
LEMMA WriterKeeps ==
  ASSUME TInv, Grows, UNCHANGED <<pos, got>>
  PROVE  wire' \in Seq(Messages) /\ pos' \in 0 .. Len(wire') /\ ReadsInOrder'
<1>1. wire \in Seq(Messages) /\ pos \in 0 .. Len(wire) /\ ReadsInOrder
  BY DEF TInv, TypeOK
<1>2. /\ wire' \in Seq(Messages) /\ pos' \in 0 .. Len(wire')
      /\ \A p \in 1 .. pos : wire'[p] = wire[p]
  <2>1. CASE wire' = wire
    BY <1>1, <2>1
  <2>2. ASSUME NEW m \in Messages, wire' = Append(wire, m)
        PROVE  /\ wire' \in Seq(Messages) /\ pos' \in 0 .. Len(wire')
               /\ \A p \in 1 .. pos : wire'[p] = wire[p]
    BY <1>1, <2>2
  <2>3. QED BY <2>1, <2>2 DEF Grows
<1>3. ReadsInOrder'
  BY <1>1, <1>2 DEF ReadsInOrder
<1>4. QED BY <1>2, <1>3

(* A Read that returns is the next packet.                                 *)
LEMMA ReadReturnsNext == TInv /\ ReadReturns => TInv'
<1> SUFFICES ASSUME TInv, ReadReturns PROVE TInv'
  OBVIOUS
<1> DEFINE r == [place |-> pos + 1, room |-> room, size |-> Arrived]
<1>0. TypeOK /\ ReadsInOrder
  BY DEF TInv
<1>1. /\ UNCHANGED <<dial, opts, socket, ws, ctxDone, ev, close, at, wire, room,
                     batch, sent, reported, failures>>
      /\ pos < Len(wire) /\ wire[pos + 1].kind = "binary"
      /\ pos' = pos + 1 /\ reading' = FALSE /\ got' = Append(got, r)
  BY DEF ReadReturns, opening, closing, writer
<1>2. /\ wire \in Seq(Messages) /\ pos \in Nat /\ pos + 1 \in 1 .. Len(wire)
      /\ wire[pos + 1].size \in Nat /\ room \in Nat
  <2>1. wire \in Seq(Messages) /\ pos \in Nat /\ pos + 1 \in 1 .. Len(wire) /\ room \in Nat
    BY <1>0, <1>1 DEF TypeOK
  <2>2. wire[pos + 1] \in Messages
    BY <2>1
  <2>3. wire[pos + 1].size \in Nat
    BY <2>2, TransportAssumption DEF Messages
  <2>4. QED BY <2>1, <2>3
<1>3. /\ r \in [place : Nat \ {0}, room : Nat, size : Nat]
      /\ r.size <= r.room /\ r.size <= wire[r.place].size
      /\ r.size \in {r.room, wire[r.place].size} /\ r.place = pos + 1
  BY <1>2 DEF Arrived
<1> HIDE DEF r
<1>4. /\ got' \in Seq([place : Nat \ {0}, room : Nat, size : Nat])
      /\ Len(got') = Len(got) + 1 /\ got'[Len(got) + 1] = r
      /\ \A k \in 1 .. Len(got) : got'[k] = got[k]
      /\ DOMAIN got = 1 .. Len(got) /\ DOMAIN got' = 1 .. Len(got) + 1
      /\ Len(got) \in Nat
  BY <1>0, <1>1, <1>3 DEF TypeOK
<1>5. TypeOK' /\ Started'
  <2>1. pos' \in 0 .. Len(wire') /\ reading' \in BOOLEAN
    <3>1. wire' = wire /\ Len(wire) \in Nat
      BY <1>1, <1>2
    <3>2. pos + 1 \in 0 .. Len(wire)
      BY <1>2, <3>1
    <3>3. QED BY <1>1, <3>1, <3>2
  <2>2. QED BY <1>0, <1>1, <1>4, <2>1 DEF TypeOK, TInv, Started
<1>6. ASSUME NEW k \in DOMAIN got'
      PROVE  /\ got'[k].place \in 1 .. pos' /\ wire'[got'[k].place].kind = "binary"
             /\ got'[k].size <= got'[k].room /\ got'[k].size <= wire'[got'[k].place].size
             /\ got'[k].size \in {got'[k].room, wire'[got'[k].place].size}
  <2>1. CASE k = Len(got) + 1
    BY <1>1, <1>2, <1>3, <1>4, <2>1
  <2>2. CASE k \in 1 .. Len(got)
    <3>1. /\ got[k].place \in 1 .. pos /\ wire[got[k].place].kind = "binary"
          /\ got[k].size <= got[k].room /\ got[k].size <= wire[got[k].place].size
          /\ got[k].size \in {got[k].room, wire[got[k].place].size}
      BY <1>0, <1>4, <2>2 DEF ReadsInOrder
    <3>2. got'[k] = got[k] /\ wire' = wire
      BY <1>1, <1>4, <2>2
    <3>3. got[k].place \in 1 .. pos'
      BY <1>1, <1>2, <3>1
    <3>4. QED BY <3>1, <3>2, <3>3
  <2>3. QED BY <1>4, <2>1, <2>2
<1>7. ASSUME NEW k \in DOMAIN got', NEW l \in DOMAIN got', k < l
      PROVE  got'[k].place < got'[l].place
  <2>1. k \in 1 .. Len(got)
    BY <1>4, <1>7
  <2>a. got[k].place \in 1 .. pos
    BY <1>0, <1>4, <2>1 DEF ReadsInOrder
  <2>2. CASE l = Len(got) + 1
    <3>1. got'[l].place = pos + 1 /\ got'[k].place = got[k].place
      BY <1>3, <1>4, <2>1, <2>2
    <3>2. QED BY <1>2, <2>a, <3>1
  <2>3. CASE l \in 1 .. Len(got)
    BY <1>0, <1>4, <1>7, <2>1, <2>3 DEF ReadsInOrder
  <2>4. QED BY <1>4, <2>2, <2>3
<1>8. ASSUME NEW p \in 1 .. pos', wire'[p].kind = "binary"
      PROVE  \E k \in DOMAIN got' : got'[k].place = p
  <2>1. CASE p = pos + 1
    BY <1>3, <1>4, <2>1
  <2>2. CASE p \in 1 .. pos
    BY <1>0, <1>1, <1>4, <1>8, <2>2 DEF ReadsInOrder
  <2>3. QED BY <1>1, <1>2, <2>1, <2>2
<1>9. QED BY <1>5, <1>6, <1>7, <1>8 DEF TInv, ReadsInOrder

(* A Read that skips a message passes no packet by.                        *)
LEMMA ReadSkipsText == TInv /\ ReadSkips => TInv'
<1> SUFFICES ASSUME TInv, ReadSkips PROVE TInv'
  OBVIOUS
<1>0. TypeOK /\ ReadsInOrder
  BY DEF TInv
<1>1. /\ UNCHANGED <<dial, opts, socket, ws, ctxDone, ev, close, at, wire, reading,
                     room, got, batch, sent, reported, failures>>
      /\ pos < Len(wire) /\ wire[pos + 1].kind # "binary" /\ pos' = pos + 1
  BY DEF ReadSkips, opening, closing, writer
<1>2. pos \in Nat /\ Len(wire) \in Nat
  BY <1>0 DEF TypeOK
<1>3. /\ \A p \in 1 .. pos' : p \in 1 .. pos \/ p = pos + 1
      /\ \A p \in 1 .. pos : p \in 1 .. pos'
      /\ pos' \in 0 .. Len(wire')
  BY <1>1, <1>2
<1>4. TypeOK' /\ Started'
  BY <1>0, <1>1, <1>3 DEF TypeOK, TInv, Started
<1>5. ReadsInOrder'
  BY <1>0, <1>1, <1>3 DEF ReadsInOrder
<1>6. QED BY <1>4, <1>5 DEF TInv

(* The other steps.                                                        *)
LEMMA OthersKeep ==
  ASSUME TInv, Next, ~ReadReturns, ~ReadSkips
  PROVE  Grows /\ UNCHANGED <<pos, got>>
<1>0. TypeOK /\ Started
  BY DEF TInv
<1>1. ASSUME batch # <<>>, Put PROVE Grows
  <2>1. batch \in Seq(Sizes) /\ sent \in Nat /\ sent + 1 \in 1 .. Len(batch)
    BY <1>0, <1>1 DEF TypeOK, Started
  <2>2. batch[sent + 1] \in Sizes
    BY <2>1
  <2>3. [kind |-> "binary", size |-> batch[sent + 1]] \in Messages
    BY <2>2 DEF Messages
  <2>4. QED BY <1>1, <2>3 DEF Grows, Put
<1>2. CASE ForeignText
  BY <1>2 DEF ForeignText, Grows, Messages, reader
<1>3. CASE WriteOne
  BY <1>1, <1>3 DEF WriteOne, reader
<1>4. CASE WriteFails
  BY <1>1, <1>4 DEF WriteFails, Grows, reader
<1>5. CASE dialOptionsFromConfig \/ Control \/ Connect \/ Accept \/ DialReturns \/ Lose
           \/ (\E e \in Ends : Cancel(e)) \/ WriteCalled
  BY <1>5 DEF dialOptionsFromConfig, Control, Connect, Accept, DialReturns, Lose, Cancel,
              WriteCalled, Grows, reader
<1>6. CASE ReadCalled \/ ReadFails
  BY <1>6 DEF ReadCalled, ReadFails, Grows
<1>7. CASE \E c \in Closers : Close(c) \/ (\E e \in Ends : CloseCalled(c, e))
  BY <1>7 DEF Close, SendDown, CloseWebsocket, CloseCalled, Grows, reader
<1>8. QED BY <1>2, <1>3, <1>4, <1>5, <1>6, <1>7 DEF Next

(* Their types: the wire and pos are WriterKeeps' business.                *)
LEMMA OthersTyped ==
  ASSUME TInv, Next, ~ReadReturns, ~ReadSkips,
         wire' \in Seq(Messages), pos' \in 0 .. Len(wire'), got' = got
  PROVE  TypeOK' /\ Started'
<1>0. TypeOK /\ Started
  BY DEF TInv
<1> USE TransportAssumption
<1>1. CASE dialOptionsFromConfig \/ Control \/ Connect
  BY <1>0, <1>1 DEF dialOptionsFromConfig, Control, Connect, TypeOK, Started, closing, reader, writer
<1>2. CASE Accept \/ DialReturns
  <2>1. /\ ws' \in [Ends -> {"none", "open", "lost", "closed"}]
        /\ dial' \in {"options", "socket", "connect", "upgrade", "open", "failed"}
    BY <1>0, <1>2 DEF Accept, DialReturns, TypeOK, opening
  <2>2. ev' = ev \/ \E e \in Ends : ev' = [ev EXCEPT ![e] = <<"up">>]
    BY <1>2 DEF Accept, DialReturns, Ends
  <2>3. ev' \in [Ends -> Seq({"up", "down"})] /\ \A e \in Ends : Len(ev'[e]) <= Cap
    <3>1. <<"up">> \in Seq({"up", "down"}) /\ Len(<<"up">>) = 1 /\ 1 <= Cap
      OBVIOUS
    <3>2. ASSUME NEW e \in Ends, ev' = [ev EXCEPT ![e] = <<"up">>]
          PROVE  ev' \in [Ends -> Seq({"up", "down"})] /\ \A x \in Ends : Len(ev'[x]) <= Cap
      <4>1. \A x \in Ends : ev'[x] = ev[x] \/ ev'[x] = <<"up">>
        BY <1>0, <3>2 DEF TypeOK
      <4>2. ev' \in [Ends -> Seq({"up", "down"})]
        BY <1>0, <3>1, <3>2 DEF TypeOK
      <4>3. \A x \in Ends : Len(ev'[x]) <= Cap
        BY <1>0, <3>1, <4>1 DEF TypeOK
      <4>4. QED BY <4>2, <4>3
    <3>3. QED BY <1>0, <2>2, <3>2 DEF TypeOK
  <2>4. QED BY <1>0, <1>2, <2>1, <2>3
            DEF Accept, DialReturns, TypeOK, Started, opening, closing, reader, writer
<1>3. CASE Lose \/ ReadFails \/ ReadCalled
  <2>1. ws' \in [Ends -> {"none", "open", "lost", "closed"}]
    BY <1>0, <1>3 DEF Lose, ReadFails, ReadCalled, TypeOK
  <2>2. reading' \in BOOLEAN
    BY <1>0, <1>3 DEF Lose, ReadFails, ReadCalled, TypeOK, reader
  <2>3. room' \in Nat
    BY <1>0, <1>3 DEF Lose, ReadFails, ReadCalled, TypeOK, reader
  <2>4. QED BY <1>0, <1>3, <2>1, <2>2, <2>3
            DEF Lose, ReadFails, ReadCalled, TypeOK, Started, opening, closing, writer
<1>4. ASSUME NEW e \in Ends, Cancel(e) PROVE TypeOK' /\ Started'
  <2>1. ctxDone' \in [Ends -> BOOLEAN]
    BY <1>0, <1>4 DEF Cancel, TypeOK
  <2>2. QED BY <1>0, <1>4, <2>1 DEF Cancel, TypeOK, Started, opening, closing, reader, writer
<1>5. CASE ForeignText
  BY <1>0, <1>5 DEF ForeignText, TypeOK, Started, opening, closing, reader, writer
<1>6. CASE WriteCalled
  <2>1. PICK n \in 1 .. BatchMax : \E b \in [1 .. n -> Sizes] : batch' = b
    BY <1>6 DEF WriteCalled
  <2>2. batch' \in Seq(Sizes) /\ Len(batch') = n /\ n \in Nat /\ n > 0
    BY <2>1
  <2>3. sent' \in 0 .. Len(batch') /\ Started'
    BY <1>6, <2>2 DEF WriteCalled, Started
  <2>4. QED BY <1>0, <1>6, <2>2, <2>3 DEF WriteCalled, TypeOK, opening, closing, reader
<1>7. CASE WriteOne
  <2>1. batch' \in Seq(Sizes) /\ sent' \in 0 .. Len(batch') /\ reported' \in Nat /\ Started'
    <3>1. batch \in Seq(Sizes) /\ Len(batch) \in Nat /\ sent \in Nat /\ reported \in Nat
          /\ <<>> \in Seq(Sizes) /\ Len(<<>>) = 0
      BY <1>0 DEF TypeOK
    <3>2. CASE sent + 1 < Len(batch) /\ sent' = sent + 1 /\ UNCHANGED <<batch, reported>>
      BY <3>1, <3>2 DEF Started
    <3>3. CASE sent' = 0 /\ batch' = <<>> /\ reported' = reported + Len(batch)
      BY <3>1, <3>3 DEF Started
    <3>4. QED BY <1>7, <3>2, <3>3 DEF WriteOne
  <2>2. QED BY <1>0, <1>7, <2>1 DEF WriteOne, TypeOK, opening, closing, reader
<1>8. CASE WriteFails
  <2>1. batch' \in Seq(Sizes) /\ sent' \in 0 .. Len(batch') /\ reported' \in Nat /\ Started'
        /\ failures' \in 0 .. MaxFailures
    BY <1>0, <1>8 DEF WriteFails, TypeOK, Started
  <2>2. QED BY <1>0, <1>8, <2>1 DEF WriteFails, TypeOK, opening, closing, reader
<1>9. ASSUME NEW c \in Closers, Close(c) \/ (\E e \in Ends : CloseCalled(c, e))
      PROVE  TypeOK' /\ Started'
  <2>1. /\ close' \in [Closers -> {"idle", "event", "websocket", "done"}]
        /\ at' \in [Closers -> Ends]
    BY <1>0, <1>9 DEF Close, SendDown, CloseWebsocket, CloseCalled, TypeOK
  <2>2. ws' \in [Ends -> {"none", "open", "lost", "closed"}]
    BY <1>0, <1>9 DEF Close, SendDown, CloseWebsocket, CloseCalled, TypeOK
  <2>3. ev' \in [Ends -> Seq({"up", "down"})] /\ \A e \in Ends : Len(ev'[e]) <= Cap
    <3>1. CASE SendDown(c)
      <4>1. /\ at[c] \in Ends /\ ev[at[c]] \in Seq({"up", "down"}) /\ Len(ev[at[c]]) < Cap
            /\ ev' = [ev EXCEPT ![at[c]] = Append(ev[at[c]], "down")]
        BY <1>0, <3>1 DEF SendDown, TypeOK
      <4>2. /\ Append(ev[at[c]], "down") \in Seq({"up", "down"})
            /\ Len(Append(ev[at[c]], "down")) <= Cap
        BY <4>1
      <4>3. QED BY <1>0, <4>1, <4>2 DEF TypeOK
    <3>2. CASE ~SendDown(c)
      BY <1>0, <1>9, <3>2 DEF Close, CloseWebsocket, CloseCalled, TypeOK
    <3>3. QED BY <3>1, <3>2
  <2>4. QED BY <1>0, <1>9, <2>1, <2>2, <2>3
            DEF Close, SendDown, CloseWebsocket, CloseCalled, TypeOK, Started, opening, closing,
                reader, writer
<1>10. QED BY <1>1, <1>2, <1>3, <1>4, <1>5, <1>6, <1>7, <1>8, <1>9 DEF Next

LEMMA TInvStep == TInv /\ [Next]_vars => TInv'
<1> SUFFICES ASSUME TInv, [Next]_vars PROVE TInv'
  OBVIOUS
<1>1. CASE UNCHANGED vars
  BY <1>1 DEF TInv, TypeOK, ReadsInOrder, Started, vars, opening, closing, reader, writer
<1>2. CASE ReadReturns
  BY <1>2, ReadReturnsNext
<1>3. CASE ReadSkips
  BY <1>3, ReadSkipsText
<1>4. CASE Next /\ ~ReadReturns /\ ~ReadSkips
  <2>1. Grows /\ UNCHANGED <<pos, got>>
    BY <1>4, OthersKeep
  <2>2. wire' \in Seq(Messages) /\ pos' \in 0 .. Len(wire') /\ ReadsInOrder'
    BY <2>1, WriterKeeps
  <2>3. TypeOK' /\ Started'
    BY <1>4, <2>1, <2>2, OthersTyped
  <2>4. QED BY <2>2, <2>3 DEF TInv
<1>5. QED BY <1>1, <1>2, <1>3, <1>4

(* Every variable of the transport keeps its type; the event channels of   *)
(* both connections never hold more than Cap events.                       *)
THEOREM TransportTypeCorrect == Spec => []TypeOK
<1>1. Spec => []TInv
  BY TInvInit, TInvStep, PTL DEF Spec
<1>2. TInv => TypeOK
  BY DEF TInv
<1>3. QED BY <1>1, <1>2, PTL

(* Packets come out of Read in the order Write sent them, once, none left  *)
(* out, cut to the buffer and never longer than they were.                 *)
THEOREM PacketsInOrder == Spec => []ReadsInOrder
<1>1. Spec => []TInv
  BY TInvInit, TInvStep, PTL DEF Spec
<1>2. TInv => ReadsInOrder
  BY DEF TInv
<1>3. QED BY <1>1, <1>2, PTL

(* A socket that protection refused carries no connection.                 *)
THEOREM NeverUnprotected == Spec => []ProtectedFirst
<1>1. Init => ProtectedFirst
  BY DEF Init, ProtectedFirst
<1>2. ProtectedFirst /\ [Next]_vars => ProtectedFirst'
  <2> SUFFICES ASSUME ProtectedFirst, [Next]_vars PROVE ProtectedFirst'
    OBVIOUS
  <2>1. CASE UNCHANGED opening
    BY <2>1 DEF ProtectedFirst, opening
  <2>2. CASE dialOptionsFromConfig \/ Control \/ Connect \/ DialReturns
    BY <2>2 DEF dialOptionsFromConfig, Control, Connect, DialReturns, ProtectedFirst, opening
  <2>3. QED BY <2>1, <2>2 DEF Next, vars, Accept, Lose, ForeignText, Cancel, WriteCalled, WriteOne,
               WriteFails, ReadCalled, ReadSkips, ReadReturns, ReadFails, Close, SendDown,
               CloseWebsocket, CloseCalled
<1>3. QED BY <1>1, <1>2, PTL DEF Spec
-----------------------------------------------------------------------------
(* What Write reports.                                                     *)

PacketsOf(w) == {p \in DOMAIN w : w[p].kind = "binary"}

(* One more message on the wire is one more packet, or a text message.     *)
LEMMA AppendCounts ==
  ASSUME NEW w \in Seq(Messages), NEW m \in Messages
  PROVE  /\ Cardinality(PacketsOf(w)) \in Nat
         /\ Cardinality(PacketsOf(Append(w, m))) =
              Cardinality(PacketsOf(w)) + IF m.kind = "binary" THEN 1 ELSE 0
<1> DEFINE n == Len(w)
           W == Append(w, m)
<1>1. /\ n \in Nat /\ DOMAIN w = 1 .. n /\ DOMAIN W = 1 .. n + 1
      /\ W[n + 1] = m /\ \A p \in 1 .. n : W[p] = w[p]
  OBVIOUS
<1>2. IsFiniteSet(PacketsOf(w))
  <2>1. IsFiniteSet(1 .. n)
    BY <1>1, FS_Interval
  <2>2. QED BY <1>1, <2>1, FS_Subset DEF PacketsOf
<1>3. Cardinality(PacketsOf(w)) \in Nat
  BY <1>2, FS_CardinalityType
<1> HIDE DEF n, W
<1>4. CASE m.kind = "binary"
  <2>1. PacketsOf(W) = PacketsOf(w) \cup {n + 1} /\ n + 1 \notin PacketsOf(w)
    BY <1>1, <1>4 DEF PacketsOf
  <2>2. Cardinality(PacketsOf(W)) = Cardinality(PacketsOf(w)) + 1
    BY <1>2, <2>1, FS_AddElement
  <2>3. QED BY <1>3, <1>4, <2>2 DEF W
<1>5. CASE m.kind # "binary"
  <2>1. PacketsOf(W) = PacketsOf(w)
    BY <1>1, <1>5 DEF PacketsOf
  <2>2. QED BY <1>3, <1>5, <2>1 DEF W
<1>6. QED BY <1>4, <1>5

LEMMA NothingWritten == Init => WriteTellsTruth
<1> SUFFICES ASSUME Init PROVE WriteTellsTruth
  OBVIOUS
<1>1. wire = <<>> /\ reported = 0 /\ sent = 0 /\ failures = 0
  BY DEF Init
<1>2. {p \in DOMAIN wire : wire[p].kind = "binary"} = {}
  BY <1>1
<1>3. Packets = 0
  BY <1>2, FS_EmptySet DEF Packets
<1>4. QED BY <1>1, <1>3 DEF WriteTellsTruth

(* The claim of a Write and the wire move together: a packet sent counts   *)
(* with sent, the last one of a batch moves the batch to reported, and a   *)
(* failure widens what is left open by the one packet it may have sent.    *)
LEMMA WriteStepTellsTruth ==
  TInv /\ WriteTellsTruth /\ [Next]_vars => WriteTellsTruth'
<1> SUFFICES ASSUME TInv, WriteTellsTruth, [Next]_vars PROVE WriteTellsTruth'
  OBVIOUS
<1> USE TransportAssumption
<1>1. /\ wire \in Seq(Messages) /\ batch \in Seq(Sizes) /\ Len(batch) \in Nat
      /\ sent \in Nat /\ reported \in Nat /\ failures \in Nat
      /\ (batch # <<>> => sent < Len(batch)) /\ (batch = <<>> => sent = 0)
  BY DEF TInv, TypeOK, Started
<1>2. /\ Packets = Cardinality(PacketsOf(wire)) /\ Packets' = Cardinality(PacketsOf(wire'))
      /\ (wire' = wire => Packets' = Packets)
  BY DEF Packets, PacketsOf
<1>3. Packets \in Nat /\ reported + sent <= Packets /\ Packets <= reported + sent + failures
  BY <1>1 DEF WriteTellsTruth
<1>4. ASSUME batch # <<>>, Put PROVE Packets' = Packets + 1
  <2>1. batch[sent + 1] \in Sizes
    BY <1>1, <1>4
  <2>2. [kind |-> "binary", size |-> batch[sent + 1]] \in Messages
    BY <2>1 DEF Messages
  <2>3. QED BY <1>1, <1>2, <1>4, <2>2, AppendCounts DEF Put
<1>5. CASE UNCHANGED <<wire, sent, reported, failures>>
  BY <1>2, <1>3, <1>5 DEF WriteTellsTruth
<1>6. CASE ForeignText
  <2>1. PICK s \in Sizes : wire' = Append(wire, [kind |-> "text", size |-> s])
    BY <1>6 DEF ForeignText
  <2>2. [kind |-> "text", size |-> s] \in Messages
    BY DEF Messages
  <2>3. Packets' = Packets
    BY <1>1, <1>2, <1>3, <2>1, <2>2, AppendCounts
  <2>4. QED BY <1>3, <1>6, <2>3 DEF ForeignText, writer, WriteTellsTruth
<1>7. CASE WriteCalled
  BY <1>1, <1>2, <1>3, <1>7 DEF WriteCalled, WriteTellsTruth
<1>8. CASE WriteOne
  <2>1. Packets' = Packets + 1 /\ failures' = failures
    BY <1>4, <1>8 DEF WriteOne
  <2>2. reported' + sent' = reported + sent + 1
    BY <1>1, <1>8 DEF WriteOne
  <2>3. QED BY <1>1, <1>3, <2>1, <2>2 DEF WriteTellsTruth
<1>9. CASE WriteFails
  <2>1. Packets' = Packets \/ Packets' = Packets + 1
    BY <1>2, <1>4, <1>9 DEF WriteFails
  <2>2. reported' + sent' = reported + sent /\ failures' = failures + 1
    BY <1>1, <1>9 DEF WriteFails
  <2>3. QED BY <1>1, <1>3, <2>1, <2>2 DEF WriteTellsTruth
<1>10. QED BY <1>5, <1>6, <1>7, <1>8, <1>9
           DEF Next, vars, reader, writer, dialOptionsFromConfig, Control, Connect, Accept,
               DialReturns, Lose, Cancel, ReadCalled, ReadSkips, ReadReturns, ReadFails,
               Close, SendDown, CloseWebsocket, CloseCalled

(* A Write that says n packets are sent has sent n; each failed Write may  *)
(* have sent one that it does not report.                                  *)
THEOREM WritesTellTruth == Spec => []WriteTellsTruth
<1>1. Spec => []TInv
  BY TInvInit, TInvStep, PTL DEF Spec
<1>2. QED BY <1>1, NothingWritten, WriteStepTellsTruth, PTL DEF Spec
-----------------------------------------------------------------------------
(* The native device: powers of two, octets and masks.                     *)

(* Induction over numbers, without an operator as a parameter.             *)
LEMMA LeastNumber ==
  ASSUME NEW T, T \subseteq Nat, T # {}
  PROVE  \E x \in T : \A y \in T : x <= y
<1>1. IsWellFoundedOn(OpToRel(<, Nat), Nat)
  BY NatLessThanWellFounded
<1>2. PICK x \in T : \A y \in T : <<y, x>> \notin OpToRel(<, Nat)
  BY <1>1, WFMin
<1>3. \A y \in T : ~(y < x)
  BY <1>2 DEF OpToRel
<1>4. QED BY <1>3

LEMMA PowerZero == \A x : x = 0 => 2^x = 1
OBVIOUS

LEMMA PowerPositive == \A n \in Prefixes : 2^n \in Nat \ {0}
<1> DEFINE T == {n \in Prefixes : 2^n \notin Nat \ {0}}
<1> USE NativeAssumption, PowerAssumption DEF Prefixes
<1>1. SUFFICES ASSUME T # {} PROVE FALSE
  OBVIOUS
<1>2. T \subseteq Nat
  OBVIOUS
<1>3. PICK x \in T : \A y \in T : x <= y
  BY <1>1, <1>2, LeastNumber
<1>4. x # 0
  <2>1. SUFFICES ASSUME x = 0 PROVE FALSE
    OBVIOUS
  <2>2. 2^x = 1
    BY <2>1
  <2>3. QED BY <1>3, <2>2
<1>5. x - 1 \in 0 .. Width - 1 /\ (x - 1) + 1 = x
  BY <1>3, <1>4
<1>6. 2^(x - 1) \in Nat \ {0}
  BY <1>3, <1>5
<1>7. 2^((x - 1) + 1) = 2 * 2^(x - 1)
  BY <1>5
<1>8. 2^x \in Nat \ {0}
  <2>1. 2 * 2^(x - 1) \in Nat \ {0}
    BY <1>6
  <2>2. QED BY <1>5, <1>7, <2>1
<1>9. QED BY <1>3, <1>8

LEMMA PowerGrows == \A m, n \in Prefixes : m < n => 2^m < 2^n
<1> USE NativeAssumption, PowerAssumption DEF Prefixes
<1> TAKE m \in Prefixes
<1> DEFINE T == {n \in Prefixes : m < n /\ ~(2^m < 2^n)}
<1>1. SUFFICES ASSUME T # {} PROVE FALSE
  OBVIOUS
<1>2. T \subseteq Nat
  OBVIOUS
<1>3. PICK x \in T : \A y \in T : x <= y
  BY <1>1, <1>2, LeastNumber
<1>5. x - 1 \in 0 .. Width - 1 /\ (x - 1) + 1 = x
  BY <1>3
<1>6. 2^m \in Nat \ {0} /\ 2^(x - 1) \in Nat \ {0} /\ 2^m <= 2^(x - 1)
  BY <1>3, <1>5, PowerPositive
<1>7. 2^((x - 1) + 1) = 2 * 2^(x - 1)
  BY <1>5
<1>8. 2^m < 2 * 2^(x - 1)
  BY <1>6
<1>9. QED BY <1>3, <1>5, <1>7, <1>8

LEMMA PowerAdds == \A m, n \in Prefixes : m + n \in Prefixes => 2^(m + n) = 2^m * 2^n
<1> USE NativeAssumption, PowerAssumption DEF Prefixes
<1> TAKE m \in Prefixes
<1> DEFINE T == {n \in Prefixes : m + n \in Prefixes /\ 2^(m + n) # 2^m * 2^n}
<1>1. SUFFICES ASSUME T # {} PROVE FALSE
  OBVIOUS
<1>2. T \subseteq Nat
  OBVIOUS
<1>3. PICK x \in T : \A y \in T : x <= y
  BY <1>1, <1>2, LeastNumber
<1>4. x # 0
  <2>1. SUFFICES ASSUME x = 0 PROVE FALSE
    OBVIOUS
  <2>2. 2^x = 1 /\ 2^m \in Nat /\ m + x = m
    BY <2>1, PowerPositive
  <2>3. QED BY <1>3, <2>2
<1>5. /\ x - 1 \in 0 .. Width - 1 /\ (x - 1) + 1 = x
      /\ m + (x - 1) \in 0 .. Width - 1 /\ (m + (x - 1)) + 1 = m + x
  BY <1>3, <1>4
<1>6. 2^(m + (x - 1)) = 2^m * 2^(x - 1)
  BY <1>3, <1>5
<1>7. 2^((x - 1) + 1) = 2 * 2^(x - 1) /\ 2^((m + (x - 1)) + 1) = 2 * 2^(m + (x - 1))
  BY <1>5
<1>8. 2^m \in Nat /\ 2^(x - 1) \in Nat
  BY <1>5, PowerPositive
<1> HIDE DEF T
<1>9. 2 * (2^m * 2^(x - 1)) = 2^m * (2 * 2^(x - 1))
  BY <1>8
<1>10. 2^(m + x) = 2^m * 2^x
  BY <1>5, <1>6, <1>7, <1>9
<1>11. QED BY <1>3, <1>10 DEF T

(* Division, for the numbers of an address.                                *)
LEMMA Division ==
  ASSUME NEW a \in Nat, NEW k \in Nat \ {0}
  PROVE  /\ a \div k \in Nat /\ a % k \in 0 .. k - 1
         /\ a = (a \div k) * k + (a % k) /\ a % k <= a
<1>1. a % k \in 0 .. k - 1 /\ a \div k \in Int
  OBVIOUS
<1>2. a = (a \div k) * k + (a % k)
  OBVIOUS
<1>3. a \div k \in Nat
  <2>1. SUFFICES ASSUME a \div k <= -1 PROVE FALSE
    BY <1>1
  <2>2. (a \div k) * k <= -k
    BY <1>1, <2>1
  <2>3. QED BY <1>1, <1>2, <2>2
<1>4. (a \div k) * k >= 0
  BY <1>3
<1>5. a % k <= a
  BY <1>1, <1>2, <1>4
<1>6. QED BY <1>1, <1>2, <1>3, <1>5

LEMMA Quotient ==
  ASSUME NEW k \in Nat \ {0}, NEW q \in Nat, NEW r \in 0 .. k - 1
  PROVE  (q * k + r) \div k = q /\ (q * k + r) % k = r
OBVIOUS

LEMMA TwoQuotients ==
  ASSUME NEW x \in Nat, NEW j \in Nat \ {0}, NEW k \in Nat \ {0}
  PROVE  x \div (j * k) = (x \div j) \div k
<1> DEFINE q == x \div j
           r == x % j
           u == q \div k
           v == q % k
<1>1. q \in Nat /\ r \in 0 .. j - 1 /\ x = q * j + r
  BY Division
<1>2. u \in Nat /\ v \in 0 .. k - 1 /\ q = u * k + v
  BY <1>1, Division
<1> HIDE DEF q, r, u, v
<1>3. x = u * (j * k) + (v * j + r)
  <2>1. q * j = (u * k + v) * j
    BY <1>2
  <2>2. (u * k + v) * j = u * (j * k) + v * j
    BY <1>2
  <2>3. QED BY <1>1, <1>2, <2>1, <2>2
<1>4. v * j + r \in 0 .. j * k - 1
  <2>1. v * j <= (k - 1) * j
    BY <1>2
  <2>2. (k - 1) * j = j * k - j /\ v * j >= 0
    BY <1>2
  <2>3. v * j \in Nat /\ j * k \in Nat
    BY <1>2
  <2>4. QED BY <1>1, <2>1, <2>2, <2>3
<1>5. j * k \in Nat \ {0}
  OBVIOUS
<1>6. x \div (j * k) = u
  BY <1>2, <1>3, <1>4, <1>5, Quotient
<1>7. QED BY <1>6 DEF q, u

Octet == 2^(Width \div 4)

LEMMA Octets ==
  /\ Octet \in Nat \ {0}
  /\ 2^Width = Octet * (Octet * (Octet * Octet))
  /\ \A x \in Nat :
       /\ Shown(x)[4] = x % Octet
       /\ Shown(x)[3] = (x \div Octet) % Octet
       /\ Shown(x)[2] = (x \div (Octet * Octet)) % Octet
       /\ Shown(x)[1] = (x \div (Octet * (Octet * Octet))) % Octet
<1> DEFINE w == Width \div 4
<1>1. /\ w \in Nat /\ Width = 4 * w
      /\ w \in Prefixes /\ w + w \in Prefixes /\ w + (w + w) \in Prefixes
      /\ w + (w + (w + w)) \in Prefixes /\ w + (w + (w + w)) = Width
      /\ 2 * w = w + w /\ 3 * w = w + (w + w) /\ 1 * w = w /\ 0 * w = 0
  BY NativeAssumption DEF Prefixes
<1> HIDE DEF w
<1>2. Octet = 2^w
  BY DEF Octet, w
<1>3. Octet \in Nat \ {0}
  BY <1>1, <1>2, PowerPositive
<1>4. 2^(w + w) = Octet * Octet
  BY <1>1, <1>2, PowerAdds
<1>5. 2^(w + (w + w)) = Octet * (Octet * Octet)
  BY <1>1, <1>2, <1>4, PowerAdds
<1>6. 2^(w + (w + (w + w))) = Octet * (Octet * (Octet * Octet))
  BY <1>1, <1>2, <1>5, PowerAdds
<1>7. ASSUME NEW x \in Nat
      PROVE  /\ Shown(x)[4] = x % Octet
             /\ Shown(x)[3] = (x \div Octet) % Octet
             /\ Shown(x)[2] = (x \div (Octet * Octet)) % Octet
             /\ Shown(x)[1] = (x \div (Octet * (Octet * Octet))) % Octet
  <2>1. Shown(x) = [i \in 1 .. 4 |-> (x \div 2^((4 - i) * w)) % Octet]
    BY DEF Shown, Octet, w
  <2>2. /\ Shown(x)[4] = (x \div 2^((4 - 4) * w)) % Octet
        /\ Shown(x)[3] = (x \div 2^((4 - 3) * w)) % Octet
        /\ Shown(x)[2] = (x \div 2^((4 - 2) * w)) % Octet
        /\ Shown(x)[1] = (x \div 2^((4 - 1) * w)) % Octet
    BY <2>1
  <2>3. (4 - 4) * w = 0 /\ (4 - 3) * w = w /\ (4 - 2) * w = w + w /\ (4 - 1) * w = w + (w + w)
    BY <1>1
  <2>4. x \div 1 = x
    OBVIOUS
  <2>5. 2^0 = 1
    OBVIOUS
  <2>6. 2^((4 - 4) * w) = 1
    BY <2>3, <2>5
  <2>7. QED BY <2>2, <2>3, <2>4, <2>6, <1>2, <1>4, <1>5
<1>8. QED BY <1>1, <1>3, <1>6, <1>7

(* Two numbers that are shown alike are the same.                          *)
LEMMA ShownOnce ==
  \A x, y \in 0 .. 2^Width - 1 : Shown(x) = Shown(y) => x = y
<1> DEFINE k == Octet
<1>1. /\ k \in Nat \ {0} /\ 2^Width = k * (k * (k * k))
  BY Octets
<1>2. ASSUME NEW x \in 0 .. 2^Width - 1
      PROVE  \E a, b, c, d \in Nat :
               /\ x = ((a * k + b) * k + c) * k + d
               /\ Shown(x)[1] = a /\ Shown(x)[2] = b /\ Shown(x)[3] = c /\ Shown(x)[4] = d
  <2> DEFINE x1 == x \div k
             x2 == x1 \div k
             x3 == x2 \div k
  <2>0. x \in Nat /\ x < k * (k * (k * k))
    BY <1>1, <1>2
  <2> HIDE DEF k
  <2>1. x1 \in Nat /\ x % k \in 0 .. k - 1 /\ x = x1 * k + (x % k)
    BY <1>1, <2>0, Division
  <2>2. x2 \in Nat /\ x1 % k \in 0 .. k - 1 /\ x1 = x2 * k + (x1 % k)
    BY <1>1, <2>1, Division
  <2>3. x3 \in Nat /\ x2 % k \in 0 .. k - 1 /\ x2 = x3 * k + (x2 % k)
    BY <1>1, <2>2, Division
  <2>4. k * k \in Nat \ {0} /\ k * (k * k) \in Nat \ {0}
    BY <1>1
  <2>5. x2 = x \div (k * k)
    BY <1>1, <2>0, TwoQuotients
  <2>6. x3 = x \div (k * (k * k))
    <3>1. x \div (k * (k * k)) = x1 \div (k * k)
      BY <1>1, <2>0, <2>4, TwoQuotients
    <3>2. x1 \div (k * k) = x2 \div k
      BY <1>1, <2>1, TwoQuotients
    <3>3. QED BY <3>1, <3>2
  <2> HIDE DEF x1, x2, x3
  <2>7. x3 < k
    <3>1. SUFFICES ASSUME x3 >= k PROVE FALSE
      BY <1>1, <2>3
    <3>2. x2 >= k * k
      <4>1. x3 * k >= k * k
        BY <1>1, <2>3, <3>1
      <4>2. QED BY <1>1, <2>3, <4>1
    <3>3. x1 >= k * (k * k)
      <4>1. x2 * k >= (k * k) * k /\ (k * k) * k = k * (k * k)
        BY <1>1, <2>2, <3>2, <2>4
      <4>2. QED BY <1>1, <2>2, <2>4, <4>1
    <3>4. x >= k * (k * (k * k))
      <4>1. x1 * k >= (k * (k * k)) * k /\ (k * (k * k)) * k = k * (k * (k * k))
        BY <1>1, <2>1, <3>3, <2>4
      <4>2. QED BY <1>1, <2>0, <2>1, <2>4, <4>1
    <3>5. QED BY <1>1, <2>0, <2>4, <3>4
  <2>8. x3 % k = x3
    BY <1>1, <2>3, <2>7
  <2>9. /\ Shown(x)[4] = x % k /\ Shown(x)[3] = x1 % k
        /\ Shown(x)[2] = x2 % k /\ Shown(x)[1] = x3
    BY <2>0, <2>5, <2>6, <2>8, Octets DEF k, x1
  <2>10. x = ((x3 * k + (x2 % k)) * k + (x1 % k)) * k + (x % k)
    BY <2>1, <2>2, <2>3
  <2>11. x % k \in Nat /\ x1 % k \in Nat /\ x2 % k \in Nat
    BY <1>1, <2>1, <2>2, <2>3
  <2>12. QED BY <2>3, <2>9, <2>10, <2>11
<1> HIDE DEF k
<1>3. QED BY <1>2

Mask(p) == 2^Width - 2^(Width - p)

LEMMA MaskTyped ==
  \A p \in Prefixes : Mask(p) \in 0 .. 2^Width - 1
<1> TAKE p \in Prefixes
<1>1. Width \in Prefixes /\ Width - p \in Prefixes /\ (p = 0 \/ Width - p < Width)
  BY NativeAssumption DEF Prefixes
<1>2. 2^Width \in Nat \ {0} /\ 2^(Width - p) \in Nat \ {0}
  BY <1>1, PowerPositive
<1>3. 2^(Width - p) <= 2^Width
  <2>1. CASE p = 0
    BY <1>2, <2>1, NativeAssumption
  <2>2. CASE Width - p < Width
    BY <1>1, <1>2, <2>2, PowerGrows
  <2>3. QED BY <1>1, <2>1, <2>2
<1>4. QED BY <1>2, <1>3 DEF Mask

LEMMA MasksDiffer ==
  \A p, q \in Prefixes : Mask(p) = Mask(q) => p = q
<1> SUFFICES ASSUME NEW p \in Prefixes, NEW q \in Prefixes, Mask(p) = Mask(q), p < q
             PROVE  FALSE
  BY DEF Prefixes
<1>1. Width - p \in Prefixes /\ Width - q \in Prefixes /\ Width \in Prefixes
      /\ Width - q < Width - p
  BY NativeAssumption DEF Prefixes
<1>2. 2^(Width - q) < 2^(Width - p)
  BY <1>1, PowerGrows
<1>3. 2^Width \in Nat /\ 2^(Width - p) \in Nat /\ 2^(Width - q) \in Nat
  BY <1>1, PowerPositive
<1>4. QED BY <1>2, <1>3 DEF Mask

(* The shift, cut to the width, is the mask.                               *)
LEMMA ShiftIsMask ==
  \A p \in Prefixes : cidrPrefixToMask(p) = Shown(Mask(p))
<1> TAKE p \in Prefixes
<1>0. Width \in Nat /\ p \in 0 .. Width
  BY NativeAssumption DEF Prefixes
<1>1. CASE p = 0
  <2>1. Width - p = Width /\ 2^Width \in Nat
    BY <1>0, <1>1, PowerPositive DEF Prefixes
  <2>2. Mask(p) = 0
    BY <2>1 DEF Mask
  <2>3. QED BY <1>1, <2>2 DEF cidrPrefixToMask
<1>2. CASE p # 0 /\ p = Width
  <2>1. Width - p = 0
    BY <1>0, <1>2
  <2>2. 2^(Width - p) = 1
    BY <2>1, PowerZero
  <2>3. Mask(p) = 2^Width - 1
    BY <2>2 DEF Mask
  <2>4. QED BY <1>0, <1>2, <2>3 DEF cidrPrefixToMask
<1>3. CASE p # 0 /\ p # Width
  <2> DEFINE n == 2^Width
             k == 2^(Width - p)
  <2>1. n \in Nat \ {0} /\ k \in Nat \ {0} /\ k < n
    <3>1. Width \in Prefixes /\ Width - p \in Prefixes /\ Width - p < Width
      BY <1>0, <1>3 DEF Prefixes
    <3>2. QED BY <3>1, PowerPositive, PowerGrows
  <2> HIDE DEF n, k
  <2>2. (n - 1) * k = (k - 1) * n + (n - k)
    BY <2>1
  <2>3. ((n - 1) * k) % n = n - k
    BY <2>1, <2>2, Quotient
  <2>4. ((2^Width - 1) * 2^(Width - p)) % 2^Width = Mask(p)
    BY <2>3 DEF n, k, Mask
  <2>5. QED BY <1>0, <1>3, <2>4 DEF cidrPrefixToMask
<1>4. QED BY <1>1, <1>2, <1>3

(* netsh gets back the prefix that the mask was made of, for every prefix  *)
(* length: cidrPrefixToMask with its two ends and the octets it prints.    *)
THEOREM MasksReadBack ==
  \A p \in Prefixes, a \in 0 .. 2^Width - 1 : PrefixOf(a, cidrPrefixToMask(p)) = Masked(a, p)
<1> TAKE p \in Prefixes, a \in 0 .. 2^Width - 1
<1> DEFINE Read(q) == cidrPrefixToMask(p) = Shown(2^Width - 2^(Width - q))
<1>1. Read(p)
  BY ShiftIsMask DEF Mask
<1>2. ASSUME NEW q \in Prefixes, Read(q) PROVE q = p
  <2>1. Shown(Mask(p)) = Shown(Mask(q))
    BY <1>2, ShiftIsMask DEF Mask
  <2>2. Mask(p) = Mask(q)
    BY <2>1, MaskTyped, ShownOnce
  <2>3. QED BY <2>2, MasksDiffer
<1>3. (CHOOSE q \in Prefixes : Read(q)) = p
  BY <1>1, <1>2
<1>4. QED BY <1>3 DEF PrefixOf

LEMMA MaskedTyped ==
  \A a \in 0 .. 2^Width - 1, p \in Prefixes : Masked(a, p) \in Prefix
<1> TAKE a \in 0 .. 2^Width - 1, p \in Prefixes
<1>1. Width \in Prefixes /\ Width - p \in Prefixes
  BY NativeAssumption DEF Prefixes
<1>2. 2^Width \in Nat \ {0} /\ 2^(Width - p) \in Nat \ {0}
  BY <1>1, PowerPositive
<1>3. a \in Nat
  BY <1>2
<1>4. a % 2^(Width - p) \in Nat /\ a % 2^(Width - p) <= a
  BY <1>2, <1>3, Division
<1>5. a - (a % 2^(Width - p)) \in 0 .. 2^Width - 1
  BY <1>2, <1>3, <1>4
<1>6. QED BY <1>5 DEF Masked, Prefix
-----------------------------------------------------------------------------
(* The native device: the invariant.                                       *)

Made == {"name", "waitUp", "plan", "index", "run", "ok"}

(* Where it is, and what it holds and has named there.                     *)
Holds ==
  /\ pc \in {"begin", "open"} => dev = "none"
  /\ pc = "bind" => dev = "fd"
  /\ pc = "create" => dev \in {"none", "fd"}
  /\ pc \in Made => dev = "open" /\ actual \in Names \ existing
                     /\ (platform # "unix" => actual = TunName)
  /\ pc \in Made \ {"name"} => used \in {actual, TunName}
  /\ pc = "index" => platform = "windows"

NoneYet ==
  /\ pc \in {"begin", "open", "bind", "create", "name", "waitUp", "plan", "index"} =>
       touched = {} /\ iface = [up |-> FALSE, addrs |-> {}, routes |-> {}]
  /\ pc = "ok" => cmds = <<>>

Routed == pc = "index" => shouldAddNativeRoute

(* Only the last command is a route, and only that one may go astray.      *)
Planned == pc \in {"index", "run"} => \A i \in DOMAIN cmds :
  /\ cmds[i].does # "route" => cmds[i].to = used
  /\ cmds[i].does = "route" =>
       /\ i = Len(cmds) /\ pc = "run" /\ shouldAddNativeRoute
       /\ cmds[i].to # used =>
            platform = "windows" /\ (cmds[i].to \in existing => Ambiguous)

Pending(does) == \E i \in DOMAIN cmds : cmds[i].does = does

(* What the commands that have run, and the system, have left.             *)
Configured ==
  /\ iface.addrs \subseteq {Masked(addr.a, addr.p)}
  /\ iface.addrs # {} => addr.form # "other"
  /\ pc = "run" /\ Pending("route") =>
       \A r \in iface.routes : r \in iface.addrs /\ r.p < Width

(* What is not there yet is still to be done.                              *)
OnItsWay == pc \in {"index", "run", "ok"} /\ NameFound =>
  /\ iface.up \/ Pending("up")
  /\ Masked(addr.a, addr.p) \in iface.addrs \/ Pending("addr")
  /\ \/ pc = "index" \/ ~shouldAddNativeRoute
     \/ Target \in iface.routes \/ Pending("route")
     \/ platform = "windows" /\ Ambiguous

NInv ==
  /\ TunTypeOK /\ Holds /\ NoneYet /\ Routed /\ Planned /\ Configured /\ OnItsWay
  /\ ErrorMeansClosed /\ NoSelfConflict /\ OnlyOwnInterface

NothingDone == [up |-> FALSE, addrs |-> {}, routes |-> {}]

LEMMA TextsMasked ==
  \A t \in Texts : t.a \in 0 .. 2^Width - 1 /\ t.p \in Prefixes /\ Masked(t.a, t.p) \in Prefix
<1>1. 0 \in 0 .. 2^Width - 1 /\ 0 \in Prefixes /\ Width \in Prefixes
  <2>1. 0 \in Prefixes /\ Width \in Prefixes
    BY NativeAssumption DEF Prefixes
  <2>2. 2^Width \in Nat \ {0}
    BY <2>1, PowerPositive
  <2>3. QED BY <2>1, <2>2
<1>2. ASSUME NEW t \in Texts PROVE t.a \in 0 .. 2^Width - 1 /\ t.p \in Prefixes
  BY <1>1, <1>2, NativeAssumption DEF Texts
<1>3. QED BY <1>2, MaskedTyped

LEMMA NInvInit == TunInit => NInv
<1> SUFFICES ASSUME TunInit PROVE NInv
  OBVIOUS
<1> USE NativeAssumption DEF TunInit
<1>1. TunTypeOK
  BY DEF TunTypeOK
<1>2. Holds /\ NoneYet /\ ErrorMeansClosed /\ NoSelfConflict /\ OnlyOwnInterface
  BY DEF Holds, NoneYet, ErrorMeansClosed, NoSelfConflict, OnlyOwnInterface, Made
<1>3. Routed /\ Planned /\ Configured /\ OnItsWay
  BY DEF Routed, Planned, Configured, OnItsWay
<1>4. QED BY <1>1, <1>2, <1>3 DEF NInv

(* Before there are commands.                                              *)
LEMMA MakingKeeps ==
  ASSUME NInv, Begin \/ Open \/ Bind \/ Create \/ Name \/ WaitUp
  PROVE  NInv'
<1> USE DEF NInv, inputs, Go, Fail
<1>0. Begin \/ Open \/ Bind \/ Create \/ Name \/ WaitUp
  OBVIOUS
<1>1. UNCHANGED <<platform, addr, subnet, panics, existing, iface, cmds, touched>>
  BY DEF Begin, Open, Bind, Create, Name, WaitUp
<1>2. touched = {} /\ iface = NothingDone
  BY DEF Begin, Open, Bind, Create, Name, WaitUp, NoneYet, NothingDone
<1>3. pc' \in {"open", "bind", "create", "name", "waitUp", "plan", "error"}
  BY DEF Begin, Open, Bind, Create, Name, WaitUp
<1>4. TunTypeOK'
  <2>1. dev' \in {"none", "fd", "open", "closed"} /\ failed' \in {"no", "env", "text", "nodev"}
    BY <1>0 DEF Begin, Open, Bind, Create, Name, WaitUp, TunTypeOK, NoSelfConflict
  <2>2. actual' \in Names \cup {None} /\ used' \in Names \cup {None}
    BY <1>0, NativeAssumption DEF Begin, Open, Bind, Create, Name, WaitUp, TunTypeOK
  <2>3. QED BY <1>1, <1>3, <2>1, <2>2 DEF TunTypeOK
<1>5. Holds'
  <2>1. CASE Begin \/ Open \/ Bind
    BY <2>1 DEF Begin, Open, Bind, Holds, Made
  <2>2. CASE Create
    BY <2>2 DEF Create, Holds, Made
  <2>3. CASE Name
    BY <2>3 DEF Name, Holds, Made
  <2>4. CASE WaitUp
    BY <2>4 DEF WaitUp, Holds, Made
  <2>5. QED BY <1>0, <2>1, <2>2, <2>3, <2>4
<1>6. ErrorMeansClosed' /\ NoSelfConflict'
  BY <1>0 DEF Begin, Open, Bind, Create, Name, WaitUp, ErrorMeansClosed, NoSelfConflict, Holds
<1>7. NoneYet' /\ Routed' /\ Planned' /\ Configured' /\ OnItsWay' /\ OnlyOwnInterface'
  BY <1>1, <1>2, <1>3 DEF NoneYet, Routed, Planned, Configured, OnItsWay, OnlyOwnInterface, NothingDone
<1>8. QED BY <1>4, <1>5, <1>6, <1>7

LEMMA TwoOrThree ==
  ASSUME NEW S, NEW c \in S, NEW d \in S, NEW r \in S
  PROVE  /\ <<c, d>> \o <<r>> = <<c, d, r>> /\ <<c, d>> \o <<>> = <<c, d>>
         /\ <<c, d, r>> \in Seq(S) /\ <<c, d>> \in Seq(S)
<1>1. <<c, d>> \in Seq(S) /\ <<r>> \in Seq(S)
  OBVIOUS
<1>2. <<c, d>> \o <<>> = <<c, d>>
  BY <1>1
<1>3. <<c, d, r>> \in Seq(S)
  OBVIOUS
<1>4. <<c, d>> \o <<r>> = <<c, d, r>>
  <2> DEFINE s == <<c, d>> \o <<r>>
             z == <<c, d, r>>
  <2>1. s \in Seq(S) /\ Len(s) = 3 /\ s[1] = c /\ s[2] = d /\ s[3] = r
    BY <1>1
  <2>2. z \in Seq(S) /\ Len(z) = 3 /\ z[1] = c /\ z[2] = d /\ z[3] = r
    BY <1>3
  <2>3. \A i \in 1 .. 3 : i = 1 \/ i = 2 \/ i = 3
    OBVIOUS
  <2> HIDE DEF s, z
  <2>4. \A i \in 1 .. Len(s) : s[i] = z[i]
    BY <2>1, <2>2, <2>3
  <2>5. s = z
    BY <2>1, <2>2, <2>4, SeqEqual
  <2>6. QED BY <2>5 DEF s, z
<1>5. QED BY <1>1, <1>2, <1>3, <1>4

LEMMA PlanKeeps == NInv /\ Plan => NInv'
<1> SUFFICES ASSUME NInv, Plan PROVE NInv'
  OBVIOUS
<1> USE DEF NInv, inputs, Go
<1>1. /\ pc = "plan" /\ pc' \in {"index", "run"}
      /\ (pc' = "index") = (shouldAddNativeRoute /\ platform = "windows")
      /\ UNCHANGED <<platform, addr, subnet, panics, existing, dev, actual, used, iface, failed, touched>>
  BY DEF Plan
<1>2. used \in Names /\ used \in {actual, TunName}
  BY <1>1, NativeAssumption DEF Holds, Made
<1> DEFINE u == Command("up", used)
           a == Command("addr", used)
           r == Command("route", used)
           routed == shouldAddNativeRoute /\ platform # "windows"
<1>3. /\ u \in [does : Commands, to : Names] /\ u.does = "up" /\ u.to = used
      /\ a \in [does : Commands, to : Names] /\ a.does = "addr" /\ a.to = used
      /\ r \in [does : Commands, to : Names] /\ r.does = "route" /\ r.to = used
  BY <1>2 DEF Command, Commands
<1>4. cmds' = (IF platform = "windows" THEN <<a, u>> ELSE <<u, a>>)
              \o (IF routed THEN <<r>> ELSE <<>>)
  BY DEF Plan
<1> HIDE DEF u, a, r, routed
<1>a. /\ <<u, a>> \o <<r>> = <<u, a, r>> /\ <<u, a>> \o <<>> = <<u, a>>
      /\ <<a, u>> \o <<>> = <<a, u>>
      /\ <<u, a, r>> \in Seq([does : Commands, to : Names])
      /\ <<u, a>> \in Seq([does : Commands, to : Names])
      /\ <<a, u>> \in Seq([does : Commands, to : Names])
  <2> DEFINE S == [does : Commands, to : Names]
  <2>1. u \in S /\ a \in S /\ r \in S
    BY <1>3
  <2> HIDE DEF S
  <2>2. <<u, a>> \o <<r>> = <<u, a, r>> /\ <<u, a>> \o <<>> = <<u, a>>
        /\ <<u, a, r>> \in Seq(S) /\ <<u, a>> \in Seq(S)
    BY <2>1, TwoOrThree
  <2>3. <<a, u>> \o <<>> = <<a, u>> /\ <<a, u>> \in Seq(S)
    BY <2>1, TwoOrThree
  <2>4. QED BY <2>2, <2>3 DEF S
<1>5. \/ routed /\ cmds' = <<u, a, r>>
      \/ ~routed /\ cmds' \in {<<u, a>>, <<a, u>>}
  <2>1. CASE routed
    BY <1>4, <1>a, <2>1 DEF routed
  <2>2. CASE ~routed
    BY <1>4, <1>a, <2>2
  <2>3. QED BY <2>1, <2>2
<1>6. cmds' \in Seq([does : Commands, to : Names])
  BY <1>a, <1>5
<1>7. TunTypeOK' /\ Holds' /\ Routed' /\ NoneYet' /\ ErrorMeansClosed' /\ NoSelfConflict' /\ OnlyOwnInterface'
  BY <1>1, <1>6 DEF TunTypeOK, Holds, Made, Routed, NoneYet, ErrorMeansClosed, NoSelfConflict,
        OnlyOwnInterface, NameFound, Ambiguous, shouldAddNativeRoute
<1>8. Planned'
  <2>1. CASE routed
    <3>1. cmds' = <<u, a, r>> /\ pc' = "run" /\ shouldAddNativeRoute'
      BY <1>1, <1>5, <2>1 DEF shouldAddNativeRoute, routed
    <3>2. DOMAIN cmds' = 1 .. 3 /\ Len(cmds') = 3
          /\ cmds'[1] = u /\ cmds'[2] = a /\ cmds'[3] = r
      BY <3>1
    <3>3. \A i \in 1 .. 3 : i = 1 \/ i = 2 \/ i = 3
      OBVIOUS
    <3>4. used' = used
      BY <1>1
    <3>5. QED BY <1>3, <3>1, <3>2, <3>3, <3>4 DEF Planned
  <2>2. CASE ~routed
    BY <1>1, <1>3, <1>5, <2>2 DEF Planned
  <2>3. QED BY <2>1, <2>2
<1>9. Configured'
  BY <1>1 DEF Configured, NoneYet
<1>10. OnItsWay'
  <2>1. Pending("up")' /\ Pending("addr")'
    BY <1>3, <1>5 DEF Pending
  <2>2. shouldAddNativeRoute' /\ platform # "windows" => Pending("route")'
    BY <1>1, <1>3, <1>5 DEF Pending, shouldAddNativeRoute, routed
  <2>3. QED BY <1>1, <2>1, <2>2 DEF OnItsWay, shouldAddNativeRoute
<1>11. QED BY <1>7, <1>8, <1>9, <1>10

LEMMA IndexKeeps == NInv /\ Index => NInv'
<1> SUFFICES ASSUME NInv, Index PROVE NInv'
  OBVIOUS
<1> USE DEF NInv, inputs, Go, Fail
<1>1. /\ pc = "index" /\ platform = "windows"
      /\ UNCHANGED <<platform, addr, subnet, panics, existing, actual, used, iface, touched>>
      /\ touched = {} /\ iface = NothingDone
  BY DEF Index, Holds, NoneYet, NothingDone
<1>2. CASE dev' = "closed" /\ Fail("error", "env") /\ UNCHANGED cmds
  BY <1>1, <1>2 DEF TunTypeOK, Holds, Made, Routed, NoneYet, Planned, Configured, OnItsWay, ErrorMeansClosed,
        NoSelfConflict, OnlyOwnInterface, NothingDone
<1>3. ASSUME NEW n \in existing \cup {actual}, <<n, used>> \in Containing,
             cmds' = Append(cmds, Command("route", n)), Go("run"), UNCHANGED <<dev, failed>>
      PROVE  NInv'
  <2>1. cmds \in Seq([does : Commands, to : Names]) /\ Command("route", n) \in [does : Commands, to : Names]
    <3>1. n \in Names
      BY <1>1, <1>3 DEF TunTypeOK, Holds, Made
    <3>2. QED BY <3>1 DEF TunTypeOK, Command, Commands
  <2>2. /\ cmds' \in Seq([does : Commands, to : Names]) /\ Len(cmds) \in Nat
        /\ Len(cmds') = Len(cmds) + 1 /\ DOMAIN cmds' = 1 .. Len(cmds) + 1
        /\ DOMAIN cmds = 1 .. Len(cmds)
        /\ cmds'[Len(cmds) + 1] = Command("route", n)
        /\ \A i \in 1 .. Len(cmds) : cmds'[i] = cmds[i]
    BY <1>3, <2>1
  <2>3. TunTypeOK' /\ Holds' /\ Routed' /\ NoneYet' /\ ErrorMeansClosed' /\ NoSelfConflict' /\ OnlyOwnInterface'
    BY <1>1, <1>3, <2>2 DEF TunTypeOK, Holds, Made, Routed, NoneYet, ErrorMeansClosed, NoSelfConflict,
          OnlyOwnInterface
  <2>4. Command("route", n).does = "route" /\ Command("route", n).to = n
    BY DEF Command
  <2>5. Planned'
    <3>1. shouldAddNativeRoute'
      BY <1>1 DEF Index, Routed, shouldAddNativeRoute
    <3>2. n # used => (n \in existing => Ambiguous')
      BY <1>1, <1>3 DEF Ambiguous
    <3>3. QED BY <1>1, <1>3, <2>2, <2>4, <3>1, <3>2 DEF Planned
  <2>6. Configured'
    BY <1>1 DEF Configured, NothingDone
  <2>7. OnItsWay'
    <3>1. Pending("route")' /\ (Pending("up") => Pending("up")') /\ (Pending("addr") => Pending("addr")')
      BY <2>2, <2>4 DEF Pending
    <3>2. QED BY <1>1, <3>1 DEF OnItsWay, NameFound
  <2>8. QED BY <2>3, <2>5, <2>6, <2>7
<1>4. QED BY <1>2, <1>3 DEF Index

(* The command at the head of the list.                                    *)
LEMMA HeadCommand ==
  ASSUME NInv, pc = "run", cmds # <<>>
  PROVE  /\ Head(cmds) \in [does : Commands, to : Names]
         /\ Tail(cmds) \in Seq([does : Commands, to : Names])
         /\ 1 \in DOMAIN cmds /\ cmds[1] = Head(cmds) /\ Len(cmds) \in Nat
         /\ DOMAIN cmds = 1 .. Len(cmds)
         /\ Len(Tail(cmds)) = Len(cmds) - 1 /\ DOMAIN Tail(cmds) = 1 .. Len(cmds) - 1
         /\ \A i \in 1 .. Len(cmds) - 1 : Tail(cmds)[i] = cmds[i + 1]
         /\ Head(cmds).does # "route" => Head(cmds).to = used
         /\ Head(cmds).does = "route" => Len(cmds) = 1 /\ shouldAddNativeRoute
         /\ Head(cmds).to # used => platform = "windows" /\ (Head(cmds).to \in existing => Ambiguous)
         /\ \A does : Pending(does) =>
              Head(cmds).does = does \/ \E i \in DOMAIN Tail(cmds) : Tail(cmds)[i].does = does
<1>1. cmds \in Seq([does : Commands, to : Names])
  BY DEF NInv, TunTypeOK
<1>2. /\ Head(cmds) \in [does : Commands, to : Names]
      /\ Tail(cmds) \in Seq([does : Commands, to : Names])
      /\ 1 \in DOMAIN cmds /\ cmds[1] = Head(cmds) /\ Len(cmds) \in Nat
      /\ DOMAIN cmds = 1 .. Len(cmds)
      /\ Len(Tail(cmds)) = Len(cmds) - 1 /\ DOMAIN Tail(cmds) = 1 .. Len(cmds) - 1
      /\ \A i \in 1 .. Len(cmds) - 1 : Tail(cmds)[i] = cmds[i + 1]
  <2>1. /\ Head(cmds) \in [does : Commands, to : Names]
        /\ Tail(cmds) \in Seq([does : Commands, to : Names])
        /\ Len(Tail(cmds)) = Len(cmds) - 1
        /\ \A i \in 1 .. Len(Tail(cmds)) : Tail(cmds)[i] = cmds[i + 1]
    BY <1>1, HeadTailProperties
  <2>2. Len(cmds) \in Nat \ {0} /\ DOMAIN cmds = 1 .. Len(cmds) /\ cmds[1] = Head(cmds)
    BY <1>1
  <2>3. DOMAIN Tail(cmds) = 1 .. Len(Tail(cmds))
    BY <2>1
  <2>4. QED BY <2>1, <2>2, <2>3
<1>3. /\ Head(cmds).does # "route" => Head(cmds).to = used
      /\ Head(cmds).does = "route" => Len(cmds) = 1 /\ shouldAddNativeRoute
      /\ Head(cmds).to # used => platform = "windows" /\ (Head(cmds).to \in existing => Ambiguous)
  BY <1>2 DEF NInv, Planned
<1>4. ASSUME NEW does, Pending(does)
      PROVE  Head(cmds).does = does \/ \E i \in DOMAIN Tail(cmds) : Tail(cmds)[i].does = does
  <2>1. PICK i \in DOMAIN cmds : cmds[i].does = does
    BY <1>4 DEF Pending
  <2>2. CASE i = 1
    BY <1>2, <2>1, <2>2
  <2>3. CASE i # 1
    <3>1. i - 1 \in 1 .. Len(cmds) - 1 /\ (i - 1) + 1 = i
      BY <1>2, <2>1, <2>3
    <3>2. Tail(cmds)[i - 1] = cmds[i]
      BY <1>2, <3>1
    <3>3. QED BY <1>2, <2>1, <3>1, <3>2
  <2>4. QED BY <2>2, <2>3
<1>5. QED BY <1>2, <1>3, <1>4

(* The commands never stand in each other's way.                           *)
LEMMA RefusedForOthers ==
  ASSUME NInv, pc = "run", cmds # <<>>
  PROVE  Refusal(Head(cmds)) \in {"no", "text", "nodev"}
<1> DEFINE h == Head(cmds)
<1> SUFFICES ASSUME Refusal(h) \notin {"no", "text", "nodev"} PROVE FALSE
  OBVIOUS
<1>1. ~Unreadable(h) /\ h.does = "route" /\ h.to = actual /\ (Target \in iface.routes \/ ~iface.up)
  BY DEF Refusal
<1>2. Len(cmds) = 1 /\ shouldAddNativeRoute /\ Pending("route") /\ cmds[1] = h
      /\ DOMAIN cmds = 1 .. 1
  BY <1>1, HeadCommand DEF Pending
<1>3. subnet.form # "other"
  BY <1>1 DEF Unreadable
<1>4. addr \in Texts /\ subnet \in Texts
  BY DEF NInv, TunTypeOK
<1>5. CASE Target \in iface.routes
  <2>1. Target = Masked(addr.a, addr.p) /\ Target.p < Width /\ addr.form # "other"
    BY <1>2, <1>5 DEF NInv, Configured
  <2>2. addr.p < Width /\ subnet.p < Width
    BY <2>1 DEF Target, Masked
  <2>3. \A t \in Texts : t.form = "cidr" \/ t.form = "other" \/ t.p = Width
    BY DEF Texts
  <2>4. addr.form = "cidr" /\ subnet.form = "cidr"
    BY <1>3, <1>4, <2>1, <2>2, <2>3, NativeAssumption
  <2>5. QED BY <1>2, <2>1, <2>4 DEF shouldAddNativeRoute, Target
<1>6. CASE ~iface.up
  <2>1. used = actual
    BY <1>1, HeadCommand DEF NInv, Holds, Made
  <2>2. Pending("up")
    BY <1>6, <2>1 DEF NInv, OnItsWay, NameFound
  <2>3. QED BY <1>1, <1>2, <2>2 DEF Pending
<1>7. QED BY <1>1, <1>5, <1>6

(* What a command that is not refused does to the interface.               *)
LEMMA EffectOf ==
  ASSUME NInv, pc = "run", NEW does \in Commands, iface' = Effect(does)
  PROVE  /\ iface' \in [up : BOOLEAN, addrs : SUBSET Prefix, routes : SUBSET Prefix]
         /\ iface'.up = (iface.up \/ does = "up")
         /\ iface'.addrs = iface.addrs \cup (IF does = "addr" THEN {Masked(addr.a, addr.p)} ELSE {})
         /\ iface.routes \subseteq iface'.routes
         /\ does = "route" => Target \in iface'.routes
         /\ does # "route" => iface'.routes \subseteq iface.routes \cup {r \in iface'.addrs : r.p < Width}
<1>1. /\ iface \in [up : BOOLEAN, addrs : SUBSET Prefix, routes : SUBSET Prefix]
      /\ addr \in Texts /\ subnet \in Texts
  BY DEF NInv, TunTypeOK
<1>2. Target \in Prefix /\ Masked(addr.a, addr.p) \in Prefix /\ AddrPrefix = Masked(addr.a, addr.p)
  BY <1>1, TextsMasked, MasksReadBack DEF Target, AddrPrefix
<1> DEFINE m == Masked(addr.a, addr.p)
<1> HIDE DEF m
<1>3. CASE does = "up"
  <2>1. iface' = Connected([iface EXCEPT !.up = TRUE])
    BY <1>3 DEF Effect
  <2>2. iface' = [up |-> TRUE, addrs |-> iface.addrs,
                  routes |-> iface.routes \cup {r \in iface.addrs : r.p < Width}]
    BY <1>1, <2>1 DEF Connected
  <2>3. /\ iface'.up = TRUE /\ iface'.addrs = iface.addrs
        /\ iface'.routes = iface.routes \cup {r \in iface.addrs : r.p < Width}
    BY <2>2
  <2>4. iface' \in [up : BOOLEAN, addrs : SUBSET Prefix, routes : SUBSET Prefix]
    BY <1>1, <2>2
  <2>5. QED BY <1>3, <2>3, <2>4
<1>4. CASE does = "addr"
  <2>1. iface' = Connected([iface EXCEPT !.addrs = @ \cup {m}])
    BY <1>2, <1>4 DEF Effect, m
  <2>2. iface' = [up |-> iface.up, addrs |-> iface.addrs \cup {m},
                  routes |-> IF iface.up
                    THEN iface.routes \cup {r \in iface.addrs \cup {m} : r.p < Width}
                    ELSE iface.routes]
    BY <1>1, <2>1 DEF Connected
  <2>3. m \in Prefix
    BY <1>2 DEF m
  <2>4. QED BY <1>1, <1>4, <2>2, <2>3 DEF m
<1>5. CASE does = "route"
  <2>1. iface' = [up |-> iface.up, addrs |-> iface.addrs, routes |-> iface.routes \cup {Target}]
    BY <1>1, <1>5 DEF Effect
  <2>2. QED BY <1>1, <1>2, <1>5, <2>1
<1>6. QED BY <1>3, <1>4, <1>5 DEF Commands

LEMMA RunKeeps == NInv /\ Run => NInv'
<1> SUFFICES ASSUME NInv, Run PROVE NInv'
  OBVIOUS
<1> USE DEF inputs
<1> DEFINE h == Head(cmds)
<1>1. /\ pc = "run" /\ pc' = "run" /\ cmds # <<>> /\ cmds' = Tail(cmds)
      /\ UNCHANGED <<platform, addr, subnet, panics, existing, dev, actual, used, failed>>
      /\ Refusal(h) = "no"
      /\ \/ h.to = actual /\ iface' = Effect(h.does) /\ UNCHANGED touched
         \/ h.to # actual /\ touched' = touched \cup {h.to} /\ UNCHANGED iface
  BY DEF Run
<1>2. /\ h \in [does : Commands, to : Names] /\ h.does \in Commands
      /\ Tail(cmds) \in Seq([does : Commands, to : Names])
      /\ 1 \in DOMAIN cmds /\ cmds[1] = h /\ Len(cmds) \in Nat /\ DOMAIN cmds = 1 .. Len(cmds)
      /\ Len(cmds') = Len(cmds) - 1 /\ DOMAIN cmds' = 1 .. Len(cmds) - 1
      /\ \A i \in 1 .. Len(cmds) - 1 : cmds'[i] = cmds[i + 1] /\ i + 1 \in DOMAIN cmds
  BY <1>1, HeadCommand
<1>3. /\ h.does # "route" => h.to = used
      /\ h.does = "route" => Len(cmds) = 1 /\ shouldAddNativeRoute
      /\ h.to # used => platform = "windows" /\ (h.to \in existing => Ambiguous)
      /\ \A does : Pending(does) => h.does = does \/ Pending(does)'
  BY <1>1, HeadCommand DEF Pending
<1>4. ~Unreadable(h) /\ h.to \in existing \cup {actual}
  BY <1>1 DEF Refusal
<1> HIDE DEF h
<1>0. TunTypeOK /\ Holds /\ NoneYet /\ Planned /\ Configured /\ OnItsWay /\ ErrorMeansClosed
      /\ NoSelfConflict /\ OnlyOwnInterface
  BY DEF NInv
<1>5. /\ iface' \in [up : BOOLEAN, addrs : SUBSET Prefix, routes : SUBSET Prefix]
      /\ iface.up => iface'.up
      /\ iface.addrs \subseteq iface'.addrs /\ iface.routes \subseteq iface'.routes
      /\ iface'.addrs \subseteq iface.addrs \cup {Masked(addr.a, addr.p)}
      /\ iface'.addrs # iface.addrs => h.does = "addr"
      /\ h.does # "route" => iface'.routes \subseteq iface.routes \cup {r \in iface'.addrs : r.p < Width}
  <2>1. CASE h.to = actual
    <3>1. iface' = Effect(h.does)
      BY <1>1, <2>1
    <3>2. QED BY <1>1, <1>2, <3>1, EffectOf
  <2>2. CASE h.to # actual
    BY <1>0, <1>1, <2>2 DEF TunTypeOK
  <2>3. QED BY <2>1, <2>2
<1>6. TunTypeOK'
  BY <1>0, <1>1, <1>2, <1>4, <1>5 DEF TunTypeOK
<1>7. Holds' /\ NoneYet' /\ Routed' /\ ErrorMeansClosed' /\ NoSelfConflict'
  BY <1>0, <1>1 DEF Holds, Made, NoneYet, Routed, ErrorMeansClosed, NoSelfConflict
<1>8. Planned'
  <2>1. shouldAddNativeRoute' = shouldAddNativeRoute /\ Ambiguous' = Ambiguous
    BY <1>1 DEF shouldAddNativeRoute, Ambiguous
  <2>2. QED BY <1>0, <1>1, <1>2, <2>1 DEF Planned
<1>9. Configured'
  <2>1. iface'.addrs # {} => addr.form # "other"
    BY <1>0, <1>4, <1>5 DEF Configured, Unreadable
  <2>2. iface'.addrs \subseteq {Masked(addr.a, addr.p)}
    BY <1>0, <1>5 DEF Configured
  <2>3. ASSUME Pending("route")'
        PROVE  \A r \in iface'.routes : r \in iface'.addrs /\ r.p < Width
    <3>1. Pending("route")
      BY <1>2, <2>3 DEF Pending
    <3>2. h.does # "route"
      BY <1>2, <1>3, <2>3 DEF Pending
    <3>3. QED BY <1>0, <1>1, <1>5, <3>1, <3>2 DEF Configured
  <2>4. QED BY <1>1, <2>1, <2>2, <2>3 DEF Configured
<1>10. OnItsWay'
  <2>1. SUFFICES ASSUME NameFound
                 PROVE  /\ iface'.up \/ Pending("up")'
                        /\ Masked(addr.a, addr.p) \in iface'.addrs \/ Pending("addr")'
                        /\ \/ ~shouldAddNativeRoute
                           \/ Target \in iface'.routes \/ Pending("route")'
                           \/ platform = "windows" /\ Ambiguous
    BY <1>1 DEF OnItsWay, NameFound, shouldAddNativeRoute, Target, Ambiguous
  <2>2. used = actual
    BY <2>1 DEF NameFound
  <2>3. /\ iface.up \/ Pending("up")
        /\ Masked(addr.a, addr.p) \in iface.addrs \/ Pending("addr")
        /\ \/ ~shouldAddNativeRoute
           \/ Target \in iface.routes \/ Pending("route")
           \/ platform = "windows" /\ Ambiguous
    BY <1>0, <1>1, <2>1 DEF OnItsWay
  <2>4. CASE h.to = actual
    <3>1. iface' = Effect(h.does)
      BY <1>1, <2>4
    <3>2. /\ iface'.up = (iface.up \/ h.does = "up")
          /\ h.does = "addr" => Masked(addr.a, addr.p) \in iface'.addrs
          /\ h.does = "route" => Target \in iface'.routes
      BY <1>1, <1>2, <3>1, EffectOf
    <3>3. QED BY <1>3, <1>5, <2>3, <3>2
  <2>5. CASE h.to # actual
    <3>1. h.does = "route" /\ platform = "windows" /\ Ambiguous
      BY <1>3, <1>4, <2>2, <2>5
    <3>2. QED BY <1>3, <1>5, <2>3, <3>1
  <2>6. QED BY <2>4, <2>5
<1>11. OnlyOwnInterface'
  <2>1. CASE h.to = actual
    BY <1>0, <1>1, <2>1 DEF OnlyOwnInterface, NameFound, Ambiguous
  <2>2. CASE h.to # actual
    BY <1>1, <1>3, <1>4, <2>2 DEF OnlyOwnInterface, NameFound, Ambiguous
  <2>3. QED BY <2>1, <2>2
<1>12. QED BY <1>6, <1>7, <1>8, <1>9, <1>10, <1>11 DEF NInv

LEMMA RunFailsKeeps == NInv /\ RunFails => NInv'
<1> SUFFICES ASSUME NInv, RunFails PROVE NInv'
  OBVIOUS
<1>1. /\ pc = "run" /\ cmds # <<>>
      /\ UNCHANGED <<platform, addr, subnet, panics, existing, actual, used, iface, cmds, touched>>
      /\ \/ pc' = "crash" /\ dev' = dev
         \/ pc' = "error" /\ dev' = "closed"
  BY DEF RunFails, Fail, inputs
<1>2. failed' \in {"env", "text", "nodev"}
  <2>1. PICK why \in {"env", Refusal(Head(cmds))} : why # "no" /\ failed' = why
    BY DEF RunFails, Fail
  <2>2. QED BY <1>1, <2>1, RefusedForOthers
<1>3. TunTypeOK' /\ Holds' /\ NoneYet' /\ Routed' /\ Planned' /\ OnItsWay' /\ ErrorMeansClosed'
      /\ NoSelfConflict'
  BY <1>1, <1>2 DEF NInv, TunTypeOK, Holds, Made, NoneYet, Routed, Planned, OnItsWay,
        ErrorMeansClosed, NoSelfConflict
<1>4. Configured' /\ OnlyOwnInterface'
  BY <1>1 DEF NInv, Configured, OnlyOwnInterface, NameFound, Ambiguous
<1>5. QED BY <1>3, <1>4 DEF NInv

LEMMA ReturnKeeps == NInv /\ Return => NInv'
<1> SUFFICES ASSUME NInv, Return PROVE NInv'
  OBVIOUS
<1>1. /\ pc = "run" /\ cmds = <<>> /\ pc' = "ok"
      /\ UNCHANGED <<platform, addr, subnet, panics, existing, dev, actual, used, iface, cmds,
                     failed, touched>>
  BY DEF Return, Go, inputs
<1>2. OnItsWay'
  BY <1>1 DEF NInv, OnItsWay, NameFound, Pending, shouldAddNativeRoute, Target, Ambiguous
<1>3. TunTypeOK' /\ Holds' /\ NoneYet' /\ Routed' /\ Planned' /\ ErrorMeansClosed' /\ NoSelfConflict'
  BY <1>1 DEF NInv, TunTypeOK, Holds, Made, NoneYet, Routed, Planned, ErrorMeansClosed,
        NoSelfConflict
<1>4. Configured' /\ OnlyOwnInterface'
  BY <1>1 DEF NInv, Configured, OnlyOwnInterface, NameFound, Ambiguous
<1>5. QED BY <1>2, <1>3, <1>4 DEF NInv

LEMMA NInvStep == NInv /\ [nativeFromCfg]_tunVars => NInv'
<1> SUFFICES ASSUME NInv, [nativeFromCfg]_tunVars PROVE NInv'
  OBVIOUS
<1>1. CASE UNCHANGED tunVars
  <2>1. UNCHANGED <<platform, addr, subnet, panics, existing, pc, dev, actual, used, iface, cmds,
                    failed, touched>>
    BY <1>1 DEF tunVars, inputs
  <2>2. TunTypeOK' /\ Holds' /\ NoneYet' /\ Routed' /\ ErrorMeansClosed' /\ NoSelfConflict'
    BY <2>1 DEF NInv, TunTypeOK, Holds, Made, NoneYet, Routed, shouldAddNativeRoute,
         ErrorMeansClosed, NoSelfConflict
  <2>3. Planned' /\ Configured'
    BY <2>1 DEF NInv, Planned, Configured, Pending, shouldAddNativeRoute, Ambiguous
  <2>4. OnItsWay' /\ OnlyOwnInterface'
    BY <2>1 DEF NInv, OnItsWay, OnlyOwnInterface, NameFound, Ambiguous, Pending,
         shouldAddNativeRoute, Target
  <2>5. QED BY <2>2, <2>3, <2>4 DEF NInv
<1>2. QED BY <1>1, MakingKeeps, PlanKeeps, IndexKeeps, RunKeeps, RunFailsKeeps, ReturnKeeps
          DEF nativeFromCfg

LEMMA NInvAlways == TunSpec => []NInv
BY NInvInit, NInvStep, PTL DEF TunSpec

(* Every variable of nativeFromCfg keeps its type, for any width of the    *)
(* addresses that has four octets.                                         *)
THEOREM TunTypeCorrect == TunSpec => []TunTypeOK
<1>1. NInv => TunTypeOK
  BY DEF NInv
<1>2. QED BY <1>1, NInvAlways, PTL

(* A device that is handed over is up, has its address and routes the      *)
(* subnet; an error has closed it.                                         *)
THEOREM NativeReturnIsTrue == TunSpec => []ReturnIsTrue
<1>1. NInv => ReturnIsTrue
  <2> SUFFICES ASSUME NInv PROVE ReturnIsTrue
    OBVIOUS
  <2>1. ASSUME pc = "ok", NameFound PROVE OkMeansConfigured
    <3>1. dev = "open" /\ \A does : ~Pending(does)
      BY <2>1 DEF NInv, Holds, Made, NoneYet, Pending
    <3>2. iface.up /\ Masked(addr.a, addr.p) \in iface.addrs
      BY <2>1, <3>1 DEF NInv, OnItsWay
    <3>3. ~shouldAddNativeRoute => Target = Masked(addr.a, addr.p)
      BY DEF shouldAddNativeRoute, Target
    <3>4. \/ ~shouldAddNativeRoute \/ Target \in iface.routes
          \/ platform = "windows" /\ Ambiguous
      BY <2>1, <3>1 DEF NInv, OnItsWay
    <3>5. QED BY <3>1, <3>2, <3>3, <3>4 DEF OkMeansConfigured
  <2>2. QED BY <2>1 DEF NInv, ReturnIsTrue, OkMeansConfigured
<1>2. QED BY <1>1, NInvAlways, PTL

(* No command fails because an earlier one, or the system, was there       *)
(* before: the route is left out exactly where the address brings it.      *)
THEOREM CommandsAgree == TunSpec => []NoSelfConflict
<1>1. NInv => NoSelfConflict
  BY DEF NInv
<1>2. QED BY <1>1, NInvAlways, PTL

(* Interfaces of others are left alone, where the name is known and is     *)
(* part of no other name.                                                  *)
THEOREM OthersUntouched == TunSpec => []OnlyOwnInterface
<1>1. NInv => OnlyOwnInterface
  BY DEF NInv
<1>2. QED BY <1>1, NInvAlways, PTL
=============================================================================
