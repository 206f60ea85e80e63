----------------------------- MODULE LogsProofs -----------------------------
(***************************************************************************)
(* What Logs guarantees for any number of threads and any limit: the list  *)
(* is the end of all that was added, and nobody sees two lines in another  *)
(* order than that of their calls, because a call that has not returned    *)
(* when its line is added (Running) is in no earlier call's past (Past).   *)
(***************************************************************************)
EXTENDS Logs, SequenceTheorems, TLAPS

(* A sequence cut twice is cut once.                                       *)
LEMMA LastOfAppend ==
  ASSUME NEW S, NEW s \in Seq(S), NEW e \in S
  PROVE  LastOf(Append(LastOf(s), e)) = LastOf(Append(s, e))
<1> USE LogsAssumption
<1>1. CASE Len(s) <= Limit
  BY <1>1 DEF LastOf
<1>2. CASE Len(s) > Limit
  <2> DEFINE u == LastOf(s)
             a == LastOf(Append(u, e))
             b == LastOf(Append(s, e))
  <2>1. u \in Seq(S) /\ Len(u) = Limit
        /\ \A i \in 1 .. Limit : u[i] = s[Len(s) - Limit + i]
    BY <1>2 DEF LastOf
  <2>2. a \in Seq(S) /\ Len(a) = Limit
        /\ \A i \in 1 .. Limit : a[i] = Append(u, e)[i + 1]
    BY <2>1 DEF LastOf
  <2>3. b \in Seq(S) /\ Len(b) = Limit
        /\ \A i \in 1 .. Limit : b[i] = Append(s, e)[Len(s) - Limit + 1 + i]
    BY <1>2 DEF LastOf
  <2>4. ASSUME NEW i \in 1 .. Limit PROVE a[i] = b[i]
    <3>1. CASE i = Limit
      BY <1>2, <2>1, <2>2, <2>3, <3>1
    <3>2. CASE i < Limit
      <4>0. i + 1 \in 1 .. Len(u) /\ Len(s) - Limit + 1 + i \in 1 .. Len(s)
        BY <1>2, <2>1, <3>2
      <4> HIDE DEF u
      <4>1. a[i] = u[i + 1] /\ b[i] = s[Len(s) - Limit + 1 + i]
        BY <2>1, <2>2, <2>3, <4>0, AppendProperties
      <4>2. QED BY <2>1, <3>2, <4>1
    <3>3. QED BY <3>1, <3>2
  <2>5. QED BY <2>2, <2>3, <2>4, SeqEqual
<1>3. QED BY <1>1, <1>2 DEF LastOf

(* Lines in the order of their calls, all of calls that have begun.        *)
Known(s) == \A i \in DOMAIN s : s[i] \in Begun
Good(s) == Ordered(s) /\ Known(s)

(* The cut leaves a sequence of at most Limit of the elements, in order.   *)
LEMMA LastOfProperties ==
  ASSUME NEW s \in Seq(CallIds)
  PROVE  /\ LastOf(s) \in Seq(CallIds) /\ Len(LastOf(s)) <= Limit
         /\ Good(s) => Good(LastOf(s))
<1> USE LogsAssumption
<1>1. CASE Len(s) <= Limit
  BY <1>1 DEF LastOf
<1>2. CASE Len(s) > Limit
  <2>1. LastOf(s) \in Seq(CallIds) /\ Len(LastOf(s)) = Limit
        /\ \A i \in 1 .. Limit : LastOf(s)[i] = s[Len(s) - Limit + i]
    BY <1>2 DEF LastOf
  <2>2. ASSUME Ordered(s), NEW i \in 1 .. Limit, NEW j \in 1 .. Limit, i < j
        PROVE  LastOf(s)[j] \notin before[LastOf(s)[i]]
    <3> DEFINE d == Len(s) - Limit
    <3>1. d + i \in DOMAIN s /\ d + j \in DOMAIN s /\ d + i < d + j
      BY <1>2, <2>2
    <3>2. QED BY <2>1, <2>2, <3>1 DEF Ordered
  <2>3. Ordered(s) => Ordered(LastOf(s))
    BY <2>1, <2>2 DEF Ordered
  <2>4. Known(s) => Known(LastOf(s))
    BY <1>2, <2>1 DEF Known
  <2>5. QED BY <2>1, <2>3, <2>4 DEF Good
<1>3. QED BY <1>1, <1>2
-----------------------------------------------------------------------------
(* The past of a call is made of calls that have returned.                 *)
Past == \A c \in CallIds : before[c] \subseteq Returned

(* Where a call is, its line is where it has passed.                       *)
Running ==
  \A t \in Threads :
    /\ pc[t] # "idle" => count[t] > 0
    /\ pc[t] = "stdout" => call[t].tee
    /\ pc[t] = "notify" => Dropped(t) \/ In(Current(t), kept)
    /\ pc[t] \in {"add", "notify"} /\ call[t].tee => In(Current(t), stdout)

(* The inductive invariant.                                                *)
LInv ==
  /\ TypeOK /\ KeepsLast /\ ReturnedIsLogged
  /\ Past /\ Running
  /\ Good(kept) /\ Good(stdout) /\ Good(drawn)

LEMMA LInvInit == Init => LInv
<1> SUFFICES ASSUME Init PROVE LInv
  OBVIOUS
<1> USE LogsAssumption DEF Init
<1>1. TypeOK
  <2>1. /\ pc \in [Threads -> {"idle", "stdout", "add", "notify"}]
        /\ count \in [Threads -> 0 .. MaxCalls]
    OBVIOUS
  <2>2. call \in [Threads -> Calls]
    BY DEF Calls
  <2>3. /\ lines \in Seq(CallIds) /\ Len(lines) <= Limit
        /\ stdout \in Seq(CallIds) /\ kept \in Seq(CallIds) /\ drawn \in Seq(CallIds)
    OBVIOUS
  <2>4. before \in [CallIds -> SUBSET CallIds]
    OBVIOUS
  <2>5. QED BY <2>1, <2>2, <2>3, <2>4 DEF TypeOK
<1>2. KeepsLast
  BY DEF KeepsLast, LastOf
<1>3. Past /\ Running /\ ReturnedIsLogged
  BY DEF Past, Running, ReturnedIsLogged
<1>4. Good(kept) /\ Good(stdout) /\ Good(drawn)
  BY DEF Good, Ordered, Known
<1>5. QED BY <1>1, <1>2, <1>3, <1>4 DEF LInv

(* A running call is numbered, and in nobody's past.                       *)
LEMMA CurrentIsNew ==
  ASSUME LInv, NEW t \in Threads, pc[t] # "idle"
  PROVE  /\ Current(t) \in CallIds /\ Current(t) \in Begun
         /\ \A c \in CallIds : Current(t) \notin before[c]
<1>1. Current(t) \in CallIds
  BY LogsAssumption DEF LInv, TypeOK, Running, Current, CallIds
<1>2. Current(t) \notin Returned /\ Current(t) \in Begun
  BY <1>1 DEF Returned, Begun, Current, LInv, TypeOK
<1>3. QED BY <1>1, <1>2 DEF LInv, Past

(* So its line may be put behind all others.                               *)
LEMMA AppendOrdered ==
  ASSUME LInv, NEW t \in Threads, pc[t] # "idle",
         NEW s \in Seq(CallIds), Good(s)
  PROVE  Append(s, Current(t)) \in Seq(CallIds) /\ Good(Append(s, Current(t)))
<1> DEFINE c == Current(t)
           longer == Append(s, c)
<1>1. c \in CallIds /\ c \in Begun /\ \A d \in CallIds : c \notin before[d]
  BY CurrentIsNew
<1> HIDE DEF c
<1>2. longer \in Seq(CallIds) /\ Len(longer) = Len(s) + 1
      /\ \A i \in 1 .. Len(s) : longer[i] = s[i]
      /\ longer[Len(s) + 1] = c
  BY <1>1
<1>3. ASSUME NEW i \in DOMAIN longer, NEW j \in DOMAIN longer, i < j
      PROVE  longer[j] \notin before[longer[i]]
  <2>1. i \in 1 .. Len(s) /\ j \in 1 .. Len(s) + 1
    BY <1>2, <1>3
  <2>2. CASE j = Len(s) + 1
    BY <1>1, <1>2, <2>1, <2>2
  <2>3. CASE j \in 1 .. Len(s)
    BY <1>2, <1>3, <2>1, <2>3 DEF Good, Ordered
  <2>4. QED BY <2>1, <2>2, <2>3
<1>4. Known(longer)
  BY <1>1, <1>2 DEF Good, Known
<1>5. QED BY <1>2, <1>3, <1>4 DEF Good, Ordered, c

(* Nothing that is in a sequence is lost when it grows.                    *)
LEMMA InAppend ==
  ASSUME NEW S, NEW s \in Seq(S), NEW e \in S
  PROVE  In(e, Append(s, e)) /\ \A c : In(c, s) => In(c, Append(s, e))
<1>1. Len(s) + 1 \in DOMAIN Append(s, e) /\ Append(s, e)[Len(s) + 1] = e
  OBVIOUS
<1>2. \A i \in DOMAIN s : i \in DOMAIN Append(s, e) /\ Append(s, e)[i] = s[i]
  OBVIOUS
<1>3. QED BY <1>1, <1>2 DEF In

(* Add leaves the list at the end of what was added.                       *)
LEMMA AddKeeps ==
  ASSUME LInv, NEW t \in Threads, Add(t)
  PROVE  /\ KeepsLast' /\ kept' \in Seq(CallIds) /\ Good(kept)'
         /\ lines' \in Seq(CallIds) /\ Len(lines') <= Limit
         /\ Dropped(t) \/ In(Current(t), kept')
         /\ \A c : In(c, kept) => In(c, kept')
<1> DEFINE c == Current(t)
<1>0. c \in CallIds /\ kept \in Seq(CallIds) /\ Good(kept) /\ KeepsLast
      /\ lines \in Seq(CallIds) /\ Len(lines) <= Limit /\ before' = before /\ count' = count
      /\ pc[t] # "idle"
  BY CurrentIsNew DEF LInv, TypeOK, Add, AddAs
<1>1. CASE Dropped(t)
  <2>1. lines' = lines /\ kept' = kept
    BY <1>1 DEF Add, AddAs
  <2>2. QED BY <1>0, <1>1, <2>1 DEF KeepsLast, Good, Ordered, Known, Begun
<1>2. CASE ~Dropped(t)
  <2>1. lines' = LastOf(Append(lines, c)) /\ kept' = Append(kept, c)
    BY <1>2 DEF Add, AddAs
  <2> HIDE DEF c
  <2>2. lines' = LastOf(kept')
    BY <1>0, <2>1, LastOfAppend DEF KeepsLast
  <2>3. kept' \in Seq(CallIds) /\ Good(kept')
    BY <1>0, <2>1, AppendOrdered DEF c
  <2>4. lines' \in Seq(CallIds) /\ Len(lines') <= Limit
    BY <2>2, <2>3, LastOfProperties
  <2>5. In(c, kept') /\ \A d : In(d, kept) => In(d, kept')
    BY <1>0, <2>1, InAppend
  <2>6. QED BY <1>0, <2>2, <2>3, <2>4, <2>5 DEF KeepsLast, Good, Ordered, Known, Begun, c
<1>3. QED BY <1>1, <1>2

(* A call that has returned has returned for good.                         *)
LEMMA ReturnedGrows == LInv /\ [Next]_vars => Returned \subseteq Returned'
<1> SUFFICES ASSUME LInv, [Next]_vars, NEW c \in Returned PROVE c \in Returned'
  OBVIOUS
<1>0. c \in CallIds /\ c[1] \in Threads /\ c[2] \in 1 .. MaxCalls
      /\ c = <<c[1], c[2]>> /\ c[2] <= count[c[1]]
      /\ count \in [Threads -> 0 .. MaxCalls]
  BY DEF Returned, Begun, CallIds, LInv, TypeOK
<1>1. ASSUME NEW t \in Threads, Begin(t) PROVE c \in Returned'
  <2>1. count' = [count EXCEPT ![t] = @ + 1] /\ pc[t] = "idle"
        /\ \A x \in Threads \ {t} : pc'[x] = pc[x]
    BY <1>1 DEF Begin, LInv, TypeOK
  <2>2. CASE c[1] = t
    BY <1>0, <2>1, <2>2, LogsAssumption DEF Returned, Begun, Current
  <2>3. CASE c[1] # t
    BY <1>0, <2>1, <2>3 DEF Returned, Begun, Current
  <2>4. QED BY <2>2, <2>3
<1>2. ASSUME NEW t \in Threads, Stdout(t) \/ Add(t) \/ Notify(t) PROVE c \in Returned'
  <2>1. count' = count /\ pc[t] # "idle" /\ \A x \in Threads \ {t} : pc'[x] = pc[x]
    BY <1>2 DEF Stdout, Add, AddAs, Notify, LInv, TypeOK
  <2>2. QED BY <1>0, <2>1 DEF Returned, Begun, Current
<1>3. CASE UNCHANGED threads
  BY <1>3 DEF threads, Returned, Begun, Current
<1>4. QED
  BY <1>1, <1>2, <1>3 DEF Next, FrameBegins, Snapshot, vars

LEMMA LInvStep == LInv /\ [Next]_vars => LInv'
<1> SUFFICES ASSUME LInv, [Next]_vars PROVE LInv'
  OBVIOUS
<1> USE LogsAssumption
<1>0. Returned \subseteq Returned'
  BY ReturnedGrows
<1>a. TypeOK /\ KeepsLast /\ ReturnedIsLogged /\ Past /\ Running
      /\ Good(kept) /\ Good(stdout) /\ Good(drawn)
  BY DEF LInv
<1>b. UNCHANGED before => Past'
  BY <1>0, <1>a DEF Past
<1>1. ASSUME NEW t \in Threads, Begin(t) PROVE LInv'
  <2>1. /\ UNCHANGED <<app, alive, lines, stdout, dirty, drawing, drawn, kept>>
        /\ pc[t] = "idle" /\ count[t] < MaxCalls
        /\ count' = [count EXCEPT ![t] = @ + 1]
        /\ before' = [before EXCEPT ![<<t, count[t] + 1>>] = Returned]
    BY <1>1 DEF Begin, window
  <2>2. PICK c \in Calls : /\ call' = [call EXCEPT ![t] = c]
                           /\ pc' = [pc EXCEPT ![t] = IF c.tee THEN "stdout" ELSE "add"]
                           /\ c.tee => app = "gui"
    BY <1>1 DEF Begin
  <2>3. <<t, count[t] + 1>> \in CallIds /\ Returned \subseteq CallIds
    BY <1>a, <2>1 DEF TypeOK, CallIds, Returned, Begun
  <2>4. TypeOK'
    <3>1. pc' \in [Threads -> {"idle", "stdout", "add", "notify"}]
      BY <1>a, <2>2 DEF TypeOK
    <3>2. call' \in [Threads -> Calls] /\ count' \in [Threads -> 0 .. MaxCalls]
      BY <1>a, <2>1, <2>2 DEF TypeOK
    <3>3. before' \in [CallIds -> SUBSET CallIds]
      BY <1>a, <2>1, <2>3 DEF TypeOK
    <3>4. QED BY <1>a, <2>1, <3>1, <3>2, <3>3 DEF TypeOK
  <2>5. Past'
    BY <1>0, <1>a, <2>1, <2>3 DEF Past, TypeOK
  <2>6. \A x \in Threads \ {t} : pc'[x] = pc[x] /\ call'[x] = call[x] /\ count'[x] = count[x]
    BY <1>a, <2>1, <2>2 DEF TypeOK
  <2>7. /\ pc'[t] = (IF c.tee THEN "stdout" ELSE "add") /\ call'[t] = c
        /\ count'[t] = count[t] + 1 /\ count[t] \in Nat
    BY <1>a, <2>1, <2>2 DEF TypeOK
  <2>8. Running' /\ ReturnedIsLogged'
    <3>1. ASSUME NEW x \in Threads \ {t}
          PROVE  Current(x)' = Current(x) /\ Dropped(x)' = Dropped(x)
      BY <2>1, <2>6 DEF Current, Dropped
    <3>2. QED BY <1>a, <2>1, <2>6, <2>7, <3>1 DEF Running, ReturnedIsLogged
  <2>9. KeepsLast' /\ Good(kept)' /\ Good(stdout)' /\ Good(drawn)'
    <3>1. Begun \subseteq Begun' /\ \A c1 \in Begun : before'[c1] = before[c1]
      BY <1>a, <2>1, <2>3, <2>6, <2>7 DEF Begun, CallIds, TypeOK
    <3>2. QED BY <1>a, <2>1, <3>1 DEF KeepsLast, Good, Ordered, Known
  <2>10. QED BY <2>4, <2>5, <2>8, <2>9 DEF LInv
<1>2. ASSUME NEW t \in Threads, Stdout(t) PROVE LInv'
  <2>1. /\ UNCHANGED <<app, call, count, lines, dirty, drawing, drawn, kept, before>>
        /\ pc[t] = "stdout" /\ pc' = [pc EXCEPT ![t] = "add"]
        /\ stdout' = Append(stdout, Current(t))
        /\ alive' \in BOOLEAN
    BY <1>2 DEF Stdout, window
  <2>2. stdout' \in Seq(CallIds) /\ Good(stdout') /\ Current(t) \in CallIds
    BY <1>a, <2>1, AppendOrdered, CurrentIsNew DEF TypeOK
  <2>3. In(Current(t), stdout') /\ \A d : In(d, stdout) => In(d, stdout')
    BY <1>a, <2>1, <2>2, InAppend DEF TypeOK
  <2>4. TypeOK'
    BY <1>a, <2>1, <2>2 DEF TypeOK
  <2>5. Running' /\ ReturnedIsLogged'
    BY <1>a, <2>1, <2>3 DEF Running, ReturnedIsLogged, Current, Dropped, TypeOK
  <2>6. KeepsLast' /\ Good(kept)' /\ Good(stdout)' /\ Good(drawn)'
    BY <1>a, <2>1, <2>2 DEF KeepsLast, Good, Ordered, Known, Begun
  <2>7. QED BY <1>b, <2>1, <2>4, <2>5, <2>6 DEF LInv
<1>3. ASSUME NEW t \in Threads, Add(t) PROVE LInv'
  <2>1. /\ UNCHANGED <<app, alive, call, count, stdout, dirty, drawing, drawn, before>>
        /\ pc[t] = "add"
        /\ pc' = [pc EXCEPT ![t] = IF app = "gui" THEN "notify" ELSE "idle"]
    BY <1>3 DEF Add, AddAs, window
  <2>2. /\ KeepsLast' /\ kept' \in Seq(CallIds) /\ Good(kept)'
        /\ lines' \in Seq(CallIds) /\ Len(lines') <= Limit
        /\ Dropped(t) \/ In(Current(t), kept')
        /\ \A c : In(c, kept) => In(c, kept')
    BY <1>3, AddKeeps
  <2>3. TypeOK'
    BY <1>a, <2>1, <2>2 DEF TypeOK
  <2>4. Running' /\ ReturnedIsLogged'
    BY <1>a, <2>1, <2>2 DEF Running, ReturnedIsLogged, Current, Dropped, TypeOK
  <2>5. Good(stdout)' /\ Good(drawn)'
    BY <1>a, <2>1 DEF Good, Ordered, Known, Begun
  <2>6. QED BY <1>b, <2>1, <2>2, <2>3, <2>4, <2>5 DEF LInv
<1>4. ASSUME NEW t \in Threads, Notify(t) PROVE LInv'
  <2>1. /\ UNCHANGED <<app, alive, call, count, lines, stdout, drawing, drawn, kept, before>>
        /\ pc[t] = "notify" /\ pc' = [pc EXCEPT ![t] = "idle"] /\ dirty' = TRUE
    BY <1>4 DEF Notify
  <2>2. TypeOK'
    BY <1>a, <2>1 DEF TypeOK
  <2>3. Running' /\ ReturnedIsLogged'
    BY <1>a, <2>1 DEF Running, ReturnedIsLogged, Current, Dropped, TypeOK
  <2>4. KeepsLast' /\ Good(kept)' /\ Good(stdout)' /\ Good(drawn)'
    BY <1>a, <2>1 DEF KeepsLast, Good, Ordered, Known, Begun
  <2>5. QED BY <1>b, <2>1, <2>2, <2>3, <2>4 DEF LInv
<1>5. CASE Snapshot
  <2>1. /\ UNCHANGED <<app, alive, pc, call, count, lines, stdout, dirty, kept, before>>
        /\ drawn' = lines /\ drawing' = FALSE
    BY <1>5 DEF Snapshot, threads
  <2>2. Good(lines)
    BY <1>a, LastOfProperties DEF TypeOK, KeepsLast
  <2>3. TypeOK'
    BY <1>a, <2>1 DEF TypeOK
  <2>4. Running' /\ ReturnedIsLogged'
    BY <1>a, <2>1 DEF Running, ReturnedIsLogged, Current, Dropped
  <2>5. KeepsLast' /\ Good(kept)' /\ Good(stdout)' /\ Good(drawn)'
    BY <1>a, <2>1, <2>2 DEF KeepsLast, Good, Ordered, Known, Begun
  <2>6. QED BY <1>b, <2>1, <2>3, <2>4, <2>5 DEF LInv
<1>6. CASE FrameBegins \/ UNCHANGED vars
  <2>1. /\ UNCHANGED <<app, alive, pc, call, count, lines, stdout, drawn, kept, before>>
        /\ dirty' \in BOOLEAN /\ drawing' \in BOOLEAN
    BY <1>a, <1>6 DEF FrameBegins, vars, threads, window, TypeOK
  <2>2. TypeOK'
    BY <1>a, <2>1 DEF TypeOK
  <2>3. Running' /\ ReturnedIsLogged'
    BY <1>a, <2>1 DEF Running, ReturnedIsLogged, Current, Dropped
  <2>4. KeepsLast' /\ Good(kept)' /\ Good(stdout)' /\ Good(drawn)'
    BY <1>a, <2>1 DEF KeepsLast, Good, Ordered, Known, Begun
  <2>5. QED BY <1>b, <2>1, <2>2, <2>3, <2>4 DEF LInv
<1>7. QED
  BY <1>1, <1>2, <1>3, <1>4, <1>5, <1>6 DEF Next

LEMMA LInvAlways == Spec => []LInv
  BY LInvInit, LInvStep, PTL DEF Spec

(* Every reachable state is well typed, and the list within its limit, for *)
(* any threads, calls and limit.                                           *)
THEOREM LogsTypeCorrect == Spec => []TypeOK
  BY LInvAlways, PTL DEF LInv

(* The list is the last Limit lines of all that were added, whoever added  *)
(* them and in whatever interleaving.                                      *)
THEOREM ListKeepsLast == Spec => []KeepsLast
  BY LInvAlways, PTL DEF LInv

(* A call that returned has its line in the list or pushed out of it, and  *)
(* on stdout when it went through the tee.                                 *)
THEOREM NoLineLost == Spec => []ReturnedIsLogged
  BY LInvAlways, PTL DEF LInv

(* Lines of calls that did not overlap are never swapped, on the screen,   *)
(* in the list or on stdout.                                               *)
THEOREM OrderKept == Spec => []RealTimeOrder
<1>1. LInv => RealTimeOrder
  BY LastOfProperties DEF LInv, TypeOK, KeepsLast, Good, RealTimeOrder
<1>2. QED BY <1>1, LInvAlways, PTL
=============================================================================
