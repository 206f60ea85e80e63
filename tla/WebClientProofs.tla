-------------------------- MODULE WebClientProofs --------------------------
(***************************************************************************)
(* What the browser client guarantees for any number of promises and       *)
(* connections.  The argument: a connection is in one hand at a time       *)
(* (Hands), as the fields are taken and cleared in one critical section;   *)
(* and while connects and disconnects do not overlap, the page and the     *)
(* fields differ only in ways that the step of the one call tells          *)
(* (InStep).                                                               *)
(***************************************************************************)
EXTENDS WebClient, TLAPS

Hands ==
  /\ \A k \in Calls :
       /\ my[k] # None => pc[k] \in {"close", "build", "store"}
       /\ pc[k] \in {"build", "store"} => my[k] # None /\ conn[my[k]] = "open"
       /\ my[k] # None => conn[my[k]] # "unused" /\ my[k] # app
       /\ pc[k] = "do" => using[k] # None
  /\ app # None => conn[app] = "open"
  /\ \A k, m \in Calls : my[k] # None /\ my[k] = my[m] => k = m

Ops == \A k \in Calls :
  /\ pc[k] \in {"check", "dial", "build", "store"} => op[k] = "connect"
  /\ pc[k] = "take" => op[k] = "disconnect"
  /\ pc[k] \in {"look", "do"} => op[k] = "request"
  /\ pc[k] = "close" => op[k] # "request"

OneConnect ==
  ~crossed =>
    /\ \A k, m \in Pending("connect") : k = m
    /\ \A k \in Pending("connect") :
         pc[k] \in {"close", "dial", "build", "store"} => app = None

InStep ==
  ~overlapped =>
    /\ \A k, m \in Changing : k = m
    /\ Changing = {} => isConnected = (app # None)
    /\ \A k \in Pending("connect") :
         isConnected = FALSE /\ (pc[k] = "resolve" <=> app # None)
    /\ \A k \in Pending("disconnect") : pc[k] # "take" => app = None

OneRequest ==
  ~asked =>
    /\ \A k \in Pending("request") : k = newest
    /\ Pending("request") = {} => result = newest

IInv == TypeOK /\ Ops /\ Hands /\ NoConnLost /\ OneConnect /\ InStep /\ OneRequest

LEMMA IInvInit == Init => IInv
<1> SUFFICES ASSUME Init PROVE IInv
  OBVIOUS
<1> USE WebAssumption
<1>1. TypeOK /\ Ops /\ Hands /\ NoConnLost
  BY DEF Init, TypeOK, Ops, Hands, NoConnLost
<1>2. Pending("connect") = {} /\ Pending("disconnect") = {} /\ Pending("request") = {}
  BY DEF Init, Pending
<1>3. OneConnect /\ InStep /\ OneRequest
  BY <1>2 DEF Init, OneConnect, InStep, OneRequest, Changing
<1>4. QED BY <1>1, <1>3 DEF IInv

LEMMA TypeStep == TypeOK /\ Hands /\ [Next]_vars => TypeOK'
<1> SUFFICES ASSUME TypeOK, Hands, [Next]_vars PROVE TypeOK'
  OBVIOUS
<1>1. CASE UNCHANGED vars
  BY <1>1 DEF TypeOK, vars, callVars, reqVars, history
<1>2. CASE LoadWasm
  BY <1>2 DEF TypeOK, LoadWasm, callVars, reqVars, history
<1>3. ASSUME NEW k \in Calls, ClickConnect(k) PROVE TypeOK'
  BY <1>3 DEF TypeOK, ClickConnect, reqVars
<1>4. ASSUME NEW k \in Calls, ClickDisconnect(k) PROVE TypeOK'
  BY <1>4 DEF TypeOK, ClickDisconnect, reqVars
<1>5. ASSUME NEW k \in Calls, ClickRequest(k) PROVE TypeOK'
  BY <1>5 DEF TypeOK, ClickRequest
<1>6. ASSUME NEW k \in Calls, Steps(k) PROVE TypeOK'
  <2>1. CASE CheckFails(k) \/ Take(k) \/ Close(k)
    BY <2>1 DEF TypeOK, CheckFails, Take, Close, Goto, reqVars, history
  <2>2. CASE DialFails(k) \/ DialOk(k)
    BY <2>2 DEF TypeOK, DialFails, DialOk, Goto, reqVars, history
  <2>3. CASE BuildFails(k) \/ BuildOk(k) \/ Store(k)
    BY <2>3 DEF TypeOK, Hands, BuildFails, BuildOk, Store, Goto, reqVars, history
  <2>4. CASE Look(k) \/ Do(k)
    BY <2>4 DEF TypeOK, Look, Do, Goto, history
  <2>5. CASE Answer(k)
    <3>1. isConnected' \in BOOLEAN
      BY <2>5 DEF TypeOK, Answer
    <3>2. QED BY <2>5, <3>1 DEF TypeOK, Answer, Show, Goto, history
  <2>6. QED BY <1>6, <2>1, <2>2, <2>3, <2>4, <2>5 DEF Steps
<1>7. QED BY <1>1, <1>2, <1>3, <1>4, <1>5, <1>6 DEF Next

(* What a step of k leaves to the other calls.                             *)
Only(k) == \A m \in Calls \ {k} :
  pc'[m] = pc[m] /\ op'[m] = op[m] /\ my'[m] = my[m] /\ using'[m] = using[m]

LEMMA OnlyOne ==
  ASSUME TypeOK, NEW k \in Calls,
         ClickConnect(k) \/ ClickDisconnect(k) \/ ClickRequest(k) \/ Steps(k)
  PROVE  Only(k)
<1>1. CASE ClickConnect(k) \/ ClickDisconnect(k) \/ ClickRequest(k)
  BY <1>1 DEF TypeOK, ClickConnect, ClickDisconnect, ClickRequest, Only, reqVars
<1>2. CASE CheckFails(k) \/ Take(k) \/ Close(k) \/ DialFails(k) \/ DialOk(k)
  BY <1>2 DEF TypeOK, CheckFails, Take, Close, DialFails, DialOk, Goto, Only, reqVars
<1>3. CASE BuildFails(k) \/ BuildOk(k) \/ Store(k) \/ Look(k) \/ Do(k) \/ Answer(k)
  BY <1>3 DEF TypeOK, BuildFails, BuildOk, Store, Look, Do, Answer, Goto, Only, reqVars
<1>4. QED BY <1>1, <1>2, <1>3 DEF Steps

LEMMA OpsStep == TypeOK /\ Ops /\ [Next]_vars => Ops'
<1> SUFFICES ASSUME TypeOK, Ops, [Next]_vars PROVE Ops'
  OBVIOUS
<1>1. CASE UNCHANGED vars \/ LoadWasm
  BY <1>1 DEF Ops, vars, callVars, LoadWasm
<1>2. ASSUME NEW k \in Calls,
             ClickConnect(k) \/ ClickDisconnect(k) \/ ClickRequest(k) \/ Steps(k)
      PROVE  Ops'
  <2>1. Only(k)
    BY <1>2, OnlyOne
  <2>2. /\ pc'[k] \in {"check", "dial", "build", "store"} => op'[k] = "connect"
        /\ pc'[k] = "take" => op'[k] = "disconnect"
        /\ pc'[k] \in {"look", "do"} => op'[k] = "request"
        /\ pc'[k] = "close" => op'[k] # "request"
    <3>1. CASE ClickConnect(k) \/ ClickDisconnect(k) \/ ClickRequest(k)
      BY <3>1 DEF TypeOK, ClickConnect, ClickDisconnect, ClickRequest
    <3>2. CASE CheckFails(k) \/ Take(k) \/ Close(k) \/ DialFails(k) \/ DialOk(k)
      BY <3>2 DEF TypeOK, Ops, CheckFails, Take, Close, DialFails, DialOk, Goto
    <3>3. CASE BuildFails(k) \/ BuildOk(k) \/ Store(k) \/ Look(k) \/ Do(k) \/ Answer(k)
      BY <3>3 DEF TypeOK, Ops, BuildFails, BuildOk, Store, Look, Do, Answer, Goto
    <3>4. QED BY <1>2, <3>1, <3>2, <3>3 DEF Steps
  <2>3. QED BY <2>1, <2>2 DEF Ops, Only
<1>3. QED BY <1>1, <1>2 DEF Next

(* Connections change hands.                                               *)
LEMMA HandsStep == TypeOK /\ Ops /\ Hands /\ [Next]_vars => Hands'
<1> SUFFICES ASSUME TypeOK, Ops, Hands, [Next]_vars PROVE Hands'
  OBVIOUS
<1> USE WebAssumption
<1>1. CASE UNCHANGED vars \/ LoadWasm
  BY <1>1 DEF Hands, vars, callVars, reqVars, LoadWasm
<1>2. ASSUME NEW k \in Calls, ClickConnect(k) \/ ClickDisconnect(k) \/ ClickRequest(k)
      PROVE  Hands'
  BY <1>2 DEF TypeOK, Hands, ClickConnect, ClickDisconnect, ClickRequest, reqVars
<1>3. ASSUME NEW k \in Calls, CheckFails(k) PROVE Hands'
  BY <1>3 DEF TypeOK, Hands, CheckFails, Goto, reqVars
<1>4. ASSUME NEW k \in Calls, Take(k) PROVE Hands'
  BY <1>4 DEF TypeOK, Hands, Take, Goto, reqVars
<1>5. ASSUME NEW k \in Calls, Close(k) PROVE Hands'
  BY <1>5 DEF TypeOK, Hands, Close, Goto, reqVars
<1>6. ASSUME NEW k \in Calls, DialFails(k) \/ DialOk(k) PROVE Hands'
  BY <1>6 DEF TypeOK, Hands, DialFails, DialOk, Goto, reqVars
<1>7. ASSUME NEW k \in Calls, BuildFails(k) PROVE Hands'
  BY <1>7 DEF TypeOK, Hands, BuildFails, Goto, reqVars
<1>8. ASSUME NEW k \in Calls, BuildOk(k) PROVE Hands'
  BY <1>8 DEF TypeOK, Hands, BuildOk, Goto, reqVars
<1>9. ASSUME NEW k \in Calls, Store(k) PROVE Hands'
  BY <1>9 DEF TypeOK, Hands, Store, Goto, reqVars
<1>10. ASSUME NEW k \in Calls, Look(k) \/ Do(k) \/ Answer(k) PROVE Hands'
  <2>1. UNCHANGED <<app, my, conn>> /\ Only(k) /\ my[k] = None
    BY <1>10, OnlyOne DEF Hands, Look, Do, Answer, Steps
  <2>2. pc'[k] \notin {"build", "store"} /\ (pc'[k] = "do" => using'[k] # None)
    BY <1>10 DEF TypeOK, Look, Do, Answer, Goto
  <2>3. QED BY <2>1, <2>2 DEF Hands, Only
<1>11. QED BY <1>1, <1>2, <1>3, <1>4, <1>5, <1>6, <1>7, <1>8, <1>9, <1>10 DEF Next, Steps

(* Connects do not cross: the fields are empty when Store fills them.      *)
LEMMA OneConnectStep == TypeOK /\ Ops /\ OneConnect /\ [Next]_vars => OneConnect'
<1> SUFFICES ASSUME TypeOK, Ops, OneConnect, [Next]_vars, ~crossed' PROVE OneConnect'
  BY DEF OneConnect
<1>1. CASE UNCHANGED vars \/ LoadWasm
  BY <1>1 DEF OneConnect, Pending, vars, callVars, history, LoadWasm
<1>2. ASSUME NEW k \in Calls,
             ClickConnect(k) \/ ClickDisconnect(k) \/ ClickRequest(k) \/ Steps(k)
      PROVE  OneConnect'
  <2>1. Only(k)
    BY <1>2, OnlyOne
  <2>2. CASE ClickConnect(k)
    BY <2>1, <2>2 DEF TypeOK, OneConnect, Pending, ClickConnect, Only
  <2>3. CASE ClickDisconnect(k) \/ ClickRequest(k)
    BY <2>1, <2>3 DEF TypeOK, OneConnect, Pending, ClickDisconnect, ClickRequest, Only
  <2>4. CASE CheckFails(k) \/ Take(k) \/ Close(k) \/ DialFails(k) \/ DialOk(k)
    BY <2>1, <2>4 DEF TypeOK, OneConnect, Pending, CheckFails, Take, Close, DialFails, DialOk,
                      Goto, Only, history
  <2>5. CASE BuildFails(k) \/ BuildOk(k) \/ Store(k)
    BY <2>1, <2>5 DEF TypeOK, Ops, OneConnect, Pending, BuildFails, BuildOk, Store, Goto, Only,
                      history
  <2>6. CASE Look(k) \/ Do(k) \/ Answer(k)
    BY <2>1, <2>6 DEF TypeOK, Ops, OneConnect, Pending, Look, Do, Answer, Goto, Only, history
  <2>7. QED BY <1>2, <2>2, <2>3, <2>4, <2>5, <2>6 DEF Steps
<1>3. QED BY <1>1, <1>2 DEF Next

(* An open connection stays in reach.                                      *)
LEMMA NoConnLostStep ==
  TypeOK /\ Ops /\ Hands /\ OneConnect /\ NoConnLost /\ [Next]_vars => NoConnLost'
<1> SUFFICES ASSUME TypeOK, Ops, Hands, OneConnect, NoConnLost, [Next]_vars, ~crossed',
                    NEW c \in Conns, conn'[c] = "open"
             PROVE  app' = c \/ \E k \in Calls : my'[k] = c
  BY DEF NoConnLost
<1> USE WebAssumption
<1>1. CASE UNCHANGED vars \/ LoadWasm
  BY <1>1 DEF NoConnLost, vars, callVars, history, LoadWasm
<1>2. ASSUME NEW k \in Calls, ClickConnect(k) \/ ClickDisconnect(k) \/ ClickRequest(k)
      PROVE  app' = c \/ \E m \in Calls : my'[m] = c
  BY <1>2 DEF NoConnLost, ClickConnect, ClickDisconnect, ClickRequest
<1>3. ASSUME NEW k \in Calls, Steps(k)
      PROVE  app' = c \/ \E m \in Calls : my'[m] = c
  <2>1. Only(k) /\ ~crossed /\ my' \in [Calls -> Conns \cup {None}]
    BY <1>3, OnlyOne, TypeStep
       DEF Steps, CheckFails, Take, Close, DialFails, DialOk, BuildFails, BuildOk, Store, Look,
           Do, Answer, history, Next, TypeOK
  <2>2. CASE CheckFails(k) \/ DialFails(k) \/ BuildOk(k) \/ Look(k) \/ Do(k) \/ Answer(k)
    BY <2>1, <2>2 DEF NoConnLost, CheckFails, DialFails, BuildOk, Look, Do, Answer
  <2>3. CASE Take(k)
    BY <2>1, <2>3 DEF TypeOK, NoConnLost, Hands, Take, Only
  <2>4. CASE Close(k) \/ BuildFails(k)
    BY <2>1, <2>4 DEF TypeOK, NoConnLost, Hands, Close, BuildFails, Only
  <2>5. CASE DialOk(k)
    BY <2>1, <2>5 DEF TypeOK, NoConnLost, Hands, DialOk, Only
  <2>6. CASE Store(k)
    <3>1. app = None
      BY <2>1, <2>6 DEF Ops, OneConnect, Pending, Store
    <3>2. QED BY <2>1, <2>6, <3>1 DEF TypeOK, NoConnLost, Hands, Store, Only
  <2>7. QED BY <1>3, <2>2, <2>3, <2>4, <2>5, <2>6 DEF Steps
<1>4. QED BY <1>1, <1>2, <1>3 DEF Next

(* One connect or disconnect at a time keeps page and fields in step.      *)
LEMMA InStepStep == TypeOK /\ Ops /\ Hands /\ InStep /\ [Next]_vars => InStep'
<1> SUFFICES ASSUME TypeOK, Ops, Hands, InStep, [Next]_vars, ~overlapped' PROVE InStep'
  BY DEF InStep
<1> USE WebAssumption
<1>1. CASE UNCHANGED vars
  BY <1>1 DEF InStep, Changing, Pending, vars, callVars, history
<1>2. CASE LoadWasm
  BY <1>2 DEF InStep, Changing, Pending, callVars, history, LoadWasm
<1>3. ASSUME NEW k \in Calls,
             ClickConnect(k) \/ ClickDisconnect(k) \/ ClickRequest(k) \/ Steps(k)
      PROVE  InStep'
  <2>1. Only(k) /\ ~overlapped
    BY <1>3, OnlyOne
       DEF Steps, CheckFails, Take, Close, DialFails, DialOk, BuildFails, BuildOk, Store, Look,
           Do, Answer, history, ClickConnect, ClickDisconnect, ClickRequest, TypeOK
  <2>2. CASE ClickConnect(k)
    BY <2>1, <2>2 DEF TypeOK, InStep, Changing, Pending, ClickConnect, Only
  <2>3. CASE ClickDisconnect(k)
    <3>1. /\ Changing = {} /\ pc'[k] = "take" /\ op'[k] = "disconnect"
          /\ UNCHANGED <<app, isConnected>>
      BY <2>3 DEF TypeOK, ClickDisconnect
    <3>2. Pending("connect")' = {} /\ Pending("disconnect")' = {k}
      BY <2>1, <3>1 DEF Changing, Pending, Only
    <3>3. QED BY <3>1, <3>2 DEF InStep, Changing
  <2>4. CASE ClickRequest(k) \/ Look(k) \/ Do(k)
    BY <2>1, <2>4 DEF TypeOK, Ops, InStep, Changing, Pending, ClickRequest, Look, Do, Goto, Only
  <2>5. CASE CheckFails(k) \/ Take(k) \/ Close(k)
    BY <2>1, <2>5 DEF TypeOK, Ops, InStep, Changing, Pending, CheckFails, Take, Close, Goto, Only
  <2>6. CASE DialFails(k) \/ DialOk(k) \/ BuildFails(k) \/ BuildOk(k) \/ Store(k)
    BY <2>1, <2>6 DEF TypeOK, Ops, Hands, InStep, Changing, Pending, DialFails, DialOk,
                      BuildFails, BuildOk, Store, Goto, Only
  <2>7. CASE Answer(k)
    <3>1. /\ pc[k] \in {"resolve", "reject"} /\ pc'[k] = "idle"
          /\ UNCHANGED <<app, op, overlapped>>
      BY <2>7 DEF TypeOK, Answer, Goto, history
    <3>2. CASE op[k] = "connect"
      <4>1. k \in Changing /\ k \in Pending("connect") /\ Changing' = {}
        BY <2>1, <3>1, <3>2 DEF InStep, Changing, Pending, Only
      <4>2. isConnected = FALSE /\ (pc[k] = "resolve" <=> app # None)
        BY <2>1, <4>1 DEF InStep
      <4>3. isConnected' = (pc[k] = "resolve" \/ isConnected)
        BY <2>7, <3>2 DEF Answer
      <4>4. isConnected' = (app' # None)
        BY <3>1, <4>2, <4>3
      <4>5. QED BY <4>1, <4>4 DEF InStep, Changing
    <3>3. CASE op[k] = "disconnect"
      <4>1. k \in Changing /\ k \in Pending("disconnect") /\ Changing' = {}
        BY <2>1, <3>1, <3>3 DEF InStep, Changing, Pending, Only
      <4>2. app = None /\ isConnected' = FALSE
        BY <2>1, <2>7, <3>1, <3>3, <4>1 DEF InStep, Answer
      <4>3. QED BY <3>1, <4>1, <4>2 DEF InStep, Changing
    <3>4. CASE op[k] = "request"
      <4>1. /\ Pending("connect")' = Pending("connect")
            /\ Pending("disconnect")' = Pending("disconnect")
            /\ \A m \in Changing : pc'[m] = pc[m]
        BY <2>1, <3>1, <3>4 DEF Changing, Pending, Only
      <4>2. isConnected' = isConnected
        BY <2>7, <3>4 DEF Answer
      <4>3. QED BY <2>1, <3>1, <4>1, <4>2 DEF InStep, Changing
    <3>5. QED BY <3>2, <3>3, <3>4 DEF TypeOK
  <2>8. QED BY <1>3, <2>2, <2>3, <2>4, <2>5, <2>6, <2>7 DEF Steps
<1>4. QED BY <1>1, <1>2, <1>3 DEF Next

LEMMA OneRequestStep == TypeOK /\ Ops /\ OneRequest /\ [Next]_vars => OneRequest'
<1> SUFFICES ASSUME TypeOK, Ops, OneRequest, [Next]_vars, ~asked' PROVE OneRequest'
  BY DEF OneRequest
<1>1. CASE UNCHANGED vars \/ LoadWasm
  BY <1>1 DEF OneRequest, Pending, vars, callVars, reqVars, history, LoadWasm
<1>2. ASSUME NEW k \in Calls,
             ClickConnect(k) \/ ClickDisconnect(k) \/ ClickRequest(k) \/ Steps(k)
      PROVE  OneRequest'
  <2>1. Only(k)
    BY <1>2, OnlyOne
  <2>2. CASE ClickRequest(k)
    BY <2>1, <2>2 DEF TypeOK, OneRequest, Pending, ClickRequest, Only
  <2>3. CASE ClickConnect(k) \/ ClickDisconnect(k)
    BY <2>1, <2>3 DEF TypeOK, OneRequest, Pending, ClickConnect, ClickDisconnect, Only, reqVars
  <2>4. CASE CheckFails(k) \/ Take(k) \/ Close(k) \/ DialFails(k) \/ DialOk(k)
    BY <2>1, <2>4 DEF TypeOK, Ops, OneRequest, Pending, CheckFails, Take, Close, DialFails,
                      DialOk, Goto, Only, reqVars, history
  <2>5. CASE BuildFails(k) \/ BuildOk(k) \/ Store(k) \/ Look(k) \/ Do(k)
    BY <2>1, <2>5 DEF TypeOK, Ops, OneRequest, Pending, BuildFails, BuildOk, Store, Look, Do,
                      Goto, Only, reqVars, history
  <2>6. CASE Answer(k)
    BY <2>1, <2>6 DEF TypeOK, Ops, OneRequest, Pending, Answer, Show, Goto, Only, history
  <2>7. QED BY <1>2, <2>2, <2>3, <2>4, <2>5, <2>6 DEF Steps
<1>3. QED BY <1>1, <1>2 DEF Next

LEMMA Inductive == Spec => []IInv
<1>1. IInv /\ [Next]_vars => IInv'
  BY TypeStep, OpsStep, HandsStep, NoConnLostStep, OneConnectStep, InStepStep, OneRequestStep
     DEF IInv
<1>2. QED BY IInvInit, <1>1, PTL DEF Spec

(* The variables of page and app keep their types; isConnected is a truth  *)
(* value whatever the promises resolve with.                               *)
THEOREM WebTypeCorrect == Spec => []TypeOK
<1>1. IInv => TypeOK
  BY DEF IInv
<1>2. QED BY <1>1, Inductive, PTL

(* Of any number of disconnects, one releases a connection.                *)
THEOREM OneRelease == Spec => []ReleasedOnce
<1>1. IInv => ReleasedOnce
  BY DEF IInv, Hands, ReleasedOnce
<1>2. QED BY <1>1, Inductive, PTL

(* Only crossing connects lose a connection.                               *)
THEOREM NothingLost == Spec => []NoConnLost
<1>1. IInv => NoConnLost
  BY DEF IInv
<1>2. QED BY <1>1, Inductive, PTL

(* Between connects and disconnects that do not overlap, the page says     *)
(* what is.                                                                *)
THEOREM PageIsTrue == Spec => []PageTellsTruth
<1>1. IInv => PageTellsTruth
  BY DEF IInv, Hands, InStep, PageTellsTruth
<1>2. QED BY <1>1, Inductive, PTL

(* Requests that do not overlap show their own answers.                    *)
THEOREM NewestShown == Spec => []ResultIsNewest
<1>1. IInv => ResultIsNewest
  BY DEF IInv, OneRequest, ResultIsNewest
<1>2. QED BY <1>1, Inductive, PTL
=============================================================================
