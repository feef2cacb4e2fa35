--------------------------- MODULE TradingProofs ---------------------------
(***************************************************************************)
(* Proofs about Connector and LiveOrders, for any callers, orders and      *)
(* numbers of attempts, and about EnginePositions, for any orders,         *)
(* quantities and capacity of the event bus.                               *)
(***************************************************************************)
EXTENDS LiveOrders, EnginePositions, FiniteSetTheorems, SequenceTheorems, TLAPS

-----------------------------------------------------------------------------
(* The connection                                                          *)

LEMMA ConnNumbers == MaxReconnect \in Nat /\ MaxReconnect >= 1
BY ConnectorAssumption

LEMMA ConnInitIInv == ConnInit => ConnIInv
<1> SUFFICES ASSUME ConnInit PROVE ConnIInv
  OBVIOUS
<1>1. \A c \in Callers : call[c] = Idle
  BY DEF ConnInit
<1>2. CallTypeOK
  <2>1. call \in [Callers -> [op : Operations, at : Awaits]]
    BY DEF ConnInit, Idle, Operations, Awaits
  <2>2. \A c \in Callers : PlaceOK(c)
    BY <1>1 DEF PlaceOK, Idle
  <2>3. keeper \in Keepers /\ gaveUp \in BOOLEAN /\ overlapped \in BOOLEAN
    BY DEF ConnInit, Keepers
  <2> QED BY <2>1, <2>2, <2>3 DEF ConnInit, CallTypeOK, ConnStates
<1>3. \A c \in Callers : CallInv(c)
  BY <1>1 DEF CallInv, Idle
<1>4. IdleInv
  BY ConnNumbers DEF ConnInit, IdleInv
<1> QED BY <1>1, <1>2, <1>3, <1>4 DEF ConnIInv, CalmInv

(* What a step of one call leaves of the calls.                            *)
LEMMA CallUpdate ==
    ASSUME ConnIInv, NEW c \in Callers, NEW r \in [op : Operations, at : Awaits],
           call' = [call EXCEPT ![c] = r]
    PROVE  /\ call' \in [Callers -> [op : Operations, at : Awaits]]
           /\ call'[c] = r
           /\ \A d \in Callers : d # c => call'[d] = call[d]
BY DEF ConnIInv, CallTypeOK

(* A calm connector has one call at most; another one changes nothing      *)
(* about that.                                                             *)
LEMMA Alone ==
    ASSUME ConnIInv, NEW c \in Callers, NEW r \in [op : Operations, at : Awaits],
           call' = [call EXCEPT ![c] = r], ~overlapped',
           \/ call[c] # Idle /\ overlapped' = overlapped
           \/ overlapped' = (overlapped \/ \E d \in Callers : call[d] # Idle)
    PROVE  /\ ~overlapped
           /\ \A d \in Callers : d # c => call[d] = Idle /\ call'[d] = Idle
           /\ call'[c] = r
           /\ \A d, e \in Callers : call'[d] # Idle /\ call'[e] # Idle => d = e
           /\ Quiet' <=> r = Idle
<1>1. ~overlapped
  OBVIOUS
<1>2. \A d \in Callers : d # c => call[d] = Idle
  BY <1>1 DEF ConnIInv, CalmInv
<1>3. call'[c] = r /\ \A d \in Callers : d # c => call'[d] = Idle
  BY <1>2, CallUpdate
<1> QED BY <1>1, <1>2, <1>3 DEF Quiet

(* So a step keeps the invariant if it does so for the call it is a step   *)
(* of, and for the connector.                                              *)
LEMMA StepIInv ==
    ASSUME ConnIInv, NEW c \in Callers, NEW r \in [op : Operations, at : Awaits],
           call' = [call EXCEPT ![c] = r],
           \/ call[c] # Idle /\ overlapped' = overlapped
           \/ overlapped' = (overlapped \/ \E d \in Callers : call[d] # Idle),
           attempts' \in Nat, leaked' \in Nat, pingsFailed' \in Nat,
           connState' \in ConnStates, session' \in {"none", "open", "closed"},
           keeper' \in Keepers, gaveUp' \in BOOLEAN,
           PlaceOK(c)', ~overlapped' => CallInv(c)' /\ IdleInv'
    PROVE  ConnIInv'
<1>1. CallTypeOK'
  <2>1. \A d \in Callers : PlaceOK(d)'
    <3>1. \A d \in Callers : d # c => PlaceOK(d)'
      BY CallUpdate DEF ConnIInv, CallTypeOK, PlaceOK
    <3> QED BY <3>1
  <2>2. overlapped' \in BOOLEAN
    BY DEF ConnIInv, CallTypeOK
  <2> QED BY <2>1, <2>2, CallUpdate DEF CallTypeOK
<1>2. ASSUME ~overlapped'
      PROVE  /\ \A d, e \in Callers : call'[d] # Idle /\ call'[e] # Idle => d = e
             /\ \A d \in Callers : CallInv(d)'
             /\ IdleInv'
  <2>1. /\ \A d \in Callers : d # c => call'[d] = Idle
        /\ \A d, e \in Callers : call'[d] # Idle /\ call'[e] # Idle => d = e
    BY <1>2, Alone
  <2>2. \A d \in Callers : d # c => CallInv(d)'
    BY <2>1 DEF CallInv, Idle
  <2> QED BY <1>2, <2>1, <2>2
<1> QED BY <1>1, <1>2 DEF ConnIInv, CalmInv

(* The places calls are suspended at, as records.                          *)
LEMMA Places ==
    /\ Idle \in [op : Operations, at : Awaits] /\ Idle.op = "none" /\ Idle.at = "none"
    /\ \A o \in Operations, a \in Awaits :
           /\ [op |-> o, at |-> a] \in [op : Operations, at : Awaits]
           /\ [op |-> o, at |-> a] = Idle => o = "none"
BY DEF Idle, Operations, Awaits

(* What the invariant says of a call that goes on.                         *)
LEMMA Resumed ==
    ASSUME ConnIInv, NEW c \in Callers, NEW o, NEW a, Resumes(c, o, a), o # "none"
    PROVE  /\ call[c] # Idle /\ call[c].op = o /\ call[c].at = a
           /\ ~overlapped => CallInv(c) /\ IdleInv /\ ~Quiet
<1>1. call[c] = [op |-> o, at |-> a]
  BY DEF Resumes
<1>2. call[c] # Idle /\ call[c].op = o /\ call[c].at = a
  BY <1>1 DEF Idle
<1> QED BY <1>2 DEF ConnIInv, CalmInv, Quiet

(* And of one that begins.                                                 *)
LEMMA Called ==
    ASSUME ConnIInv, NEW c \in Callers, Calling(c)
    PROVE  /\ overlapped' = (overlapped \/ \E d \in Callers : call[d] # Idle)
           /\ ~overlapped' => ~overlapped /\ Quiet /\ IdleInv
BY DEF Calling, Quiet, ConnIInv, CalmInv

(* CloseSession: the session, then a new one or the end.                   *)
LEMMA CloseCases ==
    ASSUME NEW c, NEW o \in {"disconnect", "reconnect"}, CloseSession(c, o)
    PROVE  \/ /\ session = "open" /\ session' = "closed"
              /\ call' = [call EXCEPT ![c] = [op |-> o, at |-> "close"]] /\ leaked' = leaked
           \/ /\ session # "open" /\ session' = "open" /\ o = "reconnect"
              /\ call' = [call EXCEPT ![c] = [op |-> o, at |-> "ping"]] /\ leaked' = leaked
           \/ /\ session # "open" /\ o = "disconnect"
              /\ call' = [call EXCEPT ![c] = Idle]
              /\ UNCHANGED <<session, leaked>>
<1>1. CASE session = "open"
  BY <1>1 DEF CloseSession, Suspend
<1>2. CASE session # "open" /\ o = "reconnect"
  BY <1>2 DEF CloseSession, Suspend, OpenSession
<1>3. CASE session # "open" /\ o = "disconnect"
  BY <1>3 DEF CloseSession, Return
<1> QED BY <1>1, <1>2, <1>3

(* connect.                                                                *)
LEMMA ConnectIInv ==
    ASSUME ConnIInv, NEW c \in Callers, Connect(c) \/ Connected(c) \/ ConnectFails(c)
    PROVE  ConnIInv'
<1> USE DEF ConnIInv
<1>1. CASE Connect(c)
  <2> DEFINE r == [op |-> "connect", at |-> "ping"]
  <2>1. /\ call' = [call EXCEPT ![c] = r] /\ r \in [op : Operations, at : Awaits]
        /\ connState # "CONNECTED" /\ connState' = "CONNECTING" /\ session' = "open"
        /\ leaked' = IF session = "open" THEN leaked + 1 ELSE leaked
        /\ UNCHANGED <<attempts, keeper, pingsFailed, gaveUp>>
        /\ overlapped' = (overlapped \/ \E d \in Callers : call[d] # Idle)
    BY <1>1, Called DEF Connect, OpenSession, Suspend, Operations, Awaits
  <2>2. call'[c] = r /\ leaked' \in Nat
    BY <2>1, CallUpdate DEF CallTypeOK
  <2>3. PlaceOK(c)'
    BY <2>2 DEF PlaceOK
  <2>4. ASSUME ~overlapped' PROVE CallInv(c)' /\ IdleInv'
    <3>1. Quiet /\ IdleInv /\ ~Quiet'
      BY <1>1, <2>1, <2>4, Called, Alone DEF Connect, Idle
    <3>2. leaked' <= pingsFailed'
      BY <2>1, <3>1 DEF IdleInv, CallTypeOK, ConnStates
    <3> QED BY <2>1, <2>2, <3>1, <3>2 DEF CallInv, IdleInv
  <2> QED BY <2>1, <2>2, <2>3, <2>4, StepIInv DEF CallTypeOK, ConnStates
<1>2. CASE Connected(c)
  <2>1. PICK o \in {"connect", "reconnect"} : Resumes(c, o, "ping")
    BY <1>2 DEF Connected
  <2>2. /\ call' = [call EXCEPT ![c] = Idle]
        /\ connState' = "CONNECTED" /\ attempts' = 0 /\ gaveUp' = FALSE
        /\ UNCHANGED <<session, keeper, leaked, pingsFailed, overlapped>>
    BY <1>2 DEF Connected, Return
  <2>3. /\ call[c] # Idle /\ call[c].at = "ping"
        /\ ~overlapped => CallInv(c) /\ IdleInv
    BY <2>1, Resumed
  <2>4. call'[c] = Idle /\ PlaceOK(c)'
    BY <2>2, CallUpdate, Places DEF PlaceOK
  <2>5. ASSUME ~overlapped' PROVE CallInv(c)' /\ IdleInv'
    BY <2>2, <2>3, <2>4, <2>5, Places, ConnNumbers DEF CallInv, IdleInv
  <2> QED BY <2>2, <2>3, <2>4, <2>5, StepIInv, Places DEF CallTypeOK, ConnStates
<1>3. CASE ConnectFails(c)
  <2>1. Resumes(c, "connect", "ping")
    BY <1>3 DEF ConnectFails
  <2>2. /\ call' = [call EXCEPT ![c] = Idle]
        /\ connState' = "DISCONNECTED" /\ pingsFailed' = pingsFailed + 1
        /\ UNCHANGED <<attempts, session, keeper, leaked, gaveUp, overlapped>>
    BY <1>3 DEF ConnectFails, Return
  <2>3. call[c] # Idle /\ call[c].at = "ping" /\ (~overlapped => CallInv(c) /\ IdleInv)
    BY <2>1, Resumed
  <2>4. call'[c] = Idle /\ PlaceOK(c)'
    BY <2>2, CallUpdate, Places DEF PlaceOK
  <2>5. ASSUME ~overlapped' PROVE CallInv(c)' /\ IdleInv'
    BY <2>2, <2>3, <2>4, <2>5, Places DEF CallInv, IdleInv, CallTypeOK
  <2>6. pingsFailed' \in Nat /\ connState' \in ConnStates
    BY <2>2 DEF CallTypeOK, ConnStates
  <2>7. UNCHANGED <<attempts, session, keeper, leaked, gaveUp>>
    BY <2>2
  <2>8. /\ attempts' \in Nat /\ leaked' \in Nat /\ session' \in {"none", "open", "closed"}
        /\ keeper' \in Keepers /\ gaveUp' \in BOOLEAN
    BY <2>7, ZenonT(30) DEF CallTypeOK
  <2>9. call[c] # Idle /\ overlapped' = overlapped
    BY <2>2, <2>3
  <2> QED BY <2>2, <2>4, <2>5, <2>6, <2>8, <2>9, StepIInv, Places
<1> QED BY <1>1, <1>2, <1>3

(* A step that stops the keepalive task, or closes the session without     *)
(* one, keeps it when the state is the one of its operation and the        *)
(* counter is within its bound.                                            *)
LEMMA ShutIInv ==
    ASSUME ConnIInv, NEW c \in Callers, NEW o \in {"disconnect", "reconnect"},
           \/ /\ keeper' = "ending" /\ UNCHANGED <<session, leaked>>
              /\ \E a \in {"cancel", "stop"} :
                    /\ o = "reconnect" => a = "stop"
                    /\ call' = [call EXCEPT ![c] = [op |-> o, at |-> a]]
           \/ keeper' \in Keepers /\ (~overlapped' => keeper' = "none") /\ CloseSession(c, o),
           \/ call[c] # Idle /\ overlapped' = overlapped
           \/ overlapped' = (overlapped \/ \E d \in Callers : call[d] # Idle),
           attempts' \in Nat, pingsFailed' = pingsFailed,
           connState' \in ConnStates, gaveUp' = gaveUp,
           ~overlapped' => /\ o = "disconnect" => connState' = "CLOSED"
                           /\ o = "reconnect" => connState' = "RECONNECTING"
                           /\ leaked <= pingsFailed
                           /\ attempts' <= MaxReconnect
                           /\ gaveUp => attempts' = MaxReconnect
    PROVE  ConnIInv'
<1>1. /\ leaked \in Nat /\ pingsFailed \in Nat /\ session \in {"none", "open", "closed"}
  BY DEF ConnIInv, CallTypeOK
<1>2. gaveUp \in BOOLEAN
  BY DEF ConnIInv, CallTypeOK
<1>3. /\ o \in Operations
      /\ "cancel" \in Awaits /\ "stop" \in Awaits /\ "close" \in Awaits /\ "ping" \in Awaits
  BY DEF Operations, Awaits
<1>4. PICK r \in [op : Operations, at : Awaits] :
        /\ call' = [call EXCEPT ![c] = r]
        /\ leaked' = leaked /\ session' \in {"none", "open", "closed"} /\ keeper' \in Keepers
        /\ \/ /\ r = [op |-> o, at |-> "cancel"] /\ keeper' = "ending" /\ o = "disconnect"
           \/ /\ r = [op |-> o, at |-> "stop"] /\ keeper' = "ending"
           \/ /\ ~overlapped' => keeper' = "none"
              /\ \/ r = [op |-> o, at |-> "close"] /\ session' = "closed"
                 \/ r = [op |-> o, at |-> "ping"] /\ session' = "open" /\ o = "reconnect"
                 \/ r = Idle /\ session' # "open" /\ o = "disconnect"
  <2>1. ASSUME NEW a \in {"cancel", "stop"}, o = "reconnect" => a = "stop",
               call' = [call EXCEPT ![c] = [op |-> o, at |-> a]],
               keeper' = "ending", UNCHANGED <<session, leaked>>
        PROVE  \E r \in [op : Operations, at : Awaits] :
                 /\ call' = [call EXCEPT ![c] = r]
                 /\ leaked' = leaked /\ session' \in {"none", "open", "closed"}
                 /\ keeper' \in Keepers
                 /\ \/ /\ r = [op |-> o, at |-> "cancel"] /\ keeper' = "ending"
                       /\ o = "disconnect"
                    \/ /\ r = [op |-> o, at |-> "stop"] /\ keeper' = "ending"
    BY <1>1, <1>3, <2>1, Places DEF Keepers
  <2>2. ASSUME keeper' \in Keepers, ~overlapped' => keeper' = "none", CloseSession(c, o)
        PROVE  \E r \in [op : Operations, at : Awaits] :
                 /\ call' = [call EXCEPT ![c] = r]
                 /\ leaked' = leaked /\ session' \in {"none", "open", "closed"}
                 /\ \/ r = [op |-> o, at |-> "close"] /\ session' = "closed"
                    \/ r = [op |-> o, at |-> "ping"] /\ session' = "open" /\ o = "reconnect"
                    \/ r = Idle /\ session' # "open" /\ o = "disconnect"
    <3>1. CASE call' = [call EXCEPT ![c] = [op |-> o, at |-> "close"]]
               /\ session' = "closed" /\ leaked' = leaked
      BY <1>1, <1>3, <3>1, Places
    <3>2. CASE call' = [call EXCEPT ![c] = [op |-> o, at |-> "ping"]]
               /\ session' = "open" /\ o = "reconnect" /\ leaked' = leaked
      BY <1>1, <1>3, <3>2, Places
    <3>3. CASE call' = [call EXCEPT ![c] = Idle]
               /\ session # "open" /\ o = "disconnect" /\ UNCHANGED <<session, leaked>>
      BY <1>1, <1>3, <3>3, Places
    <3> QED BY <2>2, <3>1, <3>2, <3>3, CloseCases
  <2> QED BY <2>1, <2>2
<1>5. call'[c] = r
  BY <1>4, CallUpdate
<1>6. r = Idle => o = "disconnect" /\ (~overlapped' => keeper' = "none") /\ session' # "open"
  BY <1>3, <1>4, Places
<1>7. PlaceOK(c)'
  BY <1>4, <1>5, Places DEF PlaceOK
<1>8. ASSUME ~overlapped' PROVE CallInv(c)' /\ IdleInv'
  <2>1. Quiet' => r = Idle
    BY <1>4, <1>8, Alone
  <2>2. CallInv(c)'
    BY <1>4, <1>5, <1>8, Places DEF CallInv
  <2>3. keeper' = "ending" => ~Quiet'
    BY <1>6, <1>8, <2>1
  <2>4. IdleInv'
    BY <1>4, <1>6, <1>8, <2>1, <2>3 DEF IdleInv
  <2> QED BY <2>2, <2>4
<1>9. leaked' \in Nat /\ pingsFailed' \in Nat /\ gaveUp' \in BOOLEAN
  BY <1>1, <1>2, <1>4
<1> QED BY <1>4, <1>7, <1>8, <1>9, StepIInv

\* what Shut is to that lemma
LEMMA ShutCases ==
    ASSUME NEW c, NEW o, Shut(c, o)
    PROVE  \/ /\ keeper' = "ending" /\ UNCHANGED <<session, leaked>>
              /\ call' = [call EXCEPT ![c] = [op |-> o, at |-> "stop"]]
           \/ keeper' = "none" /\ CloseSession(c, o)
BY DEF Shut, StopKeeper, Suspend

(* disconnect, the steps of a reconnection, watch_user_data.               *)
LEMMA DisconnectIInv ==
    ASSUME ConnIInv, NEW c \in Callers, Disconnect(c) \/ KeeperEnded(c) \/ Wake(c)
    PROVE  ConnIInv'
<1>1. attempts \in Nat /\ pingsFailed \in Nat /\ connState \in ConnStates /\ keeper \in Keepers
  BY DEF ConnIInv, CallTypeOK
<1>2. CASE Disconnect(c)
  <2>1. /\ Calling(c) /\ connState' = "CLOSED"
        /\ attempts' = attempts /\ pingsFailed' = pingsFailed /\ gaveUp' = gaveUp
    BY <1>2 DEF Disconnect
  <2>2. /\ overlapped' = (overlapped \/ \E d \in Callers : call[d] # Idle)
        /\ ~overlapped' => IdleInv
    BY <2>1, Called
  <2>3. ~overlapped' => /\ leaked <= pingsFailed
                        /\ attempts' <= MaxReconnect
                        /\ gaveUp => attempts' = MaxReconnect
    BY <2>1, <2>2 DEF IdleInv
  <2>4. connState' \in ConnStates
    BY <2>1 DEF ConnStates
  <2>5. \/ /\ keeper' = "ending" /\ UNCHANGED <<session, leaked>>
           /\ \E a \in {"cancel", "stop"} :
                 call' = [call EXCEPT ![c] = [op |-> "disconnect", at |-> a]]
        \/ keeper' = "none" /\ CloseSession(c, "disconnect")
    BY <1>2, ShutCases DEF Disconnect, StopKeeper, Suspend
  <2>6. "none" \in Keepers
    BY DEF Keepers
  <2> QED BY <1>1, <2>1, <2>2, <2>3, <2>4, <2>5, <2>6, ShutIInv
<1>3. CASE KeeperEnded(c)
  <2>1. PICK o \in {"disconnect", "reconnect"}, a \in {"cancel", "stop"} :
          /\ Resumes(c, o, a)
          /\ \/ /\ o = "disconnect" /\ keeper = "alive" /\ keeper' = "ending"
                /\ UNCHANGED <<session, leaked>>
                /\ call' = [call EXCEPT ![c] = [op |-> o, at |-> "stop"]]
             \/ /\ keeper' = IF keeper = "ending" THEN "none" ELSE keeper
                /\ CloseSession(c, o)
    <3>1. CASE /\ Resumes(c, "disconnect", "cancel")
               /\ keeper = "alive"
               /\ StopKeeper(c, "disconnect", "stop")
      BY <3>1 DEF StopKeeper, Suspend
    <3>2. CASE /\ Resumes(c, "disconnect", "cancel")
               /\ keeper # "alive" /\ keeper' = "none"
               /\ CloseSession(c, "disconnect")
      BY <1>1, <3>2 DEF Keepers
    <3>3. CASE \E o \in {"disconnect", "reconnect"} :
                 /\ Resumes(c, o, "stop")
                 /\ keeper' = IF keeper = "ending" THEN "none" ELSE keeper
                 /\ CloseSession(c, o)
      BY <3>3
    <3> QED BY <1>3, <3>1, <3>2, <3>3 DEF KeeperEnded
  <2>2. UNCHANGED <<connState, attempts, pingsFailed, gaveUp, overlapped>>
    BY <1>3 DEF KeeperEnded
  <2>3. /\ call[c] # Idle /\ call[c].op = o /\ call[c].at = a
        /\ ~overlapped => CallInv(c) /\ IdleInv
    BY <2>1, Resumed
  <2>4. ~overlapped' => /\ o = "disconnect" => connState' = "CLOSED"
                        /\ o = "reconnect" => connState' = "RECONNECTING"
                        /\ leaked <= pingsFailed
                        /\ attempts' <= MaxReconnect
                        /\ gaveUp => attempts' = MaxReconnect
    BY <2>2, <2>3 DEF IdleInv, CallInv
  <2>5. ~overlapped' => keeper = "ending"
    BY <2>1, <2>2, <2>3 DEF CallInv
  <2>6. overlapped' = overlapped
    BY <2>2
  <2>7. \/ /\ keeper' = "ending" /\ UNCHANGED <<session, leaked>>
           /\ \E b \in {"cancel", "stop"} :
                 /\ o = "reconnect" => b = "stop"
                 /\ call' = [call EXCEPT ![c] = [op |-> o, at |-> b]]
        \/ keeper' \in Keepers /\ (~overlapped' => keeper' = "none") /\ CloseSession(c, o)
    <3>1. "none" \in Keepers
      BY DEF Keepers
    <3> QED BY <1>1, <2>1, <2>5, <3>1
  <2>8. attempts' \in Nat /\ pingsFailed' = pingsFailed /\ connState' \in ConnStates
        /\ gaveUp' = gaveUp
    BY <1>1, <2>2
  <2> QED BY <2>3, <2>4, <2>6, <2>7, <2>8, ShutIInv
<1>4. CASE Wake(c)
  <2>1. /\ Resumes(c, "reconnect", "sleep") /\ Shut(c, "reconnect")
        /\ attempts' = attempts + 1
        /\ UNCHANGED <<connState, pingsFailed, gaveUp, overlapped>>
    BY <1>4 DEF Wake
  <2>2. /\ call[c] # Idle /\ call[c].op = "reconnect" /\ call[c].at = "sleep"
        /\ ~overlapped => CallInv(c) /\ IdleInv
    BY <2>1, Resumed
  <2>3. ~overlapped' => /\ connState' = "RECONNECTING"
                        /\ leaked <= pingsFailed
                        /\ attempts' <= MaxReconnect
                        /\ gaveUp => attempts' = MaxReconnect
    BY <1>1, <2>1, <2>2, ConnNumbers DEF IdleInv, CallInv
  <2>4. overlapped' = overlapped
    BY <2>1
  <2>5. \/ /\ keeper' = "ending" /\ UNCHANGED <<session, leaked>>
           /\ call' = [call EXCEPT ![c] = [op |-> "reconnect", at |-> "stop"]]
        \/ keeper' = "none" /\ CloseSession(c, "reconnect")
    BY <2>1, ShutCases
  <2>6. "none" \in Keepers
    BY DEF Keepers
  <2> QED BY <1>1, <2>1, <2>2, <2>3, <2>4, <2>5, <2>6, ShutIInv
<1> QED BY <1>2, <1>3, <1>4

LEMMA SessionIInv ==
    ASSUME ConnIInv, NEW c \in Callers, SessionClosed(c)
    PROVE  ConnIInv'
<1>1. PICK o \in {"disconnect", "reconnect"}, r \in [op : Operations, at : Awaits] :
        /\ Resumes(c, o, "close")
        /\ call' = [call EXCEPT ![c] = r]
        /\ \/ o = "disconnect" /\ r = Idle /\ session' = "none"
           \/ o = "reconnect" /\ r = [op |-> "reconnect", at |-> "ping"] /\ session' = "open"
  <2>1. CASE /\ Resumes(c, "disconnect", "close")
             /\ session' = "none" /\ Return(c)
    BY <2>1, Places DEF Return
  <2>2. CASE /\ Resumes(c, "reconnect", "close")
             /\ session' = "open" /\ Suspend(c, "reconnect", "ping")
    <3>1. [op |-> "reconnect", at |-> "ping"] \in [op : Operations, at : Awaits]
      BY DEF Operations, Awaits
    <3> QED BY <2>2, <3>1 DEF Suspend
  <2> QED BY <2>1, <2>2 DEF SessionClosed
<1>2. /\ leaked' = IF session = "open" THEN leaked + 1 ELSE leaked
      /\ UNCHANGED <<connState, attempts, keeper, pingsFailed, gaveUp, overlapped>>
  BY DEF SessionClosed
<1>3. /\ call[c] # Idle /\ call[c].op = o /\ call[c].at = "close"
      /\ ~overlapped => CallInv(c) /\ IdleInv
  BY <1>1, Resumed
<1>4. call'[c] = r
  BY <1>1, CallUpdate
<1>5. PlaceOK(c)'
  BY <1>1, <1>4, Places DEF PlaceOK
<1>6. ASSUME ~overlapped' PROVE CallInv(c)' /\ IdleInv'
  <2>1. /\ keeper = "none" /\ leaked' = leaked
        /\ o = "disconnect" => connState = "CLOSED"
        /\ o = "reconnect" => connState = "RECONNECTING"
    BY <1>2, <1>3, <1>6 DEF CallInv
  <2>2. Quiet' => r = Idle
    BY <1>1, <1>2, <1>3, <1>6, Alone
  <2>3. CallInv(c)'
    BY <1>1, <1>2, <1>4, <2>1, Places DEF CallInv
  <2>4. r = Idle => o = "disconnect" /\ session' # "open"
    BY <1>1, Places
  <2>5. IdleInv'
    BY <1>2, <1>3, <1>6, <2>1, <2>2, <2>4, <1>1 DEF IdleInv
  <2> QED BY <2>3, <2>5
<1>7. attempts' \in Nat /\ leaked' \in Nat /\ pingsFailed' \in Nat /\ connState' \in ConnStates
  BY <1>2 DEF ConnIInv, CallTypeOK
<1>8. keeper' \in Keepers /\ gaveUp' \in BOOLEAN
  <2>1. keeper' = keeper /\ gaveUp' = gaveUp
    BY <1>2
  <2> QED BY <2>1 DEF ConnIInv, CallTypeOK
<1>9. session' \in {"none", "open", "closed"} /\ overlapped' = overlapped
  BY <1>1, <1>2
<1> QED BY <1>1, <1>3, <1>5, <1>6, <1>7, <1>8, <1>9, StepIInv

(* The head of the loop: it sleeps before another attempt or gives up.     *)
LEMMA TryCases ==
    ASSUME ConnIInv, NEW c \in Callers,
           \/ Reconnect(c)
           \/ AttemptFails(c)
    PROVE  \E r \in [op : Operations, at : Awaits] :
               /\ call' = [call EXCEPT ![c] = r]
               /\ UNCHANGED <<attempts, session, keeper, leaked>>
               /\ \/ /\ attempts < MaxReconnect /\ r = [op |-> "reconnect", at |-> "sleep"]
                     /\ gaveUp' = gaveUp
                     /\ connState' = "RECONNECTING" \/ (AttemptFails(c) /\ connState' = connState)
                  \/ /\ ~(attempts < MaxReconnect) /\ r = Idle
                     /\ gaveUp' = TRUE /\ connState' = "DISCONNECTED"
<1>1. [op |-> "reconnect", at |-> "sleep"] \in [op : Operations, at : Awaits]
  BY DEF Operations, Awaits
<1>2. CASE attempts < MaxReconnect
  <2>1. CASE Reconnect(c)
    BY <1>1, <1>2, <2>1 DEF Reconnect, TryAgain, Suspend
  <2>2. CASE AttemptFails(c)
    <3>1. /\ call' = [call EXCEPT ![c] = [op |-> "reconnect", at |-> "sleep"]]
          /\ UNCHANGED <<attempts, session, keeper, leaked>>
          /\ gaveUp' = gaveUp /\ connState' = connState
      BY <1>2, <2>2 DEF AttemptFails, Suspend
    <3> QED BY <1>1, <1>2, <2>2, <3>1
  <2> QED BY <2>1, <2>2
<1>3. CASE ~(attempts < MaxReconnect)
  <2>1. CASE Reconnect(c)
    BY <1>3, <2>1, Places DEF Reconnect, TryAgain, GiveUp, Return
  <2>2. CASE AttemptFails(c)
    BY <1>3, <2>2, Places DEF AttemptFails, GiveUp, Return
  <2> QED BY <2>1, <2>2
<1> QED BY <1>2, <1>3

LEMMA ReconnectIInv ==
    ASSUME ConnIInv, NEW c \in Callers, Reconnect(c) \/ AttemptFails(c)
    PROVE  ConnIInv'
<1>1. /\ attempts \in Nat /\ leaked \in Nat /\ pingsFailed \in Nat
      /\ connState \in ConnStates /\ session \in {"none", "open", "closed"}
  BY DEF ConnIInv, CallTypeOK
<1>2. keeper \in Keepers /\ gaveUp \in BOOLEAN
  BY DEF ConnIInv, CallTypeOK
<1>3. PICK r \in [op : Operations, at : Awaits] :
        /\ call' = [call EXCEPT ![c] = r]
        /\ UNCHANGED <<attempts, session, keeper, leaked>>
        /\ \/ /\ attempts < MaxReconnect /\ r = [op |-> "reconnect", at |-> "sleep"]
              /\ gaveUp' = gaveUp
              /\ connState' = "RECONNECTING" \/ (AttemptFails(c) /\ connState' = connState)
           \/ /\ ~(attempts < MaxReconnect) /\ r = Idle
              /\ gaveUp' = TRUE /\ connState' = "DISCONNECTED"
  BY TryCases
<1>4. call'[c] = r
  BY <1>3, CallUpdate
<1>5. PlaceOK(c)'
  BY <1>3, <1>4, Places DEF PlaceOK
<1>6. /\ pingsFailed' \in Nat /\ pingsFailed' >= pingsFailed
      /\ AttemptFails(c) => pingsFailed' = pingsFailed + 1
  BY <1>1 DEF Reconnect, AttemptFails
<1>7. \/ call[c] # Idle /\ overlapped' = overlapped
      \/ overlapped' = (overlapped \/ \E d \in Callers : call[d] # Idle)
  <2>1. CASE Reconnect(c)
    BY <2>1 DEF Reconnect, Calling
  <2>2. CASE AttemptFails(c)
    <3>1. Resumes(c, "reconnect", "ping") /\ overlapped' = overlapped
      BY <2>2 DEF AttemptFails
    <3> QED BY <3>1, Resumed
  <2> QED BY <2>1, <2>2
<1>8. ASSUME ~overlapped' PROVE CallInv(c)' /\ IdleInv'
  <2>1. /\ leaked <= pingsFailed /\ attempts <= MaxReconnect
        /\ gaveUp => attempts = MaxReconnect
        /\ AttemptFails(c) => connState = "RECONNECTING"
        /\ (attempts > 0 /\ session = "open") => leaked < pingsFailed'
        /\ keeper # "ending"
    <3>1. CASE Reconnect(c)
      <4>1. IdleInv /\ Quiet
        BY <1>8, <3>1, Called DEF Reconnect
      <4>2. connState # "RECONNECTING" /\ connState # "CONNECTING"
        BY <4>1 DEF IdleInv
      <4>3. (attempts > 0 /\ session = "open") => leaked < pingsFailed
        BY <1>1, <4>1, <4>2 DEF IdleInv, ConnStates
      <4>4. AttemptFails(c) => connState = "RECONNECTING"
        BY <4>1 DEF AttemptFails, Resumes, Quiet, Idle
      <4> QED BY <1>1, <1>6, <4>1, <4>3, <4>4 DEF IdleInv
    <3>2. CASE AttemptFails(c)
      <4>1. Resumes(c, "reconnect", "ping") /\ ~overlapped
        BY <1>8, <3>2 DEF AttemptFails
      <4>2. CallInv(c) /\ IdleInv /\ call[c].op = "reconnect" /\ call[c].at = "ping"
        BY <4>1, Resumed
      <4> QED BY <1>1, <1>6, <3>2, <4>2 DEF IdleInv, CallInv
    <3> QED BY <3>1, <3>2
  <2>2. Quiet' => r = Idle
    BY <1>3, <1>7, <1>8, Alone
  <2>3. CASE attempts < MaxReconnect /\ r = [op |-> "reconnect", at |-> "sleep"]
    <3>1. connState' = "RECONNECTING" /\ gaveUp' = gaveUp /\ r # Idle
      BY <1>1, <1>3, <2>1, <2>3, Places, ConnNumbers
    <3>2. CallInv(c)'
      BY <1>3, <1>4, <2>1, <2>3, <3>1 DEF CallInv
    <3>3. IdleInv'
      BY <1>1, <1>3, <1>6, <2>1, <2>2, <3>1 DEF IdleInv
    <3> QED BY <3>2, <3>3
  <2>4. CASE ~(attempts < MaxReconnect) /\ r = Idle
    <3>1. connState' = "DISCONNECTED" /\ attempts = MaxReconnect
      BY <1>1, <1>3, <2>1, <2>4, Places, ConnNumbers
    <3>2. CallInv(c)'
      BY <1>4, <2>4, Places DEF CallInv
    <3>3. IdleInv'
      BY <1>1, <1>3, <1>6, <2>1, <3>1, ConnNumbers DEF IdleInv
    <3> QED BY <3>2, <3>3
  <2> QED BY <1>3, <2>3, <2>4
<1>9. /\ attempts' \in Nat /\ leaked' \in Nat /\ session' \in {"none", "open", "closed"}
      /\ connState' \in ConnStates
  BY <1>1, <1>3 DEF ConnStates
<1>10. keeper' \in Keepers /\ gaveUp' \in BOOLEAN
  <2>1. keeper' = keeper /\ (gaveUp' = gaveUp \/ gaveUp' = TRUE)
    BY <1>3, Zenon
  <2> QED BY <1>2, <2>1
<1> QED BY <1>3, <1>5, <1>6, <1>7, <1>8, <1>9, <1>10, StepIInv

LEMMA WatchIInv ==
    ASSUME ConnIInv, NEW c \in Callers, Watch(c) \/ Watched(c)
    PROVE  ConnIInv'
<1>1. /\ attempts \in Nat /\ leaked \in Nat /\ pingsFailed \in Nat
      /\ connState \in ConnStates /\ session \in {"none", "open", "closed"}
  BY DEF ConnIInv, CallTypeOK
<1>2. keeper \in Keepers /\ gaveUp \in BOOLEAN
  BY DEF ConnIInv, CallTypeOK
<1>3. UNCHANGED <<connState, attempts, session, leaked, pingsFailed, gaveUp>>
  BY DEF Watch, Watched
<1>4. attempts' \in Nat /\ leaked' \in Nat /\ pingsFailed' \in Nat
      /\ connState' \in ConnStates /\ session' \in {"none", "open", "closed"}
  BY <1>1, <1>3
<1>5. gaveUp' \in BOOLEAN
  BY <1>2, <1>3
<1>6. CASE Watch(c)
  <2> DEFINE r == [op |-> "watch", at |-> "listen"]
  <2>1. r \in [op : Operations, at : Awaits]
    BY DEF Operations, Awaits
  <2>2. call' = [call EXCEPT ![c] = r] /\ session = "open" /\ Calling(c)
    BY <1>6 DEF Watch, Suspend
  <2>3. keeper' = keeper
    BY <1>6 DEF Watch
  <2>4. call'[c] = r
    BY <2>1, <2>2, CallUpdate
  <2>5. PlaceOK(c)'
    BY <2>4 DEF PlaceOK
  <2>6. /\ overlapped' = (overlapped \/ \E d \in Callers : call[d] # Idle)
        /\ ~overlapped' => Quiet /\ IdleInv
    BY <2>2, Called
  <2>7. ASSUME ~overlapped' PROVE CallInv(c)' /\ IdleInv'
    <3>1. connState \in {"DISCONNECTED", "CONNECTED"}
      BY <1>1, <2>2, <2>6, <2>7 DEF IdleInv, ConnStates
    <3>4. keeper' # "ending"
      BY <2>3, <2>6, <2>7 DEF IdleInv
    <3>2. CallInv(c)'
      BY <1>3, <2>2, <2>4, <3>4, <3>1 DEF CallInv
    <3>3. IdleInv'
      BY <1>3, <2>6, <2>7, <3>4, <3>1 DEF IdleInv
    <3> QED BY <3>2, <3>3
  <2>8. keeper' \in Keepers
    BY <1>2, <2>3
  <2> HIDE DEF r
  <2> QED BY <1>4, <1>5, <2>1, <2>2, <2>5, <2>6, <2>7, <2>8, StepIInv
<1>7. CASE Watched(c)
  <2>1. /\ Resumes(c, "watch", "listen") /\ call' = [call EXCEPT ![c] = Idle]
        /\ overlapped' = overlapped
    BY <1>7 DEF Watched, Return
  <2>2. keeper' \in Keepers
    <3>1. keeper' \in {keeper, "alive"}
      BY <1>7 DEF Watched
    <3> QED BY <1>2, <3>1 DEF Keepers
  <2>3. /\ call[c] # Idle /\ call[c].op = "watch" /\ call[c].at = "listen"
        /\ ~overlapped => CallInv(c) /\ IdleInv
    BY <2>1, Resumed
  <2>4. call'[c] = Idle /\ PlaceOK(c)'
    BY <2>1, CallUpdate, Places DEF PlaceOK
  <2>5. ASSUME ~overlapped' PROVE CallInv(c)' /\ IdleInv'
    <3>1. keeper' # "ending"
      BY <1>7, <2>1, <2>3, <2>5 DEF CallInv, Watched
    <3> QED BY <1>3, <2>1, <2>3, <2>4, <2>5, <3>1, Places DEF CallInv, IdleInv
  <2> QED BY <1>4, <1>5, <2>1, <2>2, <2>3, <2>4, <2>5, StepIInv, Places
<1> QED BY <1>6, <1>7

LEMMA ConnNextIInv ==
    ASSUME ConnIInv, [ConnNext]_connVars
    PROVE  ConnIInv'
<1>1. CASE ConnNext
  <2>1. PICK c \in Callers : \/ Connect(c) \/ Disconnect(c) \/ Reconnect(c) \/ Watch(c)
                             \/ Proceeds(c)
    BY <1>1 DEF ConnNext
  <2> QED BY <2>1, ConnectIInv, DisconnectIInv, SessionIInv, ReconnectIInv, WatchIInv
         DEF Proceeds
<1>2. CASE UNCHANGED connVars
  BY <1>2 DEF connVars, ConnIInv, CallTypeOK, CalmInv, PlaceOK, CallInv, IdleInv, Quiet
<1> QED BY <1>1, <1>2

(* A connector whose calls do not overlap is what it says it is.           *)
THEOREM ConnectionIsCalm == ConnSpec => []CalmConnection
<1>1. ConnIInv => CalmConnection
  BY DEF ConnIInv, CalmInv, IdleInv, CalmConnection
<1> QED BY <1>1, ConnInitIInv, ConnNextIInv, PTL DEF ConnSpec

-----------------------------------------------------------------------------
(* The orders                                                              *)

Requests == [op : {"none", "submit", "cancel", "fetch"},
             by : {"none", "local", "exchange"},
             try : 0..MaxTries,
             at : {"none", "wire", "backoff"}]

\* the number of orders a request r may have placed
Risked(r) == CASE r.at = "wire" -> r.try - 1
               [] r.at = "backoff" -> r.try
               [] OTHER -> 0

\* the invariant of one order, in terms of its values
OrderOK(s, r, l, p, u, e, k) ==
    /\ r.op = "none" => r = NoRequest
    /\ r.op # "none" => r.at # "none" /\ r.try > 0
    /\ r.at = "backoff" => r.try < MaxTries
    /\ r.op = "submit" => l = "PENDING" /\ r.by = "none"
    /\ r.op \in {"cancel", "fetch"} => l \in Taken
    /\ r.by = "exchange" => k
    /\ l = "PENDING" => p <= Risked(r)
    /\ p = u + (IF l \in Taken THEN 1 ELSE 0)
    /\ p <= IF s \in linked THEN 1 ELSE MaxTries
    /\ e > 0 => k

LEMMA LiveNumbers == MaxTries \in Nat /\ MaxTries >= 1 /\ MaxLookups \in Nat
BY LiveAssumption

LEMMA NoRequestOK == NoRequest \in Requests
BY LiveNumbers DEF NoRequest, Requests

(* The invariant is that of every order.                                   *)
LEMMA ByOrder ==
    LiveIInv <=> /\ LiveTypeOK
                 /\ "local" \notin confirmed
                 /\ \A s \in LiveSubs : OrderOK(s, request[s], local[s], placed[s],
                                                unanswered[s], ended[s], known[s])
<1>1. ASSUME NEW s \in LiveSubs
      PROVE  OrderOK(s, request[s], local[s], placed[s], unanswered[s], ended[s], known[s])
             <=> /\ RequestInv(s)
                 /\ placed[s] = unanswered[s] + (IF local[s] \in Taken THEN 1 ELSE 0)
                 /\ placed[s] <= IF s \in linked THEN 1 ELSE MaxTries
                 /\ ended[s] > 0 => known[s]
  BY DEF OrderOK, RequestInv, Risked, MayHavePlaced
<1> QED BY <1>1 DEF LiveIInv, LiveOrdersAccounted

(* A step on s keeps the invariant if it keeps that of s.                  *)
LEMMA OrderIInv ==
    ASSUME LiveIInv, NEW s \in LiveSubs,
           NEW r \in Requests, NEW l \in LocalStates, NEW p \in Nat, NEW u \in Nat,
           NEW e \in Nat, NEW k \in BOOLEAN,
           request' = [request EXCEPT ![s] = r], local' = [local EXCEPT ![s] = l],
           placed' = [placed EXCEPT ![s] = p], unanswered' = [unanswered EXCEPT ![s] = u],
           ended' = [ended EXCEPT ![s] = e], known' = [known EXCEPT ![s] = k],
           linked' = linked, lookups' \in 0..MaxLookups,
           confirmed' \in SUBSET {"local", "exchange"}, "local" \notin confirmed',
           OrderOK(s, r, l, p, u, e, k)
    PROVE  LiveIInv'
<1>1. LiveTypeOK
  BY DEF LiveIInv
<1>2. LiveTypeOK'
  <2>1. known' \in [LiveSubs -> BOOLEAN]
    BY <1>1 DEF LiveTypeOK
  <2>2. request' \in [LiveSubs -> Requests]
    BY <1>1 DEF LiveTypeOK, Requests
  <2>3. linked' \in SUBSET LiveSubs /\ local' \in [LiveSubs -> LocalStates]
    BY <1>1 DEF LiveTypeOK
  <2>4. /\ placed' \in [LiveSubs -> Nat] /\ ended' \in [LiveSubs -> Nat]
        /\ unanswered' \in [LiveSubs -> Nat]
    BY <1>1 DEF LiveTypeOK
  <2> QED BY <2>1, <2>2, <2>3, <2>4 DEF LiveTypeOK, Requests
<1>3. ASSUME NEW t \in LiveSubs
      PROVE  OrderOK(t, request[t], local[t], placed[t], unanswered[t], ended[t], known[t])'
  <2>1. CASE t = s
    <3>1. /\ request'[s] = r /\ local'[s] = l /\ placed'[s] = p
          /\ unanswered'[s] = u /\ ended'[s] = e
      BY <1>1 DEF LiveTypeOK
    <3>2. known'[s] = k
      BY <1>1 DEF LiveTypeOK
    <3> QED BY <2>1, <3>1, <3>2 DEF OrderOK
  <2>2. CASE t # s
    <3>1. /\ request'[t] = request[t] /\ local'[t] = local[t] /\ placed'[t] = placed[t]
          /\ unanswered'[t] = unanswered[t] /\ ended'[t] = ended[t]
      BY <1>1, <2>2 DEF LiveTypeOK
    <3>2. known'[t] = known[t]
      BY <1>1, <2>2 DEF LiveTypeOK
    <3>3. OrderOK(t, request[t], local[t], placed[t], unanswered[t], ended[t], known[t])
      BY ByOrder
    <3> QED BY <3>1, <3>2, <3>3 DEF OrderOK
  <2> QED BY <2>1, <2>2
<1>4. ASSUME NEW t \in LiveSubs
      PROVE  /\ RequestInv(t)'
             /\ (placed[t] = unanswered[t] + (IF local[t] \in Taken THEN 1 ELSE 0))'
             /\ (placed[t] <= IF t \in linked THEN 1 ELSE MaxTries)'
             /\ (ended[t] > 0 => known[t])'
  BY <1>3 DEF OrderOK, RequestInv, Risked, MayHavePlaced
<1> QED BY <1>2, <1>4 DEF LiveIInv, LiveOrdersAccounted

(* What the invariant says of one order; a part a step leaves alone is     *)
(* written back as it was.                                                 *)
LEMMA OrderFacts ==
    ASSUME LiveIInv, NEW s \in LiveSubs
    PROVE  /\ request[s] \in Requests /\ local[s] \in LocalStates
           /\ placed[s] \in Nat /\ unanswered[s] \in Nat /\ ended[s] \in Nat
           /\ known[s] \in BOOLEAN
           /\ OrderOK(s, request[s], local[s], placed[s], unanswered[s], ended[s], known[s])
           /\ local = [local EXCEPT ![s] = local[s]]
           /\ request = [request EXCEPT ![s] = request[s]]
           /\ placed = [placed EXCEPT ![s] = placed[s]]
           /\ unanswered = [unanswered EXCEPT ![s] = unanswered[s]]
           /\ ended = [ended EXCEPT ![s] = ended[s]]
           /\ known = [known EXCEPT ![s] = known[s]]
<1>1. LiveTypeOK
  BY DEF LiveIInv
<1>2. /\ request[s] \in Requests /\ local[s] \in LocalStates
      /\ placed[s] \in Nat /\ unanswered[s] \in Nat /\ ended[s] \in Nat
  BY <1>1 DEF LiveTypeOK, Requests
<1>3. known[s] \in BOOLEAN
  BY <1>1 DEF LiveTypeOK
<1>4. /\ local = [local EXCEPT ![s] = local[s]]
      /\ request = [request EXCEPT ![s] = request[s]]
      /\ placed = [placed EXCEPT ![s] = placed[s]]
      /\ unanswered = [unanswered EXCEPT ![s] = unanswered[s]]
      /\ ended = [ended EXCEPT ![s] = ended[s]]
  BY <1>1 DEF LiveTypeOK
<1>5. known = [known EXCEPT ![s] = known[s]]
  BY <1>1 DEF LiveTypeOK
<1> QED BY <1>2, <1>3, <1>4, <1>5, ByOrder

LEMMA RaiseCases ==
    ASSUME LiveIInv, NEW s \in LiveSubs, NEW q, Raise(s, q)
    PROVE  \E l \in LocalStates :
               /\ request' = [request EXCEPT ![s] = NoRequest]
               /\ local' = [local EXCEPT ![s] = l]
               /\ l = IF q.op = "submit" THEN "REJECTED" ELSE local[s]
BY OrderFacts DEF Raise, LocalStates

LEMMA SendCases ==
    ASSUME LiveIInv, NEW s \in LiveSubs, NEW q \in Requests, q.try < MaxTries, Send(s, q)
    PROVE  \E r \in Requests, l \in LocalStates :
               /\ request' = [request EXCEPT ![s] = r]
               /\ local' = [local EXCEPT ![s] = l]
               /\ \/ /\ r.op = q.op /\ r.by = q.by /\ r.try = q.try + 1 /\ r.at = "wire"
                     /\ l = local[s]
                  \/ /\ r = NoRequest
                     /\ l = IF q.op = "submit" THEN "REJECTED" ELSE local[s]
<1>1. CASE session = "open"
  <2> DEFINE r == [q EXCEPT !.try = @ + 1, !.at = "wire"]
  <2>1. r \in Requests /\ r.op = q.op /\ r.by = q.by /\ r.try = q.try + 1 /\ r.at = "wire"
    <3>1. q.try + 1 \in 0..MaxTries
      BY LiveNumbers DEF Requests
    <3>2. [q EXCEPT !.try = q.try + 1] \in Requests
      BY <3>1 DEF Requests
    <3>3. r = [[q EXCEPT !.try = q.try + 1] EXCEPT !.at = "wire"]
      OBVIOUS
    <3> QED BY <3>2, <3>3 DEF Requests
  <2>2. request' = [request EXCEPT ![s] = r] /\ local' = [local EXCEPT ![s] = local[s]]
    BY <1>1, OrderFacts DEF Send
  <2> HIDE DEF r
  <2> QED BY <2>1, <2>2, OrderFacts
<1>2. CASE session # "open"
  <2>1. Raise(s, q)
    BY <1>2 DEF Send
  <2> QED BY <2>1, RaiseCases, NoRequestOK
<1> QED BY <1>1, <1>2

LEMMA RetryCases ==
    ASSUME LiveIInv, NEW s \in LiveSubs, RetryOrRaise(s)
    PROVE  \E r \in Requests, l \in LocalStates :
               /\ request' = [request EXCEPT ![s] = r]
               /\ local' = [local EXCEPT ![s] = l]
               /\ \/ /\ request[s].try < MaxTries
                     /\ r.op = request[s].op /\ r.by = request[s].by
                     /\ r.try = request[s].try /\ r.at = "backoff"
                     /\ l = local[s]
                  \/ /\ r = NoRequest
                     /\ l = IF request[s].op = "submit" THEN "REJECTED" ELSE local[s]
<1>1. CASE request[s].try < MaxTries
  <2> DEFINE r == [request[s] EXCEPT !.at = "backoff"]
  <2>1. /\ r \in Requests /\ r.op = request[s].op /\ r.by = request[s].by
        /\ r.try = request[s].try /\ r.at = "backoff"
    BY OrderFacts DEF Requests
  <2>2. request' = [request EXCEPT ![s] = r] /\ local' = [local EXCEPT ![s] = local[s]]
    BY <1>1, OrderFacts DEF RetryOrRaise
  <2> HIDE DEF r
  <2> QED BY <1>1, <2>1, <2>2, OrderFacts
<1>2. CASE ~(request[s].try < MaxTries)
  <2>1. Raise(s, request[s])
    BY <1>2 DEF RetryOrRaise
  <2> QED BY <2>1, RaiseCases, NoRequestOK
<1> QED BY <1>1, <1>2

(* A submission whose answer is an error or lost has placed the order or   *)
(* not.                                                                    *)
LEMMA LostCases ==
    ASSUME LiveIInv, NEW s \in LiveSubs,
           \/ UNCHANGED <<placed, unanswered>>
           \/ /\ Acceptable(s)
              /\ Place(s)
              /\ unanswered' = [unanswered EXCEPT ![s] = @ + 1]
    PROVE  \E n \in {0, 1} :
               /\ placed' = [placed EXCEPT ![s] = placed[s] + n]
               /\ unanswered' = [unanswered EXCEPT ![s] = unanswered[s] + n]
               /\ n = 1 => Acceptable(s)
<1>1. CASE UNCHANGED <<placed, unanswered>>
  <2>1. placed[s] + 0 = placed[s] /\ unanswered[s] + 0 = unanswered[s]
    BY OrderFacts
  <2> QED BY <1>1, <2>1, OrderFacts
<1>2. CASE /\ Acceptable(s)
           /\ Place(s)
           /\ unanswered' = [unanswered EXCEPT ![s] = @ + 1]
  BY <1>2 DEF Place
<1> QED BY <1>1, <1>2

LEMMA SubmitIInv ==
    ASSUME LiveIInv, NEW s \in LiveSubs, SubmitLive(s) \/ Resend(s)
    PROVE  LiveIInv'
<1>1. OrderOK(s, request[s], local[s], placed[s], unanswered[s], ended[s], known[s])
  BY OrderFacts
<1>2. /\ UNCHANGED <<linked, known, lookups, placed, ended, unanswered, confirmed>>
      /\ lookups' \in 0..MaxLookups
      /\ confirmed' \in SUBSET {"local", "exchange"} /\ "local" \notin confirmed'
  BY DEF SubmitLive, Resend, LiveIInv, LiveTypeOK, LiveOrdersAccounted
<1>3. PICK q \in Requests :
        /\ Send(s, q) /\ q.try < MaxTries
        /\ \/ q = request[s] /\ q.at = "backoff"
           \/ q.op = "submit" /\ q.by = "none" /\ q.try = 0 /\ local[s] = "PENDING"
              /\ request[s] = NoRequest
  <2>1. CASE Resend(s)
    BY <1>1, <2>1, OrderFacts DEF Resend, OrderOK
  <2>2. CASE SubmitLive(s)
    <3>1. [op |-> "submit", by |-> "none", try |-> 0, at |-> "none"] \in Requests
      BY LiveNumbers DEF Requests
    <3> QED BY <2>2, <3>1, LiveNumbers DEF SubmitLive
  <2> QED BY <2>1, <2>2
<1>4. PICK r \in Requests, l \in LocalStates :
        /\ request' = [request EXCEPT ![s] = r]
        /\ local' = [local EXCEPT ![s] = l]
        /\ \/ /\ r.op = q.op /\ r.by = q.by /\ r.try = q.try + 1 /\ r.at = "wire"
              /\ l = local[s]
           \/ /\ r = NoRequest
              /\ l = IF q.op = "submit" THEN "REJECTED" ELSE local[s]
  BY <1>3, SendCases
<1>5. OrderOK(s, r, l, placed[s], unanswered[s], ended[s], known[s])
  <2>1. q.op \in {"submit", "cancel", "fetch"}
    BY <1>1, <1>3 DEF OrderOK, Requests, NoRequest
  <2>2. q.op = "submit" => local[s] = "PENDING" /\ q.by = "none"
    BY <1>1, <1>3 DEF OrderOK
  <2>3. q.op # "submit" => local[s] \in Taken
    BY <1>1, <1>3, <2>1 DEF OrderOK
  <2>4. q.by = "exchange" => known[s]
    BY <1>1, <1>3 DEF OrderOK
  <2>5. local[s] = "PENDING" => placed[s] <= q.try
    BY <1>1, <1>3 DEF OrderOK, Risked, NoRequest
  <2>6. q.try \in Nat /\ placed[s] \in Nat
    BY OrderFacts DEF Requests
  <2>7. CASE /\ r.op = q.op /\ r.by = q.by /\ r.try = q.try + 1 /\ r.at = "wire"
             /\ l = local[s]
    <3>1. local[s] = "PENDING" => placed[s] <= Risked(r)
      BY <2>5, <2>6, <2>7 DEF Risked
    <3> QED BY <1>1, <2>1, <2>2, <2>3, <2>4, <2>6, <2>7, <3>1 DEF OrderOK
  <2>8. CASE /\ r = NoRequest
             /\ l = IF q.op = "submit" THEN "REJECTED" ELSE local[s]
    <3>1. r.op = "none" /\ r.at = "none" /\ r.by = "none"
      BY <2>8 DEF NoRequest
    <3>2. l # "PENDING" /\ (l \in Taken <=> local[s] \in Taken)
      BY <2>2, <2>3, <2>8 DEF Taken
    <3> QED BY <1>1, <2>8, <3>1, <3>2 DEF OrderOK
  <2> QED BY <1>4, <2>7, <2>8
<1>6. /\ placed' = [placed EXCEPT ![s] = placed[s]]
      /\ unanswered' = [unanswered EXCEPT ![s] = unanswered[s]]
      /\ ended' = [ended EXCEPT ![s] = ended[s]]
  BY <1>2, OrderFacts
<1>7. known' = [known EXCEPT ![s] = known[s]]
  BY <1>2, OrderFacts
<1>8. /\ placed[s] \in Nat /\ unanswered[s] \in Nat /\ ended[s] \in Nat
      /\ known[s] \in BOOLEAN /\ linked' = linked
  BY <1>2, OrderFacts
<1>9. /\ request' = [request EXCEPT ![s] = r] /\ local' = [local EXCEPT ![s] = l]
  BY <1>4
<1>10. /\ lookups' \in 0..MaxLookups
       /\ confirmed' \in SUBSET {"local", "exchange"} /\ "local" \notin confirmed'
  BY <1>2
<1> QED BY <1>5, <1>6, <1>7, <1>8, <1>9, <1>10, OrderIInv, ZenonT(60)

(* The submission is answered: the order is placed once more, and known.   *)
LEMMA AcceptedIInv ==
    ASSUME LiveIInv, NEW s \in LiveSubs, Accepted(s)
    PROVE  LiveIInv'
<1>1. OrderOK(s, request[s], local[s], placed[s], unanswered[s], ended[s], known[s])
  BY OrderFacts
<1>2. /\ lookups' \in 0..MaxLookups /\ linked' = linked
      /\ confirmed' \in SUBSET {"local", "exchange"} /\ "local" \notin confirmed'
  BY DEF Accepted, LiveIInv, LiveTypeOK, LiveOrdersAccounted
<1>3. PICK l \in Taken : local' = [local EXCEPT ![s] = l]
  <2>1. PICK l \in IF s \in linked THEN {"SUBMITTED"} ELSE Taken :
          local' = [local EXCEPT ![s] = l]
    BY DEF Accepted
  <2> QED BY <2>1 DEF Taken
<1>4. /\ request' = [request EXCEPT ![s] = NoRequest]
      /\ placed' = [placed EXCEPT ![s] = placed[s] + 1]
      /\ Acceptable(s) /\ request[s].at = "wire" /\ request[s].op = "submit"
  BY DEF Accepted, Place, OnWire
<1>5. unanswered' = [unanswered EXCEPT ![s] = unanswered[s]]
      /\ ended' = [ended EXCEPT ![s] = ended[s]]
  BY OrderFacts DEF Accepted
<1>6. known' = [known EXCEPT ![s] = TRUE]
  BY DEF Accepted
<1>7. /\ placed[s] \in Nat /\ unanswered[s] \in Nat /\ ended[s] \in Nat
      /\ request[s].try \in 0..MaxTries /\ placed[s] + 1 \in Nat /\ l \in LocalStates
  BY OrderFacts DEF Requests, Taken, LocalStates
<1>8. OrderOK(s, NoRequest, l, placed[s] + 1, unanswered[s], ended[s], TRUE)
  <2>1. local[s] = "PENDING" /\ placed[s] <= request[s].try - 1
    BY <1>1, <1>4 DEF OrderOK, Risked
  <2>2. placed[s] = unanswered[s]
    BY <1>1, <1>7, <2>1 DEF OrderOK, Taken
  <2>3. placed[s] + 1 <= IF s \in linked THEN 1 ELSE MaxTries
    BY <1>4, <1>7, <2>1, LiveNumbers DEF Acceptable
  <2> QED BY <1>7, <2>2, <2>3 DEF OrderOK, NoRequest, Taken
<1> QED BY <1>2, <1>3, <1>4, <1>5, <1>6, <1>7, <1>8, NoRequestOK, OrderIInv, ZenonT(60)

(* Or it is not: it is tried again or raises, with the order placed or     *)
(* not.                                                                    *)
LEMMA LostIInv ==
    ASSUME LiveIInv, NEW s \in LiveSubs, SubmitFails(s) \/ SubmitBreaks(s)
    PROVE  LiveIInv'
<1>1. OrderOK(s, request[s], local[s], placed[s], unanswered[s], ended[s], known[s])
  BY OrderFacts
<1>2. /\ lookups' \in 0..MaxLookups /\ linked' = linked
      /\ confirmed' \in SUBSET {"local", "exchange"} /\ "local" \notin confirmed'
  BY DEF SubmitFails, SubmitBreaks, LiveIInv, LiveTypeOK, LiveOrdersAccounted
<1>3. request[s].at = "wire" /\ request[s].op = "submit"
  BY DEF SubmitFails, SubmitBreaks, OnWire
<1>4. PICK n \in {0, 1} : /\ placed' = [placed EXCEPT ![s] = placed[s] + n]
                          /\ unanswered' = [unanswered EXCEPT ![s] = unanswered[s] + n]
                          /\ n = 1 => Acceptable(s)
  BY LostCases DEF SubmitFails, SubmitBreaks
<1>5. PICK r \in Requests, l \in LocalStates :
        /\ request' = [request EXCEPT ![s] = r]
        /\ local' = [local EXCEPT ![s] = l]
        /\ \/ /\ request[s].try < MaxTries
              /\ r.op = request[s].op /\ r.by = request[s].by
              /\ r.try = request[s].try /\ r.at = "backoff"
              /\ l = local[s]
           \/ /\ r = NoRequest
              /\ l = IF request[s].op = "submit" THEN "REJECTED" ELSE local[s]
  <2>1. CASE SubmitFails(s)
    <3>1. RetryOrRaise(s)
      BY <2>1 DEF SubmitFails
    <3> QED BY <3>1, RetryCases
  <2>2. CASE SubmitBreaks(s)
    <3>1. Raise(s, request[s])
      BY <2>2 DEF SubmitBreaks
    <3> QED BY <3>1, RaiseCases, NoRequestOK
  <2> QED BY <2>1, <2>2
<1>6. ended' = [ended EXCEPT ![s] = ended[s]]
  BY OrderFacts DEF SubmitFails, SubmitBreaks
<1>7. known' = [known EXCEPT ![s] = known[s]]
  BY OrderFacts DEF SubmitFails, SubmitBreaks
<1>8. /\ placed[s] \in Nat /\ unanswered[s] \in Nat /\ ended[s] \in Nat
      /\ request[s].try \in 0..MaxTries
      /\ placed[s] + n \in Nat /\ unanswered[s] + n \in Nat
  BY OrderFacts DEF Requests
<1>9. known[s] \in BOOLEAN
  BY OrderFacts
<1>10. OrderOK(s, r, l, placed[s] + n, unanswered[s] + n, ended[s], known[s])
  <2>1. local[s] = "PENDING" /\ placed[s] <= request[s].try - 1 /\ request[s].by = "none"
    BY <1>1, <1>3 DEF OrderOK, Risked
  <2>2. placed[s] = unanswered[s]
    BY <1>1, <1>8, <2>1 DEF OrderOK, Taken
  <2>3. placed[s] + n <= IF s \in linked THEN 1 ELSE MaxTries
    BY <1>1, <1>4, <1>8, <2>1, LiveNumbers DEF Acceptable, OrderOK
  <2>4. ended[s] > 0 => known[s]
    BY <1>1 DEF OrderOK
  <2>5. CASE /\ request[s].try < MaxTries
             /\ r.op = request[s].op /\ r.by = request[s].by
             /\ r.try = request[s].try /\ r.at = "backoff"
             /\ l = local[s]
    <3>1. placed[s] + n <= Risked(r) /\ r.try > 0
      BY <1>8, <2>1, <2>5 DEF Risked
    <3>2. l \notin Taken
      BY <2>1, <2>5 DEF Taken
    <3> QED BY <1>3, <1>8, <2>1, <2>2, <2>3, <2>4, <2>5, <3>1, <3>2 DEF OrderOK
  <2>6. CASE r = NoRequest /\ l = IF request[s].op = "submit" THEN "REJECTED" ELSE local[s]
    <3>1. l = "REJECTED" /\ l \notin Taken
      BY <1>3, <2>6 DEF Taken
    <3>2. r.op = "none" /\ r.at = "none" /\ r.by = "none"
      BY <2>6 DEF NoRequest
    <3> QED BY <1>8, <2>2, <2>3, <2>4, <2>6, <3>1, <3>2 DEF OrderOK
  <2> QED BY <1>5, <2>5, <2>6
<1> QED BY <1>2, <1>4, <1>5, <1>6, <1>7, <1>8, <1>9, <1>10, OrderIInv, ZenonT(60)

(* cancel_order and fetch_order.                                           *)
LEMMA LookupIInv ==
    ASSUME LiveIInv, NEW s \in LiveSubs, NEW op \in {"cancel", "fetch"},
           NEW by \in {"local", "exchange"}, Lookup(s, op, by)
    PROVE  LiveIInv'
<1>1. OrderOK(s, request[s], local[s], placed[s], unanswered[s], ended[s], known[s])
  BY OrderFacts
<1>2. /\ lookups' \in 0..MaxLookups /\ linked' = linked
      /\ confirmed' \in SUBSET {"local", "exchange"} /\ "local" \notin confirmed'
  <2>1. lookups \in 0..MaxLookups /\ lookups < MaxLookups /\ lookups' = lookups + 1
    BY DEF Lookup, LiveIInv, LiveTypeOK
  <2>2. lookups' \in 0..MaxLookups
    BY <2>1, LiveNumbers
  <2> QED BY <2>2 DEF Lookup, LiveIInv, LiveTypeOK, LiveOrdersAccounted
<1>3. local[s] \in Taken /\ (by = "exchange" => known[s])
  BY DEF Lookup
<1>4. PICK r \in Requests, l \in LocalStates :
        /\ request' = [request EXCEPT ![s] = r]
        /\ local' = [local EXCEPT ![s] = l]
        /\ l = local[s]
        /\ \/ r = request[s]
           \/ r = NoRequest
           \/ r.op = op /\ r.by = by /\ r.try = 1 /\ r.at = "wire"
  <2>1. CASE UNCHANGED <<local, request>>
    BY <2>1, OrderFacts
  <2>2. CASE Send(s, [op |-> op, by |-> by, try |-> 0, at |-> "none"])
    <3> DEFINE q == [op |-> op, by |-> by, try |-> 0, at |-> "none"]
    <3>1. q \in Requests /\ q.op = op /\ q.by = by /\ q.try = 0 /\ q.try < MaxTries
      BY LiveNumbers DEF Requests
    <3>2. Send(s, q)
      BY <2>2
    <3> HIDE DEF q
    <3>3. PICK r \in Requests, l \in LocalStates :
             /\ request' = [request EXCEPT ![s] = r]
             /\ local' = [local EXCEPT ![s] = l]
             /\ \/ /\ r.op = q.op /\ r.by = q.by /\ r.try = q.try + 1 /\ r.at = "wire"
                   /\ l = local[s]
                \/ /\ r = NoRequest
                   /\ l = IF q.op = "submit" THEN "REJECTED" ELSE local[s]
      BY <3>1, <3>2, SendCases
    <3>4. q.op # "submit"
      BY <3>1
    <3>5. l = local[s]
      BY <3>3, <3>4
    <3>6. r = NoRequest \/ (r.op = op /\ r.by = by /\ r.try = 1 /\ r.at = "wire")
      BY <3>1, <3>3
    <3>7. request' = [request EXCEPT ![s] = r] /\ local' = [local EXCEPT ![s] = l]
      BY <3>3
    <3> QED BY <3>5, <3>6, <3>7, Zenon
  <2> QED BY <2>1, <2>2 DEF Lookup
<1>5. /\ placed' = [placed EXCEPT ![s] = placed[s]]
      /\ unanswered' = [unanswered EXCEPT ![s] = unanswered[s]]
      /\ ended' = [ended EXCEPT ![s] = ended[s]]
  BY OrderFacts DEF Lookup
<1>6. known' = [known EXCEPT ![s] = known[s]]
  BY OrderFacts DEF Lookup
<1>7. placed[s] \in Nat /\ unanswered[s] \in Nat /\ ended[s] \in Nat /\ known[s] \in BOOLEAN
  BY OrderFacts
<1>8. OrderOK(s, r, l, placed[s], unanswered[s], ended[s], known[s])
  <2>1. l # "PENDING" /\ l \in Taken
    BY <1>3, <1>4 DEF Taken
  <2>2. CASE r = request[s]
    BY <1>1, <1>4, <2>2 DEF OrderOK
  <2>3. CASE r = NoRequest
    BY <1>1, <1>4, <2>1, <2>3 DEF OrderOK, NoRequest
  <2>4. CASE r.op = op /\ r.by = by /\ r.try = 1 /\ r.at = "wire"
    BY <1>1, <1>3, <1>4, <2>1, <2>4 DEF OrderOK
  <2> QED BY <1>4, <2>2, <2>3, <2>4
<1> QED BY <1>2, <1>4, <1>5, <1>6, <1>7, <1>8, OrderIInv, ZenonT(60)

(* What becomes of them: the identifier is forgotten, tried again or       *)
(* confirmed, and only the exchange's own ends the order.                  *)
LEMMA AnswerIInv ==
    ASSUME LiveIInv, NEW s \in LiveSubs, Confirmed(s) \/ LookupFails(s) \/ LookupBreaks(s)
    PROVE  LiveIInv'
<1>1. OrderOK(s, request[s], local[s], placed[s], unanswered[s], ended[s], known[s])
  BY OrderFacts
<1>2. /\ request[s].op \in {"cancel", "fetch"} /\ request[s].at = "wire"
      /\ request[s].try \in 0..MaxTries /\ local[s] \in Taken
  BY <1>1, OrderFacts DEF Confirmed, LookupFails, LookupBreaks, OnWire, OrderOK, Requests
<1>3. lookups' \in 0..MaxLookups /\ linked' = linked
  BY DEF Confirmed, LookupFails, LookupBreaks, LiveIInv, LiveTypeOK
<1>4. confirmed' \in SUBSET {"local", "exchange"} /\ "local" \notin confirmed'
  <2>1. confirmed \in SUBSET {"local", "exchange"} /\ "local" \notin confirmed
    BY DEF LiveIInv, LiveTypeOK, LiveOrdersAccounted
  <2>2. \/ confirmed' = confirmed
        \/ confirmed' = confirmed \cup {request[s].by} /\ request[s].by = "exchange"
    BY DEF Confirmed, LookupFails, LookupBreaks, Found
  <2> QED BY <2>1, <2>2
<1>5. PICK e \in Nat : /\ ended' = [ended EXCEPT ![s] = e]
                       /\ e = ended[s] \/ request[s].by = "exchange"
  <2>1. UNCHANGED ended \/ (Found(s) /\ End(s))
    BY DEF Confirmed, LookupFails, LookupBreaks
  <2>2. CASE UNCHANGED ended
    BY <2>2, OrderFacts
  <2>3. CASE Found(s) /\ End(s)
    BY <2>3 DEF Found, End
  <2> QED BY <2>1, <2>2, <2>3
<1>6. PICK r \in Requests :
        /\ request' = [request EXCEPT ![s] = r]
        /\ local' = [local EXCEPT ![s] = local[s]]
        /\ \/ /\ request[s].try < MaxTries
              /\ r.op = request[s].op /\ r.by = request[s].by
              /\ r.try = request[s].try /\ r.at = "backoff"
           \/ r = NoRequest
  <2>1. CASE Confirmed(s)
    BY <2>1, OrderFacts, NoRequestOK DEF Confirmed
  <2>2. CASE LookupFails(s)
    <3>1. RetryOrRaise(s)
      BY <2>2 DEF LookupFails
    <3> QED BY <1>2, <3>1, RetryCases
  <2>3. CASE LookupBreaks(s)
    <3>1. Raise(s, request[s])
      BY <2>3 DEF LookupBreaks
    <3> QED BY <1>2, <3>1, RaiseCases, NoRequestOK
  <2> QED BY <2>1, <2>2, <2>3
<1>7. /\ placed' = [placed EXCEPT ![s] = placed[s]]
      /\ unanswered' = [unanswered EXCEPT ![s] = unanswered[s]]
  BY OrderFacts DEF Confirmed, LookupFails, LookupBreaks
<1>8. known' = [known EXCEPT ![s] = known[s]]
  BY OrderFacts DEF Confirmed, LookupFails, LookupBreaks
<1>9. placed[s] \in Nat /\ unanswered[s] \in Nat /\ known[s] \in BOOLEAN
      /\ local[s] \in LocalStates
  BY OrderFacts
<1>10. OrderOK(s, r, local[s], placed[s], unanswered[s], e, known[s])
  <2>1. local[s] # "PENDING"
    BY <1>2 DEF Taken
  <2>2. e > 0 => known[s]
    BY <1>1, <1>5 DEF OrderOK
  <2>3. CASE /\ request[s].try < MaxTries
             /\ r.op = request[s].op /\ r.by = request[s].by
             /\ r.try = request[s].try /\ r.at = "backoff"
    <3>1. r.op # "submit" /\ r.op # "none" /\ r.at # "none" /\ r.try > 0 /\ r.try < MaxTries
      BY <1>1, <1>2, <2>3 DEF OrderOK
    <3>2. r.by = "exchange" => known[s]
      BY <1>1, <2>3 DEF OrderOK
    <3> QED BY <1>1, <1>2, <2>1, <2>2, <3>1, <3>2 DEF OrderOK
  <2>4. CASE r = NoRequest
    BY <1>1, <2>1, <2>2, <2>4 DEF OrderOK, NoRequest
  <2> QED BY <1>6, <2>3, <2>4
<1>11. /\ request' = [request EXCEPT ![s] = r]
       /\ local' = [local EXCEPT ![s] = local[s]]
       /\ ended' = [ended EXCEPT ![s] = e]
  BY <1>5, <1>6
<1> QED BY <1>3, <1>4, <1>7, <1>8, <1>9, <1>10, <1>11, OrderIInv, ZenonT(60)

LEMMA LiveInitIInv == LiveInit => LiveIInv
<1> SUFFICES ASSUME LiveInit PROVE LiveIInv
  OBVIOUS
<1>1. LiveTypeOK
  <2>1. known \in [LiveSubs -> BOOLEAN]
    BY DEF LiveInit
  <2>2. request \in [LiveSubs -> Requests]
    BY NoRequestOK DEF LiveInit
  <2>3. /\ linked \in SUBSET LiveSubs /\ lookups \in 0..MaxLookups
        /\ confirmed \in SUBSET {"local", "exchange"}
    BY LiveNumbers DEF LiveInit
  <2>4. /\ local \in [LiveSubs -> LocalStates]
        /\ placed \in [LiveSubs -> Nat] /\ ended \in [LiveSubs -> Nat]
        /\ unanswered \in [LiveSubs -> Nat]
    BY DEF LiveInit, LocalStates
  <2> QED BY <2>1, <2>2, <2>3, <2>4 DEF LiveTypeOK, Requests
<1>2. ASSUME NEW s \in LiveSubs
      PROVE  OrderOK(s, request[s], local[s], placed[s], unanswered[s], ended[s], known[s])
  <2>1. request[s] = NoRequest /\ local[s] = "PENDING" /\ placed[s] = 0
        /\ unanswered[s] = 0 /\ ended[s] = 0
    BY DEF LiveInit
  <2> QED BY <2>1, LiveNumbers DEF OrderOK, NoRequest, Risked, Taken
<1> QED BY <1>1, <1>2, ByOrder DEF LiveInit

LEMMA LiveNextIInv ==
    ASSUME LiveIInv, [LiveNext]_liveVars
    PROVE  LiveIInv'
<1>1. CASE \E s \in LiveSubs : OrderStep(s)
  <2>1. PICK s \in LiveSubs : OrderStep(s)
    BY <1>1
  <2>2. CASE \E op \in {"cancel", "fetch"}, by \in {"local", "exchange"} : Lookup(s, op, by)
    BY <2>2, LookupIInv
  <2>3. CASE SubmitLive(s) \/ Resend(s)
    BY <2>3, SubmitIInv
  <2>4. CASE Accepted(s)
    BY <2>4, AcceptedIInv
  <2>5. CASE SubmitFails(s) \/ SubmitBreaks(s)
    BY <2>5, LostIInv
  <2>6. CASE Confirmed(s) \/ LookupFails(s) \/ LookupBreaks(s)
    BY <2>6, AnswerIInv
  <2> QED BY <2>1, <2>2, <2>3, <2>4, <2>5, <2>6 DEF OrderStep
<1>2. CASE UNCHANGED orderVars
  BY <1>2 DEF orderVars, LiveIInv, LiveTypeOK, RequestInv, MayHavePlaced, LiveOrdersAccounted
<1> QED BY <1>1, <1>2 DEF LiveNext, liveVars

(* The inductive invariant of the orders.                                  *)
THEOREM OrdersInvariant == LiveSpec => []LiveIInv
<1> QED BY LiveInitIInv, LiveNextIInv, PTL DEF LiveSpec

(* Every order at the exchange is one this program submitted, one for each *)
(* attempt whose answer was lost and one for the answer it read.           *)
THEOREM OrdersAreAccounted == LiveSpec => []LiveOrdersAccounted
<1>1. LiveIInv => LiveOrdersAccounted
  BY DEF LiveIInv
<1> QED BY <1>1, OrdersInvariant, PTL

(* The connection keeps its promise while orders go over it.               *)
THEOREM ConnectionUnderOrders == LiveSpec => []CalmConnection
<1>1. LiveInit => ConnIInv
  BY ConnInitIInv DEF LiveInit
<1>2. ConnIInv /\ [LiveNext]_liveVars => ConnIInv'
  <2> SUFFICES ASSUME ConnIInv, [LiveNext]_liveVars PROVE ConnIInv'
    OBVIOUS
  <2>1. [ConnNext]_connVars
    BY DEF LiveNext, liveVars
  <2> QED BY <2>1, ConnNextIInv
<1>3. ConnIInv => CalmConnection
  BY DEF ConnIInv, CalmInv, IdleInv, CalmConnection
<1> QED BY <1>1, <1>2, <1>3, PTL DEF LiveSpec

-----------------------------------------------------------------------------
(* The position book of the engine                                         *)

Calm == ~queued /\ ~disturbed

(* In calm weather the bus holds at most one event. Until it is handled    *)
(* the book is exact, and after a fill it is the object on the bus that    *)
(* is: the book shows it, or nothing if it was closed.                     *)
Exact ==
    /\ Len(bus) <= 1
    /\ LocalNet = applied
    /\ book # NoPosition => heap[book].side = "BUY"
    /\ bus # <<>> /\ Head(bus).topic = "POSITION_UPDATED" =>
          LET p == heap[Head(bus).cell] IN
          /\ p.side = "BUY" /\ p.qty = applied
          /\ book \in {Head(bus).cell, NoPosition}

BookIInv == TypeOK /\ (Calm => Exact)

-----------------------------------------------------------------------------

(* There is a cell left for a new position: fewer are referred to than     *)
(* there are.                                                              *)
LEMMA FreshIsACell == TypeOK => Fresh \in Cells /\ Fresh # NoPosition
  <1> SUFFICES ASSUME TypeOK PROVE Fresh \in Cells /\ Fresh # NoPosition  OBVIOUS
  <1> DEFINE Held == {bus[i].cell : i \in 1..Len(bus)}
             cellAt == [i \in 1..Len(bus) |-> bus[i].cell]
  <1>0. Len(bus) \in Nat /\ Len(bus) <= BusCapacity /\ BusCapacity \in Nat
    BY EngineAssumption, LenProperties DEF TypeOK
  <1>1. IsFiniteSet(Held) /\ Cardinality(Held) <= Len(bus)
    <2>1. cellAt \in Surjection(1..Len(bus), Held)  BY DEF Surjection
    <2>2. IsFiniteSet(1..Len(bus)) /\ Cardinality(1..Len(bus)) = Len(bus)
      <3>1. /\ IsFiniteSet(1..Len(bus))
            /\ Cardinality(1..Len(bus)) = IF 1 > Len(bus) THEN 0 ELSE Len(bus) - 1 + 1
        BY <1>0, 1 \in Int, Len(bus) \in Int, FS_Interval
      <3>2. QED  BY <1>0, <3>1
    <2>3. QED  BY <2>1, <2>2, FS_Surjection
  <1>2. IsFiniteSet(Held \cup {book}) /\ Cardinality(Held \cup {book}) <= Len(bus) + 1
    <2>1. Cardinality(Held) \in Nat  BY <1>1, FS_CardinalityType
    <2> HIDE DEF Held
    <2>2. Cardinality(Held \cup {book}) \in {Cardinality(Held), Cardinality(Held) + 1}
      BY <1>1, FS_AddElement
    <2>3. IsFiniteSet(Held \cup {book})  BY <1>1, FS_AddElement
    <2>4. QED  BY <1>0, <1>1, <2>1, <2>2, <2>3
  <1>3. IsFiniteSet(Cells) /\ Cardinality(Cells) = BusCapacity + 2
    BY <1>0, FS_Interval DEF Cells
  <1>4. \E c \in Cells : c \notin Referenced
    <2>1. SUFFICES ASSUME Cells \subseteq Held \cup {book} PROVE FALSE  BY DEF Referenced
    <2>2. Cardinality(Cells) <= Cardinality(Held \cup {book})  BY <1>2, <2>1, FS_Subset
    <2>3. Cardinality(Held \cup {book}) \in Nat  BY <1>2, FS_CardinalityType
    <2>4. QED  BY <1>0, <1>2, <1>3, <2>2, <2>3
  <1>5. NoPosition \notin Cells  BY EngineAssumption DEF Cells
  <1>6. QED  BY <1>4, <1>5 DEF Fresh

(* An event that is published goes to the end of the bus, or nowhere.      *)
LEMMA PublishTypes ==
    ASSUME NEW q \in Seq(Event), Len(q) <= BusCapacity, NEW e \in Event
    PROVE  /\ Publish(q, e) \in Seq(Event) /\ Len(Publish(q, e)) <= BusCapacity
           /\ q = <<>> => Publish(q, e) = <<e>>
  <1>1. Append(q, e) \in Seq(Event) /\ Len(Append(q, e)) = Len(q) + 1 /\ Len(q) \in Nat
    BY AppendProperties, LenProperties
  <1>2. BusCapacity \in Nat \ {0}  BY EngineAssumption
  <1>3. ASSUME q = <<>> PROVE Publish(q, e) = <<e>>
    BY <1>2, <1>3, EmptySeq DEF Publish
  <1>4. QED  BY <1>1, <1>2, <1>3 DEF Publish

(* What the head of the bus is, and what remains.                          *)
LEMMA HeadOfBus ==
    ASSUME TypeOK, bus # <<>>
    PROVE  /\ Head(bus) \in Event /\ Tail(bus) \in Seq(Event)
           /\ Len(Tail(bus)) = Len(bus) - 1 /\ Len(bus) \in Nat \ {0}
           /\ Head(bus).topic = "POSITION_UPDATED" => Head(bus).cell \in Cells
           /\ Head(bus).topic = "ORDER_FILLED" =>
                 Head(bus).qty \in 1..MaxQty /\ Head(bus).side \in Sides
           /\ Len(bus) <= 1 => Tail(bus) = <<>>
  <1>1. bus \in Seq(Event)  BY DEF TypeOK
  <1>2. Head(bus) \in Event /\ Tail(bus) \in Seq(Event) /\ Len(Tail(bus)) = Len(bus) - 1
    BY <1>1, HeadTailProperties
  <1>3. Len(bus) \in Nat \ {0}  BY <1>1, EmptySeq, LenProperties
  <1>4. Len(bus) <= 1 => Tail(bus) = <<>>  BY <1>2, <1>3, EmptySeq
  <1>5. QED  BY <1>2, <1>3, <1>4 DEF Event

(* Initially nothing is held and the bus is empty.                         *)
LEMMA BookInit == Init => BookIInv
  <1> SUFFICES ASSUME Init PROVE BookIInv  OBVIOUS
  <1>1. <<>> \in Seq(Event) /\ Len(<<>>) = 0  BY EmptySeq
  <1>2. TypeOK
    <2>1. executed \in [Orders -> 0..MaxQty] /\ delivered \in [Orders -> 0..MaxQty]
      BY EngineAssumption DEF Init, FillInit
    <2>2. heap \in [Cells -> Position]  BY DEF Init, Position, Sides
    <2>3. bus \in Seq(Event) /\ Len(bus) <= BusCapacity
      BY <1>1, EngineAssumption DEF Init
    <2>4. sync \in [fetched : BOOLEAN, net : Int]  BY DEF Init, NoFetch
    <2>5. book \in Cells \cup {NoPosition} /\ remote \in Int /\ applied \in Int  BY DEF Init
    <2>6. queued \in BOOLEAN /\ disturbed \in BOOLEAN  BY DEF Init
    <2>7. QED  BY <2>1, <2>2, <2>3, <2>4, <2>5, <2>6 DEF TypeOK
  <1>3. Exact  BY <1>1 DEF Init, Exact, LocalNet
  <1>4. QED  BY <1>2, <1>3 DEF BookIInv

(* Steps of the exchange and the pipeline.                                 *)
LEMMA OrderSteps ==
    ASSUME BookIInv, NEW o \in Orders, ExecuteOrder(o) \/ DeliverFill(o)
    PROVE  BookIInv'
  <1>0. TypeOK  BY DEF BookIInv
  <1>1. CASE ExecuteOrder(o)
    <2>1. PICK n \in 1..MaxQty : executed' = [executed EXCEPT ![o] = n]
      BY <1>1 DEF ExecuteOrder, Execute
    <2>2. executed' \in [Orders -> 0..MaxQty] /\ executed'[o] \in Int /\ executed[o] \in Int
      BY <1>0, <2>1, EngineAssumption DEF TypeOK
    <2>3. remote' \in Int
      BY <1>0, <1>1, <2>2 DEF ExecuteOrder, TypeOK, Signed
    <2>4. QED
      BY <1>0, <1>1, <2>2, <2>3
      DEF ExecuteOrder, Execute, BookIInv, TypeOK, Calm, Exact, LocalNet
  <1>2. CASE DeliverFill(o)
    <2>1. PICK n \in 1..executed[o] : delivered' = [delivered EXCEPT ![o] = n]
      BY <1>2 DEF DeliverFill, Deliver
    <2>2. n \in 1..MaxQty /\ delivered'[o] = n /\ delivered' \in [Orders -> 0..MaxQty]
      BY <1>0, <2>1, EngineAssumption DEF TypeOK
    <2>3. Fill(o, n) \in Event /\ Fill(o, n).topic = "ORDER_FILLED"
      BY <2>2 DEF Fill, Event, Side, Sides
    <2>4. bus' = Publish(bus, Fill(o, n))  BY <1>2, <2>2 DEF DeliverFill
    <2>5. TypeOK'
      BY <1>0, <1>2, <2>2, <2>3, <2>4, PublishTypes DEF DeliverFill, Deliver, TypeOK
    <2>6. ASSUME Calm' PROVE Exact'
      <3>1. Calm /\ bus = <<>>  BY <1>2, <2>6 DEF DeliverFill, Calm
      <3>2. bus' = <<Fill(o, n)>>
        BY <1>0, <2>3, <2>4, <3>1, PublishTypes DEF TypeOK
      <3>3. Len(bus') = 1 /\ Head(bus') = Fill(o, n)  BY <3>2
      <3>4. Exact  BY <3>1 DEF BookIInv
      <3>5. QED  BY <1>2, <2>3, <3>3, <3>4 DEF DeliverFill, Exact, LocalNet
    <2>7. QED  BY <2>5, <2>6 DEF BookIInv
  <1>3. QED  BY <1>1, <1>2

(* What a fill makes of a position.                                        *)
LEMMA FilledIsAPosition ==
    ASSUME NEW p \in Position, NEW f \in Sides, NEW n \in Nat
    PROVE  /\ Filled(p, f, n) \in Position
           /\ p.side = "BUY" /\ f = "BUY" =>
                 Filled(p, f, n).side = "BUY" /\ Filled(p, f, n).qty = p.qty + n
           /\ p.side = "BUY" /\ f = "SELL" /\ n <= p.qty =>
                 Filled(p, f, n).side = "BUY" /\ Filled(p, f, n).qty = p.qty - n
  BY DEF Filled, Position, Sides

(* A fill is applied to the book, and its object published.                *)
LEMMA FillStep == ASSUME BookIInv, HandleFill PROVE BookIInv'
  <1> DEFINE e == Head(bus)
             cell == IF book = NoPosition THEN Fresh ELSE book
             now == IF book = NoPosition THEN [side |-> e.side, qty |-> e.qty]
                    ELSE Filled(heap[book], e.side, e.qty)
             closed == book # NoPosition /\ e.side = "SELL" /\ now.qty = 0
  <1>0. TypeOK /\ bus # <<>> /\ e.topic = "ORDER_FILLED"  BY DEF BookIInv, HandleFill
  <1>1. /\ heap' = [heap EXCEPT ![cell] = now]
        /\ book' = IF closed THEN NoPosition ELSE cell
        /\ bus' = Publish(Tail(bus), Updated(cell))
        /\ applied' = applied + Signed(e.side, e.qty)
        /\ disturbed' = (disturbed \/ (e.side = "SELL" /\ e.qty > LocalQty))
        /\ UNCHANGED <<executed, delivered, remote, sync, queued>>
    BY DEF HandleFill
  <1>2. e.qty \in 1..MaxQty /\ e.qty \in Nat \ {0} /\ e.side \in Sides
    BY <1>0, HeadOfBus, EngineAssumption
  <1>3. cell \in Cells /\ cell # NoPosition
    <2>1. NoPosition \notin Cells  BY EngineAssumption DEF Cells
    <2>2. QED  BY <1>0, <2>1, FreshIsACell DEF TypeOK
  <1>4. book # NoPosition => heap[book] \in Position  BY <1>0 DEF TypeOK
  <1>5. now \in Position
    BY <1>2, <1>4, FilledIsAPosition DEF Position
  <1>6. Updated(cell) \in Event /\ Updated(cell).topic = "POSITION_UPDATED" /\ Updated(cell).cell = cell
    BY <1>3 DEF Updated, Event
  <1>7. TypeOK'
    <2>1. bus' \in Seq(Event) /\ Len(bus') <= BusCapacity
      <3>1. Tail(bus) \in Seq(Event) /\ Len(Tail(bus)) <= BusCapacity
        BY <1>0, HeadOfBus, EngineAssumption DEF TypeOK
      <3>2. QED  BY <1>1, <1>6, <3>1, PublishTypes
    <2>2. heap' \in [Cells -> Position]  BY <1>0, <1>1, <1>3, <1>5 DEF TypeOK
    <2>3. book' \in Cells \cup {NoPosition}  BY <1>1, <1>3
    <2>4. applied' \in Int  BY <1>0, <1>1, <1>2 DEF TypeOK, Signed
    <2>5. disturbed' \in BOOLEAN  BY <1>0, <1>1 DEF TypeOK
    <2>6. QED  BY <1>0, <1>1, <2>1, <2>2, <2>3, <2>4, <2>5 DEF TypeOK
  <1>8. ASSUME Calm' PROVE Exact'
    <2>1. Calm /\ ~(e.side = "SELL" /\ e.qty > LocalQty)  BY <1>1, <1>8 DEF Calm
    <2>2. Exact  BY <2>1 DEF BookIInv
    <2>3. now.side = "BUY" /\ now.qty = applied'
      <3>1. CASE book = NoPosition
        <4>1. applied = 0 /\ LocalQty = 0  BY <2>2, <3>1 DEF Exact, LocalNet, LocalQty
        <4>2. e.side = "BUY"  BY <1>2, <2>1, <4>1 DEF Sides
        <4>3. QED  BY <1>1, <1>2, <3>1, <4>1, <4>2 DEF Signed
      <3>2. CASE book # NoPosition
        <4>1. /\ heap[book].side = "BUY" /\ heap[book].qty = applied
              /\ LocalQty = heap[book].qty
          BY <2>2, <3>2 DEF Exact, LocalNet, LocalQty, Signed
        <4>2. applied \in Nat  BY <1>4, <3>2, <4>1 DEF Position
        <4>3. e.side = "SELL" => e.qty <= heap[book].qty  BY <1>2, <2>1, <4>1, <4>2
        <4>4. QED
          BY <1>1, <1>2, <1>4, <3>2, <4>1, <4>2, <4>3, FilledIsAPosition DEF Signed, Sides
      <3>3. QED  BY <3>1, <3>2
    <2>4. heap'[cell] = now  BY <1>0, <1>1, <1>3 DEF TypeOK
    <2>5. bus' = <<Updated(cell)>>
      <3>1. Tail(bus) = <<>>  BY <1>0, <2>2, HeadOfBus DEF Exact
      <3>2. <<>> \in Seq(Event) /\ Len(<<>>) <= BusCapacity  BY EmptySeq, EngineAssumption
      <3>3. QED  BY <1>1, <1>6, <3>1, <3>2, PublishTypes
    <2>6. Len(bus') = 1 /\ Head(bus') = Updated(cell)  BY <2>5
    <2>7. LocalNet' = applied'
      BY <1>1, <1>3, <2>3, <2>4 DEF LocalNet, Signed
    <2>8. book' # NoPosition => heap'[book'].side = "BUY"  BY <1>1, <2>3, <2>4
    <2>9. book' \in {cell, NoPosition}  BY <1>1
    <2>10. heap'[cell].side = "BUY" /\ heap'[cell].qty = applied'  BY <2>3, <2>4
    <2> HIDE DEF cell, now, closed, e
    <2>11. Head(bus').cell = cell  BY <1>6, <2>6
    <2>12. QED  BY <2>6, <2>7, <2>8, <2>9, <2>10, <2>11 DEF Exact
  <1>9. QED  BY <1>7, <1>8 DEF BookIInv

(* The object of a POSITION_UPDATED event becomes the book's entry.        *)
LEMMA UpdatedStep == ASSUME BookIInv, HandleUpdated PROVE BookIInv'
  <1>0. TypeOK /\ bus # <<>> /\ Head(bus).topic = "POSITION_UPDATED"
    BY DEF BookIInv, HandleUpdated
  <1>1. book' = Head(bus).cell /\ bus' = Tail(bus)  BY DEF HandleUpdated
  <1>2. Head(bus).cell \in Cells /\ Tail(bus) \in Seq(Event) /\ Len(Tail(bus)) = Len(bus) - 1
        /\ Len(bus) \in Nat \ {0}
    BY <1>0, HeadOfBus
  <1>3. TypeOK'
    BY <1>0, <1>1, <1>2, EngineAssumption DEF HandleUpdated, TypeOK
  <1>4. ASSUME Calm' PROVE Exact'
    <2>1. Calm /\ Exact  BY <1>4 DEF HandleUpdated, Calm, BookIInv
    <2>2. bus' = <<>> /\ Len(bus') = 0
      BY <1>0, <1>1, <1>2, <2>1, HeadOfBus, EmptySeq DEF Exact
    <2>3. heap[book'].side = "BUY" /\ heap[book'].qty = applied
      BY <1>0, <1>1, <2>1 DEF Exact
    <2>4. book' # NoPosition  BY <1>1, <1>2, EngineAssumption DEF Cells
    <2>5. heap' = heap /\ applied' = applied  BY DEF HandleUpdated
    <2>6. QED  BY <2>2, <2>3, <2>4, <2>5 DEF Exact, LocalNet, Signed
  <1>5. QED  BY <1>3, <1>4 DEF BookIInv

(* An answer of the exchange is asked for, dropped, or written.            *)
LEMMA SyncSteps == ASSUME BookIInv, SyncFetch \/ SyncApply \/ SyncError PROVE BookIInv'
  <1>0. TypeOK  BY DEF BookIInv
  <1>1. CASE SyncFetch \/ SyncError
    <2>1. sync' \in [fetched : BOOLEAN, net : Int]
      <3>1. remote \in Int  BY <1>0 DEF TypeOK
      <3>2. [fetched |-> TRUE, net |-> remote] \in [fetched : BOOLEAN, net : Int]  BY <3>1
      <3>3. [fetched |-> FALSE, net |-> 0] \in [fetched : BOOLEAN, net : Int]  OBVIOUS
      <3>4. QED  BY <1>1, <3>2, <3>3 DEF SyncFetch, SyncError, NoFetch
    <2>2. UNCHANGED <<executed, delivered, remote, heap, book, bus, applied, queued, disturbed>>
      BY <1>1 DEF SyncFetch, SyncError
    <2>3. QED  BY <1>0, <2>1, <2>2 DEF BookIInv, TypeOK, Calm, Exact, LocalNet
  <1>2. CASE SyncApply
    <2>0. sync' = NoFetch /\ sync.net \in Int /\ sync' \in [fetched : BOOLEAN, net : Int]
      BY <1>0, <1>2 DEF SyncApply, NoFetch, TypeOK
    <2>1. Abs(sync.net) \in Nat  BY <2>0 DEF Abs
    <2>2. Fresh \in Cells /\ Fresh # NoPosition  BY <1>0, FreshIsACell
    <2>3. heap' \in [Cells -> Position] /\ book' \in Cells \cup {NoPosition}
      <3>1. CASE sync.net = 0  BY <1>0, <1>2, <3>1 DEF SyncApply, TypeOK
      <3>2. CASE sync.net # 0 /\ book = NoPosition
        <4>1. PICK p \in Position : heap' = [heap EXCEPT ![Fresh] = p]
          <5>1. [side |-> IF sync.net > 0 THEN "BUY" ELSE "SELL", qty |-> Abs(sync.net)] \in Position
            BY <2>1 DEF Position, Sides
          <5>2. QED  BY <1>2, <3>2, <5>1 DEF SyncApply
        <4>2. book' = Fresh  BY <1>2, <3>2 DEF SyncApply
        <4>3. QED  BY <1>0, <2>2, <4>1, <4>2 DEF TypeOK
      <3>3. CASE sync.net # 0 /\ book # NoPosition
        <4>1. book \in Cells /\ heap' = [heap EXCEPT ![book].qty = Abs(sync.net)] /\ book' = book
          BY <1>0, <1>2, <3>3 DEF SyncApply, TypeOK
        <4>2. [heap[book] EXCEPT !.qty = Abs(sync.net)] \in Position
          BY <1>0, <2>1, <4>1 DEF TypeOK, Position
        <4>3. QED  BY <1>0, <4>1, <4>2 DEF TypeOK
      <3>4. QED  BY <3>1, <3>2, <3>3
    <2>4. bus' \in Seq(Event) /\ Len(bus') <= BusCapacity
      <3>1. CASE bus' = bus  BY <1>0, <3>1 DEF TypeOK
      <3>2. CASE bus' # bus
        <4>1. book \in Cells /\ bus' = Publish(bus, Updated(book))
          BY <1>0, <1>2, <3>2 DEF SyncApply, TypeOK
        <4>2. Updated(book) \in Event  BY <4>1 DEF Updated, Event
        <4>3. QED  BY <1>0, <4>1, <4>2, PublishTypes DEF TypeOK
      <3>3. QED  BY <3>1, <3>2
    <2>5. TypeOK'
      BY <1>0, <1>2, <2>0, <2>3, <2>4 DEF SyncApply, TypeOK
    <2>6. ASSUME Calm' PROVE Exact'
      <3>1. Calm /\ Exact /\ (sync.net # 0 => sync.net = applied /\ bus = <<>>)
        BY <1>2, <2>6 DEF SyncApply, Calm, BookIInv
      <3>2. CASE sync.net = 0
        BY <1>2, <3>1, <3>2 DEF SyncApply, Exact, LocalNet
      <3>3. CASE sync.net # 0
        <4>1. book # NoPosition  BY <3>1, <3>3 DEF Exact, LocalNet
        <4>2. book \in Cells /\ heap' = [heap EXCEPT ![book].qty = Abs(sync.net)]
              /\ bus' = Publish(bus, Updated(book)) /\ book' = book /\ applied' = applied
          BY <1>0, <1>2, <3>3, <4>1 DEF SyncApply, TypeOK
        <4>3. heap[book].side = "BUY" /\ heap[book].qty = applied /\ applied \in Nat
          BY <1>0, <3>1, <4>1, <4>2 DEF Exact, LocalNet, Signed, TypeOK, Position
        <4>4. heap'[book].side = "BUY" /\ heap'[book].qty = applied
          BY <1>0, <3>1, <3>3, <4>2, <4>3 DEF TypeOK, Position, Abs
        <4>5. bus' = <<Updated(book)>>
          <5>1. Updated(book) \in Event  BY <4>2 DEF Updated, Event
          <5>2. QED  BY <1>0, <3>1, <3>3, <4>2, <5>1, PublishTypes DEF TypeOK
        <4>6. Len(bus') = 1 /\ Head(bus').cell = book  BY <4>5 DEF Updated
        <4>7. QED  BY <4>1, <4>2, <4>4, <4>6 DEF Exact, LocalNet, Signed
      <3>4. QED  BY <3>2, <3>3
    <2>7. QED  BY <2>5, <2>6 DEF BookIInv
  <1>3. QED  BY <1>1, <1>2

(* The inductive invariant holds in every state.                           *)
THEOREM BookInvariant == Spec => []BookIInv
  <1>1. BookIInv /\ [Next]_vars => BookIInv'
    <2> SUFFICES ASSUME BookIInv, [Next]_vars PROVE BookIInv'  OBVIOUS
    <2>1. CASE UNCHANGED vars
      BY <2>1 DEF vars, BookIInv, TypeOK, Calm, Exact, LocalNet
    <2>2. CASE Next
      BY <2>2, OrderSteps, FillStep, UpdatedStep, SyncSteps DEF Next
    <2>3. QED  BY <2>1, <2>2
  <1>2. QED  BY <1>1, BookInit, PTL DEF Spec

(* While fills meet an idle bus, nothing is sold short and no answer of    *)
(* the exchange is stale, the book is the net of the fills, although a     *)
(* closed position is deleted by one handler and put back by the next: for *)
(* any orders, quantities and capacity of the bus.                         *)
THEOREM CalmBook == Spec => []CalmBookIsExact
  <1>1. BookIInv => CalmBookIsExact  BY DEF BookIInv, CalmBookIsExact, Calm, Exact
  <1>2. QED  BY <1>1, BookInvariant, PTL

============================================================================
