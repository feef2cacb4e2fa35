----------------------------- MODULE Connector ------------------------------
(***************************************************************************)
(* The connection of an exchange connector: connect, disconnect and        *)
(* reconnect of exchanges/base_connector.py over the HTTP session that     *)
(* exchanges/binance_connector.py opens and closes, and the keepalive task *)
(* of its user data stream.                                                *)
(*                                                                         *)
(* Several coroutines may call the connector at once: nothing but the      *)
(* connection state keeps them apart. One step is what one of them does    *)
(* between two awaits that suspend: the ping that checks a new session,    *)
(* the sleep before an attempt, the end of a cancelled keepalive task, the *)
(* closing of a session, the creation of a listen key. No code starts a    *)
(* stream through _start_ws_stream, so there are no stream tasks to stop.  *)
(***************************************************************************)
EXTENDS Integers, FiniteSets

CONSTANTS
    Callers,        \* the coroutines that call the connector
    MaxReconnect,   \* _max_reconnect_attempts
    MaxCalls        \* bound on the calls of its operations

ASSUME ConnectorAssumption ==
    /\ IsFiniteSet(Callers)
    /\ MaxReconnect \in Nat \ {0}
    /\ MaxCalls \in Nat

VARIABLES
    connState,    \* _state
    attempts,     \* _reconnect_attempts
    session,      \* _session: None, open or closed
    keeper,       \* _listen_key_task: none or done, alive, or cancelled and ending
    call,         \* call[c]: the operation c is in, and the await it stands at
    calls,        \* calls made so far
    leaked,       \* history: sessions left open with nothing referring to them
    pingsFailed,  \* history: new sessions whose ping failed
    gaveUp,       \* history: reconnect has run out of attempts since the last success
    overlapped    \* history: a call was made while another one was under way

connVars == <<connState, attempts, session, keeper, call, calls, leaked,
              pingsFailed, gaveUp, overlapped>>

ConnStates == {"DISCONNECTED", "CONNECTING", "CONNECTED", "RECONNECTING", "CLOSED"}
Operations == {"none", "connect", "disconnect", "reconnect", "watch"}
Awaits == {"none", "ping", "sleep", "cancel", "stop", "close", "listen"}
Keepers == {"none", "alive", "ending"}

ConnTypeOK ==
    /\ connState \in ConnStates
    /\ attempts \in 0..(MaxReconnect + Cardinality(Callers) - 1)
    /\ session \in {"none", "open", "closed"}
    /\ keeper \in Keepers
    /\ call \in [Callers -> [op : Operations, at : Awaits]]
    /\ calls \in 0..MaxCalls
    /\ leaked \in Nat
    /\ pingsFailed \in Nat
    /\ gaveUp \in BOOLEAN
    /\ overlapped \in BOOLEAN

Idle == [op |-> "none", at |-> "none"]

ConnInit ==
    /\ connState = "DISCONNECTED"
    /\ attempts = 0
    /\ session = "none"
    /\ keeper = "none"
    /\ call = [c \in Callers |-> Idle]
    /\ calls = 0
    /\ leaked = 0 /\ pingsFailed = 0
    /\ gaveUp = FALSE
    /\ overlapped = FALSE

-----------------------------------------------------------------------------
(* Helpers                                                                 *)

\* c makes a call
Calling(c) ==
    /\ call[c] = Idle
    /\ calls < MaxCalls
    /\ calls' = calls + 1
    /\ overlapped' = (overlapped \/ \E d \in Callers : call[d] # Idle)

Suspend(c, op, at) == call' = [call EXCEPT ![c] = [op |-> op, at |-> at]]
Resumes(c, op, at) == call[c] = [op |-> op, at |-> at]
Return(c) == call' = [call EXCEPT ![c] = Idle]

(* _do_connect up to its ping: a new session takes the place of the one    *)
(* held.                                                                   *)
OpenSession ==
    /\ session' = "open"
    /\ leaked' = IF session = "open" THEN leaked + 1 ELSE leaked

\* mutant: a session that is held is never closed
CloseSessionNever(c, op) ==
    IF op = "reconnect"
    THEN Suspend(c, op, "ping") /\ OpenSession
    ELSE Return(c) /\ UNCHANGED <<session, leaked>>

(* The session, at the end of _do_disconnect, and what follows it in op:   *)
(* an open one is closed, without one it goes through at once.             *)
CloseSession(c, op) ==
    CASE session = "open" ->
            /\ session' = "closed"
            /\ Suspend(c, op, "close")
            /\ UNCHANGED leaked
      [] op = "reconnect" /\ session # "open" ->
            /\ Suspend(c, op, "ping")
            /\ OpenSession
      [] op = "disconnect" /\ session # "open" ->
            /\ Return(c)
            /\ UNCHANGED <<session, leaked>>

(* A keepalive task that has not ended is cancelled and awaited.           *)
StopKeeper(c, op, at) ==
    /\ keeper # "none"
    /\ keeper' = "ending"
    /\ Suspend(c, op, at)
    /\ UNCHANGED <<session, leaked>>

(* _do_disconnect, which looks at the keepalive task once.                 *)
Shut(c, op) ==
    \/ StopKeeper(c, op, "stop")
    \/ keeper = "none" /\ UNCHANGED keeper /\ CloseSession(c, op)

-----------------------------------------------------------------------------
(* connect                                                                 *)

Connect(c) ==
    /\ connState # "CONNECTED"
    /\ Calling(c)
    /\ connState' = "CONNECTING"
    /\ OpenSession
    /\ Suspend(c, "connect", "ping")
    /\ UNCHANGED <<attempts, keeper, pingsFailed, gaveUp>>

(* The ping is answered. A reconnect ends in the same way.                 *)
Connected(c) ==
    /\ \E op \in {"connect", "reconnect"} : Resumes(c, op, "ping")
    /\ connState' = "CONNECTED"
    /\ attempts' = 0
    /\ gaveUp' = FALSE
    /\ Return(c)
    /\ UNCHANGED <<session, keeper, calls, leaked, pingsFailed, overlapped>>

(* It fails: connect raises, and leaves the new session open.              *)
ConnectFails(c) ==
    /\ Resumes(c, "connect", "ping")
    /\ connState' = "DISCONNECTED"
    /\ pingsFailed' = pingsFailed + 1
    /\ Return(c)
    /\ UNCHANGED <<attempts, session, keeper, calls, leaked, gaveUp, overlapped>>

-----------------------------------------------------------------------------
(* disconnect                                                              *)

(* It looks at the keepalive task before _do_disconnect does.              *)
Disconnect(c) ==
    /\ Calling(c)
    /\ connState' = "CLOSED"
    /\ \/ StopKeeper(c, "disconnect", "cancel")
       \/ keeper = "none" /\ Shut(c, "disconnect")
    /\ UNCHANGED <<attempts, pingsFailed, gaveUp>>

(* The keepalive task that was awaited has ended, another one may have     *)
(* started: it is cancelled by a disconnect that has not yet reached       *)
(* _do_disconnect, and left alone past that point.                         *)
KeeperEnded(c) ==
    /\ \/ /\ Resumes(c, "disconnect", "cancel")
          /\ keeper = "alive"
          /\ StopKeeper(c, "disconnect", "stop")
       \/ /\ Resumes(c, "disconnect", "cancel")
          /\ keeper # "alive" /\ keeper' = "none"
          /\ CloseSession(c, "disconnect")
       \/ \E op \in {"disconnect", "reconnect"} :
             /\ Resumes(c, op, "stop")
             /\ keeper' = IF keeper = "ending" THEN "none" ELSE keeper
             /\ CloseSession(c, op)
    /\ UNCHANGED <<connState, attempts, calls, pingsFailed, gaveUp, overlapped>>

(* The session is closed, and _session becomes None whatever it holds by   *)
(* now.                                                                    *)
SessionClosed(c) ==
    /\ \/ /\ Resumes(c, "disconnect", "close")
          /\ session' = "none"
          /\ Return(c)
       \/ /\ Resumes(c, "reconnect", "close")
          /\ session' = "open"
          /\ Suspend(c, "reconnect", "ping")
    /\ leaked' = IF session = "open" THEN leaked + 1 ELSE leaked
    /\ UNCHANGED <<connState, attempts, keeper, calls, pingsFailed, gaveUp, overlapped>>

-----------------------------------------------------------------------------
(* reconnect                                                               *)

(* No attempt is left: the counter stays at its maximum.                   *)
GiveUp(c) ==
    /\ connState' = "DISCONNECTED"
    /\ gaveUp' = TRUE
    /\ UNCHANGED attempts
    /\ Return(c)

\* the head of the loop over the attempts, which every loop counts together
TryAgain(c) ==
    IF attempts < MaxReconnect
    THEN /\ connState' = "RECONNECTING"
         /\ Suspend(c, "reconnect", "sleep")
         /\ UNCHANGED <<attempts, gaveUp>>
    ELSE GiveUp(c)

Reconnect(c) ==
    /\ connState # "RECONNECTING"
    /\ Calling(c)
    /\ TryAgain(c)
    /\ UNCHANGED <<session, keeper, leaked, pingsFailed>>

Wake(c) ==
    /\ Resumes(c, "reconnect", "sleep")
    /\ attempts' = attempts + 1
    /\ Shut(c, "reconnect")
    /\ UNCHANGED <<connState, calls, pingsFailed, gaveUp, overlapped>>

\* mutant: after the last attempt the state is left as it was
AttemptFailsQuietly(c) ==
    /\ Resumes(c, "reconnect", "ping")
    /\ IF attempts < MaxReconnect THEN Suspend(c, "reconnect", "sleep") ELSE Return(c)
    /\ pingsFailed' = pingsFailed + 1
    /\ UNCHANGED <<connState, attempts, gaveUp, session, keeper, calls, leaked, overlapped>>

(* The attempt fails. The state is not looked at: a connector closed in    *)
(* the meantime is connected again by the next attempt.                    *)
AttemptFails(c) ==
    /\ Resumes(c, "reconnect", "ping")
    /\ IF attempts < MaxReconnect
       THEN Suspend(c, "reconnect", "sleep") /\ UNCHANGED <<connState, attempts, gaveUp>>
       ELSE GiveUp(c)
    /\ pingsFailed' = pingsFailed + 1
    /\ UNCHANGED <<session, keeper, calls, leaked, overlapped>>

-----------------------------------------------------------------------------
(* watch_user_data                                                         *)

(* A listen key is asked for; without a session the call raises.           *)
Watch(c) ==
    /\ session = "open"
    /\ Calling(c)
    /\ Suspend(c, "watch", "listen")
    /\ UNCHANGED <<connState, attempts, session, keeper, leaked, pingsFailed, gaveUp>>

(* The keepalive task starts, or the request has failed.                   *)
Watched(c) ==
    /\ Resumes(c, "watch", "listen")
    /\ keeper' \in {keeper, "alive"}
    /\ Return(c)
    /\ UNCHANGED <<connState, attempts, session, calls, leaked, pingsFailed, gaveUp, overlapped>>

-----------------------------------------------------------------------------
Proceeds(c) ==
    \/ Connected(c) \/ ConnectFails(c)
    \/ KeeperEnded(c) \/ SessionClosed(c)
    \/ Wake(c) \/ AttemptFails(c)
    \/ Watched(c)

ConnNext ==
    \E c \in Callers :
        \/ Connect(c) \/ Disconnect(c) \/ Reconnect(c) \/ Watch(c)
        \/ Proceeds(c)

ConnSpec == ConnInit /\ [][ConnNext]_connVars

-----------------------------------------------------------------------------
(* Properties                                                              *)

Quiet == \A c \in Callers : call[c] = Idle

(* When no two calls overlap: a connected connector holds an open session; *)
(* a closed one holds nothing that runs; sessions are lost only to failed  *)
(* pings; and once reconnect has used up its attempts no reconnect ever    *)
(* succeeds again, only connect does.                                      *)
CalmConnection ==
    ~overlapped =>
        /\ connState = "CONNECTED" => session = "open"
        /\ connState = "CLOSED" /\ Quiet => session # "open" /\ keeper = "none"
        /\ leaked <= pingsFailed
        /\ attempts <= MaxReconnect
        /\ gaveUp /\ Quiet => attempts = MaxReconnect

(* Every reconnection ends, connected or given up, also when several       *)
(* loops share the counter.                                                *)
ReconnectSettles == connState = "RECONNECTING" ~> connState # "RECONNECTING"

-----------------------------------------------------------------------------
(* The inductive invariant of CalmConnection                               *)

\* the places at which a call is suspended
PlaceOK(c) ==
    /\ call[c].op = "none" => call[c].at = "none"
    /\ call[c].op = "connect" => call[c].at = "ping"
    /\ call[c].op = "disconnect" => call[c].at \in {"cancel", "stop", "close"}
    /\ call[c].op = "reconnect" => call[c].at \in {"sleep", "stop", "close", "ping"}
    /\ call[c].op = "watch" => call[c].at = "listen"

CallTypeOK ==
    /\ call \in [Callers -> [op : Operations, at : Awaits]]
    /\ \A c \in Callers : PlaceOK(c)
    /\ attempts \in Nat /\ leaked \in Nat /\ pingsFailed \in Nat
    /\ connState \in ConnStates /\ session \in {"none", "open", "closed"}
    /\ keeper \in Keepers /\ gaveUp \in BOOLEAN /\ overlapped \in BOOLEAN

\* what a call that is alone may rely on where it is suspended
CallInv(c) ==
    /\ call[c].op = "connect" => connState = "CONNECTING"
    /\ call[c].op = "reconnect" => connState = "RECONNECTING"
    /\ call[c].op = "disconnect" => connState = "CLOSED"
    /\ call[c].op = "watch" => connState \in {"DISCONNECTED", "CONNECTED"} /\ session = "open"
    /\ call[c].at = "sleep" =>
           attempts < MaxReconnect /\ (attempts > 0 /\ session = "open" => leaked < pingsFailed)
    /\ call[c].at = "ping" => session = "open"
    /\ call[c].at = "close" => session = "closed" /\ keeper = "none"
    /\ call[c].at \in {"cancel", "stop"} => keeper = "ending"
    /\ call[c].at \in {"ping", "sleep", "listen"} => keeper # "ending"

\* the connector between its calls; a session left open is one whose ping failed
IdleInv ==
    /\ connState = "CONNECTED" => session = "open" /\ attempts = 0
    /\ connState = "CLOSED" /\ Quiet => session # "open" /\ keeper = "none"
    /\ connState = "DISCONNECTED" /\ session = "open" => leaked < pingsFailed
    /\ connState \in {"CONNECTING", "RECONNECTING"} => ~Quiet
    /\ leaked <= pingsFailed
    /\ keeper = "ending" => ~Quiet
    /\ attempts <= MaxReconnect
    /\ gaveUp => attempts = MaxReconnect

CalmInv ==
    ~overlapped =>
        /\ \A c, d \in Callers : call[c] # Idle /\ call[d] # Idle => c = d
        /\ \A c \in Callers : CallInv(c)
        /\ IdleInv

ConnIInv == CallTypeOK /\ CalmInv
=============================================================================
