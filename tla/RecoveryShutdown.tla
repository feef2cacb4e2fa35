-------------------------- MODULE RecoveryShutdown --------------------------
(***************************************************************************)
(* The shutdown manager of crash recovery (infrastructure/recovery.py):    *)
(* shutdown is called by the program, by a signal handler, by atexit or by *)
(* another thread, and whoever comes first moves the phase and runs the    *)
(* callbacks, the last registered first. Its lock is held only while the   *)
(* phase leaves RUNNING and the start is written to the shutdown log.      *)
(*                                                                         *)
(* A signal handler runs on the main thread, on top of what it interrupts: *)
(* the main thread is a stack of calls of shutdown. The lock is not        *)
(* reentrant. Writing to the log may raise, and in a handler the exception *)
(* goes through whatever the signal interrupted; a callback's exception is *)
(* caught. The drain phase only computes a deadline that nothing reads.    *)
(***************************************************************************)
EXTENDS Integers, Sequences

CONSTANTS
    MaxDepth,      \* bound on the calls the main thread may be in at once
    MaxRegistered  \* bound on the callbacks registered

ASSUME RecoveryShutdownAssumption == MaxDepth \in Nat \ {0} /\ MaxRegistered \in Nat

VARIABLES
    shutPhase,   \* _phase
    holder,      \* who holds _lock: "none", "main" or "worker"
    frames,      \* the calls of shutdown on the main thread, the first below
    worker,      \* the call of shutdown of another thread
    registered,  \* number of callbacks in _callbacks
    turn,        \* the callback whose turn it is, counted down from the last
    ran,         \* history: the callbacks run, in order
    due,         \* history: callbacks registered when the first of them ran
    shutLog,     \* database: the last event of the shutdown log
    raisedAt,    \* history: events that could not be written
    process,     \* "runs", "atexit" or "gone"
    caught       \* history: a signal came while the main thread held the lock

shutVars == <<shutPhase, holder, frames, worker, registered, turn, ran, due,
              shutLog, raisedAt, process, caught>>

ShutPhases == {"RUNNING", "DRAINING", "FLUSHING", "STOPPED"}

\* where a call stands: before the lock, at the check of the phase and at the
\* write to the log with the lock, then at the flush, in a callback, after the
\* last one, and at the second write
Steps == {"lock", "check", "start", "flush", "callback", "clean"}

ShutTypeOK ==
    /\ shutPhase \in ShutPhases
    /\ holder \in {"none", "main", "worker"}
    /\ frames \in Seq(Steps) /\ Len(frames) <= MaxDepth
    /\ worker \in Steps \cup {"none"}
    /\ registered \in 0..MaxRegistered /\ turn \in 0..MaxRegistered /\ due \in 0..MaxRegistered
    /\ ran \in Seq(1..MaxRegistered)
    /\ shutLog \in {"startup", "shutdown_start", "clean_shutdown"}
    /\ raisedAt \subseteq {"start", "clean"}
    /\ process \in {"runs", "atexit", "gone"}
    /\ caught \in BOOLEAN

ShutInit ==
    /\ shutPhase = "RUNNING" /\ holder = "none"
    /\ frames = <<>> /\ worker = "none"
    /\ registered = 0 /\ turn = 0 /\ ran = <<>> /\ due = 0
    /\ shutLog = "startup" /\ raisedAt = {}
    /\ process = "runs" /\ caught = FALSE

-----------------------------------------------------------------------------
(* The callers                                                             *)

Callers == {"main", "worker"}

At(c) == IF c = "worker" THEN worker
         ELSE IF frames = <<>> THEN "none" ELSE frames[Len(frames)]

\* the call of c goes on at step to, or returns
Goes(c, to) ==
    IF c = "worker" THEN worker' = to /\ UNCHANGED frames
    ELSE frames' = [frames EXCEPT ![Len(frames)] = to] /\ UNCHANGED worker
Returns(c) ==
    IF c = "worker" THEN worker' = "none" /\ UNCHANGED frames
    ELSE frames' = SubSeq(frames, 1, Len(frames) - 1) /\ UNCHANGED worker
\* the call of c raises: on the main thread whatever it interrupted does too
Raises(c) ==
    IF c = "worker" THEN worker' = "none" /\ UNCHANGED frames
    ELSE frames' = <<>> /\ UNCHANGED worker

Rest == UNCHANGED <<registered, turn, ran, due, shutLog, raisedAt, process, caught>>

Register ==
    /\ process = "runs" /\ registered < MaxRegistered
    /\ registered' = registered + 1
    /\ UNCHANGED <<shutPhase, holder, frames, worker, turn, ran, due, shutLog, raisedAt, process, caught>>

(* The program calls shutdown, or a signal does, on top of another call.   *)
MainCalls ==
    /\ process # "gone" /\ Len(frames) < MaxDepth
    /\ frames' = Append(frames, "lock")
    /\ caught' = (caught \/ holder = "main")
    /\ UNCHANGED <<shutPhase, holder, worker, registered, turn, ran, due, shutLog, raisedAt, process>>

WorkerCalls ==
    /\ process # "gone" /\ worker = "none"
    /\ worker' = "lock"
    /\ UNCHANGED <<shutPhase, holder, frames, registered, turn, ran, due, shutLog, raisedAt, process, caught>>

(* The program ends, and atexit calls shutdown if nothing has before.      *)
Atexit ==
    /\ process = "runs" /\ frames = <<>>
    /\ process' = "atexit"
    /\ frames' = IF shutPhase = "RUNNING" THEN <<"lock">> ELSE <<>>
    /\ UNCHANGED <<shutPhase, holder, worker, registered, turn, ran, due, shutLog, raisedAt, caught>>

(* The process is gone, with whatever another thread was doing.            *)
Gone ==
    /\ process = "atexit" /\ frames = <<>>
    /\ process' = "gone"
    /\ UNCHANGED <<shutPhase, holder, frames, worker, registered, turn, ran, due, shutLog, raisedAt, caught>>

-----------------------------------------------------------------------------
(* shutdown                                                                *)

Takes(c) ==
    /\ process # "gone" /\ At(c) = "lock" /\ holder = "none"
    /\ holder' = c
    /\ Goes(c, "check")
    /\ UNCHANGED shutPhase /\ Rest

\* mutant: the phase is not checked
ChecksNothing(c) ==
    /\ process # "gone" /\ At(c) = "check"
    /\ shutPhase' = "DRAINING" /\ Goes(c, "start") /\ UNCHANGED holder
    /\ Rest

Checks(c) ==
    /\ process # "gone" /\ At(c) = "check"
    /\ IF shutPhase = "RUNNING"
       THEN shutPhase' = "DRAINING" /\ Goes(c, "start") /\ UNCHANGED holder
       ELSE holder' = "none" /\ Returns(c) /\ UNCHANGED shutPhase
    /\ Rest

(* The start is logged and the lock released, also when logging raises,    *)
(* which leaves the phase where it is.                                     *)
LogsStart(c) ==
    /\ process # "gone" /\ At(c) = "start"
    /\ holder' = "none"
    /\ \/ /\ shutLog' = "shutdown_start"
          /\ Goes(c, "flush")
          /\ UNCHANGED raisedAt
       \/ /\ raisedAt' = raisedAt \cup {"start"}
          /\ Raises(c)
          /\ UNCHANGED shutLog
    /\ UNCHANGED <<shutPhase, registered, turn, ran, due, process, caught>>

(* What is registered now will be run, the last one first.                 *)
Flushes(c) ==
    /\ process # "gone" /\ At(c) = "flush"
    /\ shutPhase' = "FLUSHING"
    /\ turn' = registered /\ due' = registered
    /\ Goes(c, "callback")
    /\ UNCHANGED <<holder, registered, ran, shutLog, raisedAt, process, caught>>

RunsCallback(c) ==
    /\ process # "gone" /\ At(c) = "callback" /\ turn > 0
    /\ ran' = Append(ran, turn)
    /\ turn' = turn - 1
    /\ UNCHANGED <<shutPhase, holder, frames, worker, registered, due, shutLog, raisedAt, process, caught>>

Stops(c) ==
    /\ process # "gone" /\ At(c) = "callback" /\ turn = 0
    /\ shutPhase' = "STOPPED"
    /\ Goes(c, "clean")
    /\ UNCHANGED holder /\ Rest

LogsClean(c) ==
    /\ process # "gone" /\ At(c) = "clean"
    /\ \/ shutLog' = "clean_shutdown" /\ Returns(c) /\ UNCHANGED raisedAt
       \/ raisedAt' = raisedAt \cup {"clean"} /\ Raises(c) /\ UNCHANGED shutLog
    /\ UNCHANGED <<shutPhase, holder, registered, turn, ran, due, process, caught>>

CallSteps(c) ==
    \/ Takes(c) \/ Checks(c) \/ LogsStart(c) \/ Flushes(c)
    \/ RunsCallback(c) \/ Stops(c) \/ LogsClean(c)

ShutNext ==
    \/ Register \/ MainCalls \/ WorkerCalls \/ Atexit \/ Gone
    \/ \E c \in Callers : CallSteps(c)

ShutSpec == ShutInit /\ [][ShutNext]_shutVars

-----------------------------------------------------------------------------
(* Properties                                                              *)

\* the calls that have passed the check
Past == {"start", "flush", "callback", "clean"}
MainPast == {i \in 1..Len(frames) : frames[i] \in Past}

(* Whoever calls shutdown, and wherever signals interrupt it: the          *)
(* callbacks registered when the flush began run at most once each, the    *)
(* last registered first, and the log says clean_shutdown only after all   *)
(* of them; a shutdown that has begun and not ended has a call at it,      *)
(* unless logging its start raised; and a signal that interrupts the main  *)
(* thread while it holds the lock hangs it: the lock is never released,    *)
(* whatever the thread was doing stops there, and the process does not end.*)
ShutdownOrderly ==
    /\ \A i \in 1..Len(ran) : ran[i] = due + 1 - i
    /\ shutLog = "clean_shutdown" => Len(ran) = due
    /\ shutPhase \in {"DRAINING", "FLUSHING"} =>
          worker \in Past \/ MainPast # {} \/ "start" \in raisedAt
    /\ caught => holder = "main" /\ At("main") = "lock" /\ process # "gone"
=============================================================================
