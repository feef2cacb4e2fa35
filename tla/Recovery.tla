------------------------------ MODULE Recovery ------------------------------
(***************************************************************************)
(* Crash recovery (infrastructure/recovery.py): operations executed under  *)
(* an idempotency key, with their records in a database that survives a    *)
(* crash, and the shutdown log from which the next start tells whether the *)
(* previous run crashed.                                                   *)
(*                                                                         *)
(* Threads call execute at the same time. A step of a call is one access   *)
(* to the database or one run of the handler, whose effect is external     *)
(* (an order is placed). The process may crash between any two steps.      *)
(*                                                                         *)
(* The records of a key are kept in the order in which a lookup by key     *)
(* meets them: saving replaces the row, which puts it behind the others.   *)
(* Snapshots and order reconciliation are in module OrderRecovery.         *)
(***************************************************************************)
EXTENDS Integers, Sequences, FiniteSets, SequencesExt

CONSTANTS
    Keys,         \* idempotency keys
    Threads,      \* the threads that call execute
    MaxRetries,   \* max_retries
    MaxCalls,     \* bound on the calls of execute
    MaxCrashes,   \* bound on the ends of the process, by crash or exit
    NoKey         \* no key: not a member of Keys

ASSUME RecoveryAssumption ==
    /\ MaxRetries \in Nat \ {0}
    /\ MaxCalls \in Nat /\ MaxCrashes \in Nat
    /\ IsFiniteSet(Threads)
    /\ NoKey \notin Keys

VARIABLES
    rows,        \* database: rows[k], the operation records of key k
    log,         \* database: the last event of the shutdown log
    up,          \* the process runs
    phase,       \* ShutdownManager._phase
    call,        \* call[t]: the execute call of thread t
    calls,       \* calls of execute so far
    crashes,     \* ends of the process so far
    effects,     \* external: effects[k], how often a handler of k took effect
    returned,    \* history: keys for which some call returned COMPLETED
    overlapped,  \* history: keys that two calls executed at the same time
    excused      \* history: excused[k], effects of k whose call did not learn of them

vars == <<rows, log, up, phase, call, calls, crashes, effects, returned, overlapped, excused>>

Statuses == {"IN_PROGRESS", "COMPLETED", "FAILED"}
Phases == {"RUNNING", "DRAINING", "FLUSHING", "STOPPED"}

\* an operation record: op identifies it, by the thread that created it
Row == [op : Threads, status : Statuses]

\* where a call stands: "begin" before its record is saved, "run" before the
\* handler, "done" and "raised" after it, "failed" when no retry is left
Pcs == {"idle", "begin", "run", "done", "raised", "failed"}

Idle == [pc |-> "idle", key |-> NoKey, op |-> NoKey, status |-> "IN_PROGRESS", tries |-> 0]

TypeOK ==
    /\ DOMAIN rows = Keys /\ DOMAIN call = Threads
    /\ \A k \in Keys : rows[k] \in Seq(Row)
    /\ log \in {"none", "startup", "shutdown_start", "clean_shutdown"}
    /\ up \in BOOLEAN
    /\ phase \in Phases
    /\ \A t \in Threads :
          \/ call[t] = Idle
          \/ call[t] \in [pc : Pcs \ {"idle"}, key : Keys, op : Threads, status : Statuses,
                          tries : 0..(MaxRetries - 1)]
    /\ calls \in 0..MaxCalls /\ crashes \in 0..MaxCrashes
    /\ effects \in [Keys -> Nat] /\ excused \in [Keys -> Nat]
    /\ returned \subseteq Keys /\ overlapped \subseteq Keys

Init ==
    /\ rows = [k \in Keys |-> <<>>]
    /\ log = "none"
    /\ up = FALSE
    /\ phase = "RUNNING"
    /\ call = [t \in Threads |-> Idle]
    /\ calls = 0 /\ crashes = 0
    /\ effects = [k \in Keys |-> 0]
    /\ returned = {} /\ overlapped = {}
    /\ excused = [k \in Keys |-> 0]

-----------------------------------------------------------------------------
(* IdempotentExecutor.execute                                              *)

\* mutant: INSERT without OR REPLACE
SavedAppended(q, r) == Append(q, r)

\* save_operation: INSERT OR REPLACE of record r in the rows q
Saved(q, r) ==
    IF \E i \in 1..Len(q) : q[i].op = r.op
    THEN Append(RemoveAt(q, CHOOSE i \in 1..Len(q) : q[i].op = r.op), r)
    ELSE Append(q, r)

Save(t, status) ==
    rows' = [rows EXCEPT ![call[t].key] = Saved(@, [op |-> call[t].op, status |-> status])]

\* mutant: a completed record is not recognised
LookupBlind(t, k) ==
    /\ up /\ calls < MaxCalls
    /\ call[t] = Idle
    /\ calls' = calls + 1
    /\ call' = [call EXCEPT ![t] =
                  [pc |-> "begin", key |-> k, status |-> "IN_PROGRESS", tries |-> 0,
                   op |-> IF rows[k] = <<>> THEN t ELSE Head(rows[k]).op]]
    /\ overlapped' = IF \E u \in Threads : call[u].key = k THEN overlapped \cup {k} ELSE overlapped
    /\ UNCHANGED <<rows, log, up, phase, crashes, effects, returned, excused>>

(* The lookup by key: a completed record is returned as it is, another one *)
(* is executed again, and without one a record is created.                 *)
Lookup(t, k) ==
    /\ up /\ calls < MaxCalls
    /\ call[t] = Idle
    /\ calls' = calls + 1
    /\ IF rows[k] # <<>> /\ Head(rows[k]).status = "COMPLETED"
       THEN /\ returned' = returned \cup {k}
            /\ UNCHANGED call
       ELSE /\ call' = [call EXCEPT ![t] =
                          [pc |-> "begin", key |-> k, status |-> "IN_PROGRESS", tries |-> 0,
                           op |-> IF rows[k] = <<>> THEN t ELSE Head(rows[k]).op]]
            /\ UNCHANGED returned
    /\ overlapped' = IF \E u \in Threads : call[u].key = k THEN overlapped \cup {k} ELSE overlapped
    /\ UNCHANGED <<rows, log, up, phase, crashes, effects, excused>>

(* The record is saved as IN_PROGRESS.                                     *)
Begin(t) ==
    /\ call[t].pc = "begin"
    /\ Save(t, "IN_PROGRESS")
    /\ call' = [call EXCEPT ![t].pc = "run"]
    /\ UNCHANGED <<log, up, phase, calls, crashes, effects, returned, overlapped, excused>>

(* The handler takes effect and returns ...                                *)
HandlerReturns(t) ==
    /\ call[t].pc = "run"
    /\ effects' = [effects EXCEPT ![call[t].key] = @ + 1]
    /\ call' = [call EXCEPT ![t].pc = "done", ![t].status = "COMPLETED"]
    /\ UNCHANGED <<rows, log, up, phase, calls, crashes, returned, overlapped, excused>>

(* ... or raises, after it took effect (a timeout) or before.              *)
HandlerRaises(t) ==
    /\ call[t].pc = "run"
    /\ \E n \in {0, 1} :
          /\ effects' = [effects EXCEPT ![call[t].key] = @ + n]
          /\ excused' = [excused EXCEPT ![call[t].key] = @ + n]
    /\ call' = [call EXCEPT ![t].pc = "raised"]
    /\ UNCHANGED <<rows, log, up, phase, calls, crashes, returned, overlapped>>

(* The result is saved, and the call returns it.                           *)
SaveDone(t) ==
    /\ call[t].pc = "done"
    /\ Save(t, "COMPLETED")
    /\ call' = [call EXCEPT ![t] = Idle]
    /\ returned' = returned \cup {call[t].key}
    /\ UNCHANGED <<log, up, phase, calls, crashes, effects, overlapped, excused>>

(* Saving the result raises: the save stands in the try block of the       *)
(* handler, so this counts as a failure of the handler.                    *)
SaveDoneRaises(t) ==
    /\ call[t].pc = "done"
    /\ call' = [call EXCEPT ![t].pc = "raised"]
    /\ excused' = [excused EXCEPT ![call[t].key] = @ + 1]
    /\ UNCHANGED <<rows, log, up, phase, calls, crashes, effects, returned, overlapped>>

\* mutant: the record of a failed attempt is saved as COMPLETED
SaveRaisedCompleted(t) ==
    /\ call[t].pc = "raised"
    /\ Save(t, "COMPLETED")
    /\ call' = [call EXCEPT ![t] =
                  IF @.tries < MaxRetries - 1 THEN [@ EXCEPT !.pc = "run", !.tries = call[t].tries + 1]
                  ELSE [@ EXCEPT !.pc = "failed"]]
    /\ UNCHANGED <<log, up, phase, calls, crashes, effects, returned, overlapped, excused>>

(* The failed attempt is saved, with the status the record has in memory,  *)
(* and the handler tried again while retries are left.                     *)
SaveRaised(t) ==
    /\ call[t].pc = "raised"
    /\ Save(t, call[t].status)
    /\ call' = [call EXCEPT ![t] =
                  IF @.tries < MaxRetries - 1 THEN [@ EXCEPT !.pc = "run", !.tries = call[t].tries + 1]
                  ELSE [@ EXCEPT !.pc = "failed"]]
    /\ UNCHANGED <<log, up, phase, calls, crashes, effects, returned, overlapped, excused>>

(* No retry is left: the call returns a FAILED record.                     *)
SaveFailed(t) ==
    /\ call[t].pc = "failed"
    /\ Save(t, "FAILED")
    /\ call' = [call EXCEPT ![t] = Idle]
    /\ UNCHANGED <<log, up, phase, calls, crashes, effects, returned, overlapped, excused>>

-----------------------------------------------------------------------------
(* Start, shutdown and crash                                               *)

Startup ==
    /\ ~up
    /\ up' = TRUE
    /\ phase' = "RUNNING"
    /\ log' = "startup"
    /\ UNCHANGED <<rows, call, calls, crashes, effects, returned, overlapped, excused>>

(* ShutdownManager.shutdown: the phases follow one another without waiting *)
(* for any call of execute, and no phase keeps a call from starting.       *)
ShutdownStart ==
    /\ up /\ phase = "RUNNING"
    /\ phase' = "DRAINING"
    /\ log' = "shutdown_start"
    /\ UNCHANGED <<rows, up, call, calls, crashes, effects, returned, overlapped, excused>>

ShutdownFlush ==
    /\ up /\ phase = "DRAINING"
    /\ phase' = "FLUSHING"
    /\ UNCHANGED <<rows, log, up, call, calls, crashes, effects, returned, overlapped, excused>>

ShutdownStop ==
    /\ up /\ phase = "FLUSHING"
    /\ phase' = "STOPPED"
    /\ log' = "clean_shutdown"
    /\ UNCHANGED <<rows, up, call, calls, crashes, effects, returned, overlapped, excused>>

\* calls of k whose handler took effect and that have not saved it yet
Unsaved(k) == {t \in Threads : call[t].key = k /\ call[t].pc = "done"}

(* The process ends, by a crash at any time or by its exit, and the calls  *)
(* under way end with it.                                                  *)
Crash ==
    /\ up /\ crashes < MaxCrashes
    /\ up' = FALSE
    /\ crashes' = crashes + 1
    /\ excused' = [k \in Keys |-> excused[k] + Cardinality(Unsaved(k))]
    /\ call' = [t \in Threads |-> Idle]
    /\ UNCHANGED <<rows, log, phase, calls, effects, returned, overlapped>>

Next ==
    \/ \E t \in Threads :
          \/ \E k \in Keys : Lookup(t, k)
          \/ Begin(t) \/ HandlerReturns(t) \/ HandlerRaises(t)
          \/ SaveDone(t) \/ SaveDoneRaises(t) \/ SaveRaised(t) \/ SaveFailed(t)
    \/ Startup \/ ShutdownStart \/ ShutdownFlush \/ ShutdownStop \/ Crash

Spec == Init /\ [][Next]_vars

-----------------------------------------------------------------------------
(* Properties                                                              *)

(* A COMPLETED record tells the truth: before any call returns one, a      *)
(* handler of that key took effect, whatever crashed or overlapped; and    *)
(* records and calls keep their types.                                     *)
CompletedTookEffect == TypeOK /\ \A k \in returned : effects[k] >= 1

(* Once a call has returned COMPLETED, the handler of that key does not    *)
(* run again, in this run of the process or a later one, as long as the    *)
(* calls of the key do not overlap.                                        *)
CompletedIsFinal ==
    \A t \in Threads : call[t].key \in returned \ overlapped => call[t].pc = "idle"

(* Every effect beyond the first is one that no record could tell of: the  *)
(* handler raised after it, saving the result failed, or the process       *)
(* crashed in between. The executor itself repeats nothing.                *)
RepeatsAreExcused ==
    \A k \in Keys \ overlapped : effects[k] <= 1 + excused[k]

(* The shutdown manager drains in-flight work (its docstring): when the    *)
(* log says clean_shutdown no operation is under way. Violated: no phase   *)
(* of shutdown waits, or keeps new calls out.                              *)
CleanShutdownIsDrained ==
    log = "clean_shutdown" => \A t \in Threads : call[t] = Idle
=============================================================================
