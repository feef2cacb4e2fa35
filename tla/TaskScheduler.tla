---------------------------- MODULE TaskScheduler ----------------------------
(***************************************************************************)
(* The scheduler of planning/scheduler.py, driven by one loop that calls   *)
(* run_due_tasks again and again, as its comment asks. A call lists the    *)
(* due tasks once, then awaits them one after the other; between two of    *)
(* them anything else may call schedule, cancel or cleanup_completed. What *)
(* the list says may be stale by the time its turn comes.                  *)
(*                                                                         *)
(* Time is abstract: a task's next_run has come or has not. A task's       *)
(* function is external: it returns, or raises or times out. _running is   *)
(* never filled by the code, so a call is limited only by max_concurrent.  *)
(***************************************************************************)
EXTENDS Integers, Sequences, FiniteSets

CONSTANTS
    Tasks,          \* the tasks that may be scheduled
    Recurring,      \* those with an interval
    Urgent,         \* those of the higher of two priorities
    MaxRetries,     \* max_retries of every task
    MaxConcurrent,  \* max_concurrent
    MaxRuns,        \* bound on the runs of each task
    NoTask          \* no task

ASSUME SchedulerAssumption ==
    /\ Recurring \subseteq Tasks /\ Urgent \subseteq Tasks /\ IsFiniteSet(Tasks)
    /\ MaxRetries \in Nat /\ MaxConcurrent \in Nat \ {0} /\ MaxRuns \in Nat
    /\ NoTask \notin Tasks

VARIABLES
    status,      \* status[t], or "none" while it was never scheduled
    kept,        \* the tasks in _tasks
    comes,       \* the tasks whose next_run has come
    retries,     \* retry_count
    todo,        \* what is left of the list of the call under way
    current,     \* the task it awaits, or NoTask
    runs,        \* history: runs[t]: how often t was started
    successes,   \* history: how often it returned
    failures,    \* history: how often it raised or timed out
    called       \* history: called[t]: "no", or when cancel returned True:
                 \* "idle", or "listed" when the call under way had it to do

schedVars == <<status, kept, comes, retries, todo, current, runs, successes, failures, called>>
historyVars == <<runs, successes, failures, called>>

Finished == {"COMPLETED", "FAILED", "CANCELLED"}
Listed(t) == \E i \in 1..Len(todo) : todo[i] = t

SchedTypeOK ==
    /\ status \in [Tasks -> Finished \cup {"none", "PENDING", "RUNNING"}]
    /\ kept \subseteq Tasks /\ comes \subseteq Tasks
    /\ retries \in [Tasks -> Nat]
    /\ todo \in Seq(Tasks)
    /\ current \in Tasks \cup {NoTask}
    /\ runs \in [Tasks -> Nat] /\ successes \in [Tasks -> Nat] /\ failures \in [Tasks -> Nat]
    /\ called \in [Tasks -> {"no", "idle", "listed"}]

SchedInit ==
    /\ status = [t \in Tasks |-> "none"] /\ kept = {} /\ comes = {}
    /\ retries = [t \in Tasks |-> 0]
    /\ todo = <<>> /\ current = NoTask
    /\ runs = [t \in Tasks |-> 0] /\ successes = [t \in Tasks |-> 0]
    /\ failures = [t \in Tasks |-> 0]
    /\ called = [t \in Tasks |-> "no"]

-----------------------------------------------------------------------------
(* Around the loop                                                         *)

(* schedule: the task is PENDING, due after its delay.                     *)
Schedule(t) ==
    /\ status[t] = "none"
    /\ status' = [status EXCEPT ![t] = "PENDING"]
    /\ kept' = kept \cup {t}
    /\ UNCHANGED <<comes, retries, todo, current, historyVars>>

(* The time of a task comes.                                               *)
Comes(t) ==
    /\ status[t] = "PENDING" /\ t \notin comes
    /\ comes' = comes \cup {t}
    /\ UNCHANGED <<status, kept, retries, todo, current, historyVars>>

Cancellable == {t \in kept : status[t] = "PENDING"}

(* cancel, and cancel_all: a task that runs or has FAILED is not           *)
(* cancelled; one that waits in the list of the call under way is.         *)
Cancel(ts) ==
    /\ ts # {} /\ ts \subseteq Cancellable
    /\ status' = [t \in Tasks |-> IF t \in ts THEN "CANCELLED" ELSE status[t]]
    /\ called' = [t \in Tasks |-> IF t \notin ts THEN called[t]
                                  ELSE IF Listed(t) THEN "listed" ELSE "idle"]
    /\ UNCHANGED <<kept, comes, retries, todo, current, runs, successes, failures>>

(* cleanup_completed, a day later: the finished tasks leave the table, not *)
(* the list of a call under way.                                           *)
Cleanup(ts) ==
    /\ ts # {} /\ ts \subseteq {t \in kept : status[t] \in Finished}
    /\ kept' = kept \ ts
    /\ UNCHANGED <<status, comes, retries, todo, current, historyVars>>

-----------------------------------------------------------------------------
(* run_due_tasks                                                           *)

\* mutant: a cancelled task is due like any other
DueEvenCancelled(t) == t \in kept /\ status[t] # "COMPLETED" /\ t \in comes

(* is_due: any task that is neither CANCELLED nor COMPLETED, so one that   *)
(* FAILED, or was left RUNNING, is due again.                              *)
Due(t) == t \in kept /\ status[t] \notin {"CANCELLED", "COMPLETED"} /\ t \in comes

(* get_due_tasks, cut to max_concurrent: a list of distinct due tasks, the *)
(* urgent ones first, and none left out for one of a lower priority.       *)
DueLists ==
    LET due == {t \in Tasks : Due(t)}
        size == IF Cardinality(due) < MaxConcurrent THEN Cardinality(due) ELSE MaxConcurrent
    IN  {list \in [1..size -> due] :
            /\ \A i, j \in 1..size : i < j =>
                   list[i] # list[j] /\ (list[j] \in Urgent => list[i] \in Urgent)
            /\ \A t \in due \cap Urgent :
                   (\E i \in 1..size : list[i] \notin Urgent) => \E i \in 1..size : list[i] = t}

CallLoop ==
    /\ todo = <<>> /\ current = NoTask
    /\ \E list \in DueLists : list # <<>> /\ todo' = list
    /\ UNCHANGED <<status, kept, comes, retries, current, historyVars>>

(* The next task of the list starts, whatever became of it since.          *)
StartTask ==
    /\ todo # <<>> /\ current = NoTask
    /\ LET t == Head(todo)
       IN  /\ runs[t] < MaxRuns
           /\ runs' = [runs EXCEPT ![t] = @ + 1]
           /\ status' = [status EXCEPT ![t] = "RUNNING"]
           /\ current' = t
    /\ todo' = Tail(todo)
    /\ UNCHANGED <<kept, comes, retries, successes, failures, called>>

(* It returns: COMPLETED, or PENDING for its next interval.                *)
TaskReturns ==
    /\ current # NoTask
    /\ status' = [status EXCEPT ![current] =
                      IF current \in Recurring THEN "PENDING" ELSE "COMPLETED"]
    /\ comes' = IF current \in Recurring THEN comes \ {current} ELSE comes
    /\ successes' = [successes EXCEPT ![current] = @ + 1]
    /\ current' = NoTask
    /\ UNCHANGED <<kept, retries, todo, runs, failures, called>>

(* It raises or times out: PENDING for a retry, or FAILED. The retries of  *)
(* a task are counted over its life, its successes do not reset them.      *)
TaskFails ==
    /\ current # NoTask
    /\ retries' = [retries EXCEPT ![current] = @ + 1]
    /\ status' = [status EXCEPT ![current] =
                      IF retries[current] < MaxRetries THEN "PENDING" ELSE "FAILED"]
    /\ comes' = IF retries[current] < MaxRetries THEN comes \ {current} ELSE comes
    /\ failures' = [failures EXCEPT ![current] = @ + 1]
    /\ current' = NoTask
    /\ UNCHANGED <<kept, todo, runs, successes, called>>

(* The loop's own task is cancelled: the call is abandoned, and the task   *)
(* it awaited is left RUNNING.                                             *)
LoopCancelled ==
    /\ current # NoTask
    /\ todo' = <<>> /\ current' = NoTask
    /\ UNCHANGED <<status, kept, comes, retries, historyVars>>

SchedNext ==
    \/ \E t \in Tasks : Schedule(t) \/ Comes(t)
    \/ \E ts \in SUBSET Tasks : Cancel(ts) \/ Cleanup(ts)
    \/ CallLoop \/ StartTask \/ TaskReturns \/ TaskFails \/ LoopCancelled

SchedSpec == SchedInit /\ [][SchedNext]_schedVars

-----------------------------------------------------------------------------
(* Properties                                                              *)

(* A cancel that found the task out of the running list is final.          *)
IdleCancelIsFinal == \A t \in Tasks : called[t] = "idle" => status[t] = "CANCELLED"

(* A task without an interval returns at most once.                        *)
OneTimeReturnsOnce == \A t \in Tasks \ Recurring : successes[t] <= 1

(* A task is given up only after max_retries, and every failure counts,    *)
(* whatever came in between.                                               *)
FailuresCounted ==
    \A t \in Tasks :
        /\ retries[t] = failures[t]
        /\ status[t] = "FAILED" => retries[t] > MaxRetries

(* SchedulerHonest: what cancel, COMPLETED and FAILED promise, against     *)
(* the stale list of a call under way (scheduler.py:145-161, 189-243).     *)
SchedulerHonest == IdleCancelIsFinal /\ OneTimeReturnsOnce /\ FailuresCounted

-----------------------------------------------------------------------------
(* The inductive invariant                                                 *)

\* what a call has still to do, or does: a stale list can bring it back
InCall(t) == Listed(t) \/ current = t

(* A call does each task of its list once, and awaits one that is RUNNING; *)
(* a task that was cancelled outside a call, or that completed, is in no   *)
(* call any more.                                                          *)
CallInv ==
    /\ \A i, j \in 1..Len(todo) : todo[i] = todo[j] => i = j
    /\ current # NoTask => status[current] = "RUNNING" /\ ~Listed(current)
    /\ \A t \in Tasks : called[t] = "idle" => ~InCall(t)
    /\ \A t \in Tasks \ Recurring :
           successes[t] > 0 => status[t] = "COMPLETED" /\ ~InCall(t)

SchedIInv == SchedTypeOK /\ CallInv /\ SchedulerHonest

=============================================================================
