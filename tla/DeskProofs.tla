----------------------------- MODULE DeskProofs -----------------------------
(***************************************************************************)
(* Proofs about parts of the trading desk, each for any tasks, strategies, *)
(* orders, prices and limits that satisfy the assumption of its module.    *)
(***************************************************************************)
EXTENDS TaskScheduler, StrategyLifecycle, RiskDesk, OrderManager, TradeBooks,
        PaperBackend, BacktestRun, StrategyAgents, StrategyAllocation, Induction


-----------------------------------------------------------------------------
(* TaskScheduler                                                           *)

(* A call lists known tasks, none of them twice, and each of them is due.  *)
LEMMA DueListType ==
    ASSUME NEW list \in DueLists
    PROVE  /\ list \in Seq(Tasks)
           /\ \A i \in 1..Len(list) : Due(list[i])
           /\ \A i, j \in 1..Len(list) : list[i] = list[j] => i = j
<1> DEFINE due == {t \in Tasks : Due(t)}
           size == IF Cardinality(due) < MaxConcurrent THEN Cardinality(due) ELSE MaxConcurrent
<1>1. IsFiniteSet(due)
  BY FS_Subset, SchedulerAssumption
<1>2. size \in Nat
  BY <1>1, FS_CardinalityType, SchedulerAssumption
<1>3. /\ list \in [1..size -> due]
      /\ \A i, j \in 1..size : i < j => list[i] # list[j]
  BY DEF DueLists
<1> HIDE DEF size
<1>4. list \in Seq(Tasks) /\ Len(list) = size
  BY <1>2, <1>3
<1>5. \A i \in 1..Len(list) : Due(list[i])
  BY <1>3, <1>4
<1>6. ASSUME NEW i \in 1..Len(list), NEW j \in 1..Len(list), list[i] = list[j]
      PROVE  i = j
  <2>1. ~(i < j) /\ ~(j < i)
    BY <1>3, <1>4, <1>6
  <2> QED BY <1>2, <1>4, <2>1
<1> QED BY <1>4, <1>5, <1>6

(* The invariant holds initially.                                          *)
LEMMA SchedInitIInv == SchedInit => SchedIInv
BY SchedulerAssumption
   DEF SchedInit, SchedIInv, SchedTypeOK, CallInv, SchedulerHonest, IdleCancelIsFinal,
       OneTimeReturnsOnce, FailuresCounted, InCall, Listed

(* Calls from outside the loop: a cancellation sees the list as it is.     *)
LEMMA CancelIInv ==
    ASSUME SchedIInv, NEW ts \in SUBSET Tasks, Cancel(ts)
    PROVE  SchedIInv'
<1> USE DEF SchedIInv
<1>1. SchedTypeOK'
  BY DEF Cancel, Cancellable, SchedTypeOK, Finished
<1>2. \A t \in Tasks : Listed(t)' = Listed(t) /\ InCall(t)' = InCall(t)
  BY DEF Cancel, Listed, InCall
<1>3. \A t \in ts : status[t] = "PENDING" /\ t \in Tasks
  BY DEF Cancel, Cancellable
<1>4. CallInv'
  <2>1. current # NoTask => status'[current] = "RUNNING" /\ ~Listed(current)
    BY <1>3 DEF Cancel, CallInv, SchedTypeOK
  <2>2. \A t \in Tasks : called'[t] = "idle" => ~InCall(t)
    <3>1. SUFFICES ASSUME NEW t \in Tasks, called'[t] = "idle" PROVE ~InCall(t)
      OBVIOUS
    <3>2. CASE t \in ts
      <4>1. ~Listed(t)
        BY <3>1, <3>2 DEF Cancel
      <4>2. current # t
        BY <1>3, <3>2, SchedulerAssumption DEF CallInv
      <4> QED BY <4>1, <4>2 DEF InCall
    <3>3. CASE t \notin ts
      BY <3>1, <3>3 DEF Cancel, CallInv
    <3> QED BY <3>2, <3>3
  <2>3. \A t \in Tasks \ Recurring :
            successes[t] > 0 => status'[t] = "COMPLETED" /\ ~InCall(t)
    BY <1>3 DEF Cancel, CallInv, SchedTypeOK
  <2> QED BY <1>2, <2>1, <2>2, <2>3 DEF Cancel, CallInv, Listed
<1>5. SchedulerHonest'
  BY <1>3 DEF Cancel, SchedulerHonest, IdleCancelIsFinal, OneTimeReturnsOnce,
              FailuresCounted, SchedTypeOK
<1> QED BY <1>1, <1>4, <1>5

(* A new call lists due tasks only: none that was cancelled or completed.  *)
LEMMA CallLoopIInv == SchedIInv /\ CallLoop => SchedIInv'
<1> SUFFICES ASSUME SchedIInv, CallLoop PROVE SchedIInv'
  OBVIOUS
<1> USE DEF SchedIInv
<1>1. PICK list \in DueLists : todo' = list
  BY DEF CallLoop
<1>2. SchedTypeOK'
  BY <1>1, DueListType DEF CallLoop, SchedTypeOK, historyVars
<1>3. \A t \in Tasks : InCall(t)' => Due(t)
  BY <1>1, DueListType, SchedulerAssumption DEF CallLoop, InCall, Listed
<1>4. CallInv'
  <2>1. \A t \in Tasks : called[t] = "idle" => ~InCall(t)'
    BY <1>3 DEF Due, SchedulerHonest, IdleCancelIsFinal
  <2>2. \A t \in Tasks \ Recurring :
            successes[t] > 0 => status[t] = "COMPLETED" /\ ~InCall(t)'
    BY <1>3 DEF Due, CallInv
  <2> QED BY <1>1, <2>1, <2>2, DueListType DEF CallLoop, CallInv, historyVars
<1>5. SchedulerHonest'
  BY DEF CallLoop, historyVars, SchedulerHonest, IdleCancelIsFinal, OneTimeReturnsOnce,
         FailuresCounted
<1> QED BY <1>2, <1>4, <1>5

(* The head of the list starts, whatever its status says: it is no task    *)
(* whose cancellation found it outside a call, and none that completed.    *)
LEMMA StartTaskIInv == SchedIInv /\ StartTask => SchedIInv'
<1> SUFFICES ASSUME SchedIInv, StartTask PROVE SchedIInv'
  OBVIOUS
<1> USE DEF SchedIInv
<1> DEFINE h == Head(todo)
<1>1. /\ todo \in Seq(Tasks) /\ todo # <<>> /\ h = todo[1] /\ h \in Tasks
      /\ todo' = Tail(todo) /\ current' = h /\ current = NoTask
      /\ status' = [status EXCEPT ![h] = "RUNNING"]
      /\ runs' = [runs EXCEPT ![h] = @ + 1]
  BY DEF StartTask, SchedTypeOK
<1>2. /\ Len(todo) \in Nat /\ Len(todo) >= 1 /\ Len(Tail(todo)) = Len(todo) - 1
      /\ Tail(todo) \in Seq(Tasks)
      /\ \A i \in 1..(Len(todo) - 1) : Tail(todo)[i] = todo[i + 1]
  BY <1>1
<1>3. SchedTypeOK'
  <2>1. status' \in [Tasks -> Finished \cup {"none", "PENDING", "RUNNING"}]
    BY <1>1 DEF SchedTypeOK
  <2>2. runs' \in [Tasks -> Nat]
    BY <1>1 DEF SchedTypeOK
  <2> QED BY <1>1, <1>2, <2>1, <2>2 DEF StartTask, SchedTypeOK
<1>4. \A t \in Tasks : Listed(t)' => Listed(t) /\ t # h
  <2>1. SUFFICES ASSUME NEW t \in Tasks, NEW i \in 1..(Len(todo) - 1), todo[i + 1] = t
                 PROVE  Listed(t) /\ t # h
    BY <1>1, <1>2 DEF Listed
  <2>2. i + 1 \in 1..Len(todo) /\ 1 \in 1..Len(todo) /\ i + 1 # 1
    BY <1>2
  <2> QED BY <1>1, <2>1, <2>2 DEF Listed, CallInv
<1>5. Listed(h)
  BY <1>1, <1>2 DEF Listed
<1>6. \A t \in Tasks : InCall(t)' => InCall(t)
  BY <1>1, <1>4, <1>5 DEF InCall
<1>7. CallInv'
  <2>1. \A i, j \in 1..Len(todo') : todo'[i] = todo'[j] => i = j
    <3>1. SUFFICES ASSUME NEW i \in 1..(Len(todo) - 1), NEW j \in 1..(Len(todo) - 1),
                          todo[i + 1] = todo[j + 1]
                   PROVE  i = j
      BY <1>1, <1>2
    <3>2. i + 1 \in 1..Len(todo) /\ j + 1 \in 1..Len(todo)
      BY <1>2
    <3>3. i + 1 = j + 1
      BY <3>1, <3>2 DEF CallInv
    <3> QED BY <3>3
  <2>2. status'[current'] = "RUNNING" /\ ~Listed(current)'
    <3>1. \A t \in Tasks : t = h => ~Listed(t)'
      BY <1>4
    <3> QED BY <1>1, <3>1 DEF SchedTypeOK, Listed
  <2>3. \A t \in Tasks : called'[t] = "idle" => ~InCall(t)'
    BY <1>6 DEF StartTask, CallInv
  <2>4. \A t \in Tasks \ Recurring :
            successes'[t] > 0 => status'[t] = "COMPLETED" /\ ~InCall(t)'
    BY <1>1, <1>5, <1>6 DEF StartTask, CallInv, InCall
  <2> QED BY <2>1, <2>2, <2>3, <2>4 DEF CallInv
<1>8. SchedulerHonest'
  <2>1. called[h] # "idle"
    BY <1>1, <1>5 DEF CallInv, InCall
  <2> QED BY <1>1, <2>1 DEF StartTask, SchedTypeOK, SchedulerHonest, IdleCancelIsFinal,
                            OneTimeReturnsOnce, FailuresCounted
<1> QED BY <1>3, <1>7, <1>8

(* The task awaited ends: it is in the call no more, and a task without an *)
(* interval had not returned before.                                       *)
LEMMA TaskEndsIInv == SchedIInv /\ (TaskReturns \/ TaskFails) => SchedIInv'
<1> SUFFICES ASSUME SchedIInv, TaskReturns \/ TaskFails PROVE SchedIInv'
  OBVIOUS
<1> USE DEF SchedIInv
<1>1. /\ current \in Tasks /\ current' = NoTask /\ todo' = todo /\ called' = called
      /\ NoTask \notin Tasks /\ ~Listed(current) /\ MaxRetries \in Nat
  BY SchedulerAssumption DEF TaskReturns, TaskFails, SchedTypeOK, CallInv
<1>2. /\ called[current] # "idle"
      /\ current \notin Recurring => successes[current] = 0
  <2>1. InCall(current)
    BY DEF InCall
  <2> QED BY <1>1, <2>1 DEF CallInv, SchedTypeOK
<1>3. SchedTypeOK'
  <2>1. /\ status' \in [Tasks -> Finished \cup {"none", "PENDING", "RUNNING"}]
        /\ comes' \subseteq Tasks /\ UNCHANGED <<kept, runs>>
    BY <1>1 DEF TaskReturns, TaskFails, SchedTypeOK, Finished
  <2>2. /\ retries' \in [Tasks -> Nat] /\ successes' \in [Tasks -> Nat]
        /\ failures' \in [Tasks -> Nat]
    <3>1. CASE TaskReturns
      BY <1>1, <3>1 DEF TaskReturns, SchedTypeOK
    <3>2. CASE TaskFails
      BY <1>1, <3>2 DEF TaskFails, SchedTypeOK
    <3> QED BY <3>1, <3>2
  <2> QED BY <1>1, <2>1, <2>2 DEF SchedTypeOK
<1>4. \A t \in Tasks : InCall(t)' => InCall(t) /\ t # current
  BY <1>1 DEF InCall, Listed
<1>5. CallInv'
  <2>1. \A t \in Tasks \ Recurring :
            successes'[t] > 0 => status'[t] = "COMPLETED" /\ ~InCall(t)'
    <3>1. CASE TaskReturns
      BY <1>1, <1>4, <3>1 DEF TaskReturns, CallInv, SchedTypeOK
    <3>2. CASE TaskFails
      BY <1>1, <1>2, <1>4, <3>2 DEF TaskFails, CallInv, SchedTypeOK
    <3> QED BY <3>1, <3>2
  <2> QED BY <1>1, <1>4, <2>1 DEF CallInv
<1>6. IdleCancelIsFinal'
  BY <1>1, <1>2 DEF TaskReturns, TaskFails, SchedulerHonest, IdleCancelIsFinal, SchedTypeOK
<1>7. OneTimeReturnsOnce'
  <2>1. CASE TaskReturns
    BY <1>1, <1>2, <2>1 DEF TaskReturns, SchedulerHonest, OneTimeReturnsOnce, SchedTypeOK
  <2>2. CASE TaskFails
    BY <2>2 DEF TaskFails, SchedulerHonest, OneTimeReturnsOnce
  <2> QED BY <2>1, <2>2
<1>8. FailuresCounted'
  <2>1. CASE TaskReturns
    BY <1>1, <2>1 DEF TaskReturns, SchedulerHonest, FailuresCounted, SchedTypeOK
  <2>2. CASE TaskFails
    BY <1>1, <2>2 DEF TaskFails, SchedulerHonest, FailuresCounted, SchedTypeOK
  <2> QED BY <2>1, <2>2
<1> QED BY <1>3, <1>5, <1>6, <1>7, <1>8 DEF SchedulerHonest

(* Every step of the scheduler keeps the invariant.                        *)
LEMMA SchedNextIInv == SchedIInv /\ [SchedNext]_schedVars => SchedIInv'
<1> SUFFICES ASSUME SchedIInv, [SchedNext]_schedVars PROVE SchedIInv'
  OBVIOUS
<1> USE DEF SchedIInv
<1>1. ASSUME NEW t \in Tasks, Schedule(t) PROVE SchedIInv'
  <2>1. SchedTypeOK'
    BY <1>1 DEF Schedule, SchedTypeOK, historyVars
  <2>2. CallInv'
    BY <1>1 DEF Schedule, CallInv, InCall, Listed, SchedTypeOK, historyVars
  <2>3. SchedulerHonest'
    BY <1>1 DEF Schedule, SchedulerHonest, IdleCancelIsFinal, OneTimeReturnsOnce,
                FailuresCounted, SchedTypeOK, historyVars
  <2> QED BY <2>1, <2>2, <2>3
<1>2. ASSUME \/ \E t \in Tasks : Comes(t)
             \/ \E ts \in SUBSET Tasks : Cleanup(ts)
             \/ LoopCancelled
             \/ UNCHANGED schedVars
      PROVE  SchedIInv'
  <2>1. /\ UNCHANGED <<status, retries, runs, successes, failures, called>>
        /\ kept' \subseteq Tasks /\ comes' \subseteq Tasks
    BY <1>2 DEF Comes, Cleanup, LoopCancelled, schedVars, historyVars, SchedTypeOK
  <2>2. UNCHANGED <<todo, current>> \/ (todo' = <<>> /\ current' = NoTask)
    BY <1>2 DEF Comes, Cleanup, LoopCancelled, schedVars
  <2>5. SchedTypeOK'
    <3>1. todo' \in Seq(Tasks) /\ current' \in Tasks \cup {NoTask}
      <4>1. CASE UNCHANGED <<todo, current>>
        BY <4>1 DEF SchedTypeOK
      <4>2. CASE todo' = <<>> /\ current' = NoTask
        BY <4>2
      <4> QED BY <2>2, <4>1, <4>2
    <3> QED BY <2>1, <3>1 DEF SchedTypeOK
  <2>3. CallInv'
    BY <2>1, <2>2, SchedulerAssumption DEF CallInv, InCall, Listed
  <2>4. SchedulerHonest'
    BY <2>1 DEF SchedulerHonest, IdleCancelIsFinal, OneTimeReturnsOnce, FailuresCounted
  <2> QED BY <2>3, <2>4, <2>5
<1> QED
  BY <1>1, <1>2, CancelIInv, CallLoopIInv, StartTaskIInv, TaskEndsIInv DEF SchedNext

(* SchedulerInvariant: the invariant of the scheduler holds in every       *)
(* reachable state (scheduler.py:145-243).                                 *)
THEOREM SchedulerInvariant == SchedSpec => []SchedIInv
BY SchedInitIInv, SchedNextIInv, PTL DEF SchedSpec

(* SchedulerKeepsPromises: a cancellation outside a call is final, a task  *)
(* without an interval returns at most once and every failure counts, for  *)
(* any tasks, retries and concurrency.                                     *)
THEOREM SchedulerKeepsPromises == SchedSpec => []SchedulerHonest
<1>1. SchedIInv => SchedulerHonest
  BY DEF SchedIInv
<1> QED BY <1>1, SchedulerInvariant, PTL

-----------------------------------------------------------------------------
(* StrategyLifecycle                                                       *)

(* The operator's calls: whatever makes a strategy run, or moves the limit *)
(* it is measured by, counts as a new start.                               *)
LEMMA OperatorIInv ==
    ASSUME LifeIInv, NEW s \in Strategies,
           \/ CreateStrategy(s) \/ DeleteStrategy(s) \/ StartStrategy(s) \/ ResumeStrategy(s)
           \/ PauseStrategy(s) \/ StopStrategy(s)
           \/ \E limit \in StreakLimits : ModifyStrategy(s, limit)
    PROVE  LifeIInv'
<1> USE DEF LifeIInv, LifeTypeOK, LifecycleHolds, BeyondLimits, Lifecycle
<1>1. CASE CreateStrategy(s)
  BY <1>1 DEF CreateStrategy
<1>2. CASE DeleteStrategy(s)
  BY <1>2 DEF DeleteStrategy
<1>3. CASE StartStrategy(s) \/ ResumeStrategy(s)
  BY <1>3 DEF StartStrategy, ResumeStrategy
<1>4. CASE PauseStrategy(s)
  BY <1>4 DEF PauseStrategy
<1>5. CASE StopStrategy(s)
  BY <1>5 DEF StopStrategy
<1>6. CASE \E limit \in StreakLimits : ModifyStrategy(s, limit)
  BY <1>6 DEF ModifyStrategy
<1> QED BY <1>1, <1>2, <1>3, <1>4, <1>5, <1>6

(* A trade that leaves a running strategy beyond its limits stops it, by   *)
(* the streak or the drawdown that this trade may have completed.          *)
LEMMA RecordTradeIInv ==
    ASSUME LifeIInv, NEW s \in Strategies, NEW won \in BOOLEAN,
           NEW e \in Equities \cup {NoEquity}, RecordTrade(s, won, e)
    PROVE  LifeIInv'
<1> USE DEF LifeIInv
<1>1. NewPeak(s, e) \in {0} \cup Equities
  BY DEF NewPeak, LifeTypeOK
<1>2. Deepens(s, e) \in BOOLEAN
  BY DEF Deepens
<1>3. LifeTypeOK'
  <2>1. streak' \in [Strategies -> Nat] /\ sinceStart' \in [Strategies -> Nat]
    BY DEF RecordTrade, LifeTypeOK
  <2>2. peak' \in [Strategies -> {0} \cup Equities] /\ deep' \in [Strategies -> BOOLEAN]
    BY <1>1, <1>2 DEF RecordTrade, LifeTypeOK
  <2>3. state' \in [Strategies -> Lifecycle] /\ trades' \in Nat /\ streakCap' = streakCap
    BY DEF RecordTrade, LifeTypeOK, Lifecycle
  <2> QED BY <2>1, <2>2, <2>3 DEF LifeTypeOK
<1>4. ASSUME NEW t \in Strategies, state'[t] = "running", BeyondLimits(t)'
      PROVE  sinceStart'[t] = 0
  <2>1. CASE t = s
    <3>1. state[s] = "running" /\ ~AutoStops(s)
      BY <1>4, <2>1 DEF RecordTrade, LifeTypeOK
    <3> QED BY <1>4, <2>1, <3>1 DEF AutoStops, BeyondLimits, RecordTrade
  <2>2. CASE t # s
    BY <1>4, <2>2 DEF RecordTrade, LifeTypeOK, LifecycleHolds, BeyondLimits
  <2> QED BY <2>1, <2>2
<1> QED BY <1>3, <1>4 DEF LifecycleHolds

(* LifecycleInvariant: the invariant of the lifecycle holds in every       *)
(* reachable state.                                                        *)
THEOREM LifecycleInvariant == LifeSpec => []LifeIInv
<1>1. LifeInit => LifeIInv
  BY DEF LifeInit, LifeIInv, LifeTypeOK, LifecycleHolds, BeyondLimits, Lifecycle
<1>2. LifeIInv /\ [LifeNext]_lifeVars => LifeIInv'
  <2>1. LifeIInv /\ UNCHANGED lifeVars => LifeIInv'
    BY DEF lifeVars, LifeIInv, LifeTypeOK, LifecycleHolds, BeyondLimits
  <2> QED BY <2>1, OperatorIInv, RecordTradeIInv DEF LifeNext
<1> QED BY <1>1, <1>2, PTL DEF LifeSpec

(* LimitsStopStrategies: a strategy beyond its limits runs only until its  *)
(* next trade, for any limits (strategy_lifecycle.py:189-240).             *)
THEOREM LimitsStopStrategies == LifeSpec => []LifecycleHolds
<1>1. LifeIInv => LifecycleHolds
  BY DEF LifeIInv
<1> QED BY <1>1, LifecycleInvariant, PTL

-----------------------------------------------------------------------------
(* RiskDesk                                                                *)

(* A sequence cut to its last n elements keeps them in place.              *)
LEMMA LastOfType ==
    ASSUME NEW q \in Seq({"warn", "hard"}), NEW n \in Nat
    PROVE  /\ LastOf(q, n) \in Seq({"warn", "hard"})
           /\ Len(LastOf(q, n)) = IF Len(q) <= n THEN Len(q) ELSE n
           /\ \A i \in 1..Len(LastOf(q, n)) :
                  LastOf(q, n)[i] = q[Len(q) - Len(LastOf(q, n)) + i]
<1>1. CASE Len(q) <= n
  BY <1>1 DEF LastOf
<1>2. CASE Len(q) > n
  <2>1. LastOf(q, n) = SubSeq(q, Len(q) - n + 1, Len(q))
    BY <1>2 DEF LastOf
  <2>2. Len(q) - n + 1 \in 1..(Len(q) + 1) /\ Len(q) \in Nat
    BY <1>2
  <2>3. LastOf(q, n) \in Seq({"warn", "hard"}) /\ Len(LastOf(q, n)) = n
    BY <2>1, <2>2
  <2>4. \A i \in 1..n : LastOf(q, n)[i] = q[Len(q) - n + i]
    BY <2>1, <2>2
  <2> QED BY <1>2, <2>3, <2>4
<1> QED BY <1>1, <1>2

(* The breaches of a check are two at most.                                *)
LEMMA FoundType ==
    ASSUME NEW others \in {<<>>, <<"warn">>, <<"hard">>}
    PROVE  /\ DrawdownBreach \o others \in Seq({"warn", "hard"})
           /\ Len(DrawdownBreach \o others) \in 0..2
<1> DEFINE B == {"warn", "hard"}
<1>1. /\ <<>> \in Seq(B) /\ Len(<<>>) = 0
      /\ <<"warn">> \in Seq(B) /\ Len(<<"warn">>) = 1
      /\ <<"hard">> \in Seq(B) /\ Len(<<"hard">>) = 1
  OBVIOUS
<1>2. DrawdownBreach \in Seq(B) /\ (Len(DrawdownBreach) = 0 \/ Len(DrawdownBreach) = 1)
  <2>1. DrawdownBreach = <<>> \/ DrawdownBreach = <<"warn">> \/ DrawdownBreach = <<"hard">>
    BY DEF DrawdownBreach
  <2> QED BY <1>1, <2>1, Zenon
<1>3. others \in Seq(B) /\ (Len(others) = 0 \/ Len(others) = 1)
  <2>1. others = <<>> \/ others = <<"warn">> \/ others = <<"hard">>
    OBVIOUS
  <2> QED BY <1>1, <2>1, Zenon
<1>4. \A S : \A a, b \in Seq(S) : a \o b \in Seq(S) /\ Len(a \o b) = Len(a) + Len(b)
  OBVIOUS
<1>5. /\ DrawdownBreach \o others \in Seq(B)
      /\ Len(DrawdownBreach \o others) = Len(DrawdownBreach) + Len(others)
  BY <1>2, <1>3, <1>4
<1>6. \A m, n : (m = 0 \/ m = 1) /\ (n = 0 \/ n = 1) => m + n \in 0..2
  OBVIOUS
<1> QED BY <1>2, <1>3, <1>5, <1>6, Zenon

(* What a check records keeps the last hard breach where it is counted.    *)
LEMMA CheckLimitsIInv ==
    ASSUME RiskIInv, NEW others \in {<<>>, <<"warn">>, <<"hard">>}, CheckLimits(others)
    PROVE  RiskTypeOK' /\ LastHardInv'
<1> DEFINE found == DrawdownBreach \o others
           hards == {i \in 1..Len(found) : found[i] = "hard"}
           all == recent \o found
<1>0. /\ found \in Seq({"warn", "hard"}) /\ Len(found) \in 0..2
      /\ recent \in Seq({"warn", "hard"}) /\ RecentBreaches \in Nat
      /\ Len(recent) \in 0..RecentBreaches /\ sinceHard \in Int /\ sinceHard >= -1
  <2>1. found \in Seq({"warn", "hard"}) /\ Len(found) \in 0..2
    BY FoundType
  <2>2. /\ recent \in Seq({"warn", "hard"}) /\ RecentBreaches \in Nat
        /\ Len(recent) <= RecentBreaches /\ sinceHard \in Int /\ sinceHard >= -1
    BY RiskAssumption DEF RiskIInv, RiskTypeOK, LastHardInv
  <2>3. Len(recent) \in Nat
    BY <2>2
  <2> QED BY <2>1, <2>2, <2>3
<1>1. /\ recent' = LastOf(all, RecentBreaches)
      /\ sinceHard' = IF hards # {} THEN CHOOSE n \in 0..Len(found) :
                                  Len(found) - n \in hards
                                  /\ \A i \in hards : i <= Len(found) - n
                      ELSE IF sinceHard = -1 THEN -1 ELSE sinceHard + Len(found)
  BY DEF CheckLimits, Recorded
<1> HIDE DEF found
<1>2. /\ all \in Seq({"warn", "hard"}) /\ Len(all) = Len(recent) + Len(found)
      /\ \A i \in 1..Len(recent) : all[i] = recent[i]
      /\ \A i \in 1..Len(found) : all[Len(recent) + i] = found[i]
  BY <1>0
<1> HIDE DEF all
<1>3. /\ recent' \in Seq({"warn", "hard"})
      /\ Len(recent') = IF Len(all) <= RecentBreaches THEN Len(all) ELSE RecentBreaches
      /\ \A i \in 1..Len(recent') : recent'[i] = all[Len(all) - Len(recent') + i]
  <2>1. /\ LastOf(all, RecentBreaches) \in Seq({"warn", "hard"})
        /\ Len(LastOf(all, RecentBreaches)) =
               IF Len(all) <= RecentBreaches THEN Len(all) ELSE RecentBreaches
        /\ \A i \in 1..Len(LastOf(all, RecentBreaches)) :
               LastOf(all, RecentBreaches)[i]
                   = all[Len(all) - Len(LastOf(all, RecentBreaches)) + i]
    <3>1. all \in Seq({"warn", "hard"}) /\ RecentBreaches \in Nat
      BY <1>0, <1>2
    <3> QED BY <3>1, LastOfType
  <2> QED BY <1>1, <2>1
<1>4. /\ sinceHard' \in Int /\ sinceHard' >= -1
      /\ \A i \in 1..Len(all) : sinceHard' = -1 \/ i > Len(all) - sinceHard' => all[i] = "warn"
      /\ sinceHard' \in 0..(Len(all) - 1) => all[Len(all) - sinceHard'] = "hard"
      /\ sinceHard' >= Len(all) => Len(recent) = RecentBreaches
  <2>1. CASE hards = {}
    <3>1. sinceHard' = IF sinceHard = -1 THEN -1 ELSE sinceHard + Len(found)
      BY <1>1, <2>1
    <3>2. \A i \in 1..Len(found) : found[i] = "warn"
      BY <1>0, <2>1
    <3>3. \A i \in 1..Len(all) : i <= Len(recent) \/ (i - Len(recent)) \in 1..Len(found)
      BY <1>0, <1>2
    <3>4. \A i \in 1..Len(all) : i > Len(recent) => all[i] = "warn"
      <4>1. SUFFICES ASSUME NEW i \in 1..Len(all), i > Len(recent) PROVE all[i] = "warn"
        OBVIOUS
      <4>2. i - Len(recent) \in 1..Len(found) /\ i = Len(recent) + (i - Len(recent))
        BY <1>0, <3>3, <4>1
      <4> QED BY <1>2, <3>2, <4>2
    <3>5. \A i \in 1..Len(all) : sinceHard' = -1 \/ i > Len(all) - sinceHard' => all[i] = "warn"
      <4>1. SUFFICES ASSUME NEW i \in 1..Len(all), i <= Len(recent),
                            sinceHard' = -1 \/ i > Len(all) - sinceHard'
                     PROVE  all[i] = "warn"
        BY <1>0, <1>2, <3>4
      <4>2. i \in 1..Len(recent) /\ (sinceHard = -1 \/ i > Len(recent) - sinceHard)
        BY <1>0, <1>2, <3>1, <4>1
      <4>3. recent[i] = "warn"
        BY <4>2 DEF RiskIInv, LastHardInv
      <4> QED BY <1>2, <4>2, <4>3
    <3>6. sinceHard' \in 0..(Len(all) - 1) => all[Len(all) - sinceHard'] = "hard"
      <4>1. SUFFICES ASSUME sinceHard' \in 0..(Len(all) - 1)
                     PROVE  all[Len(all) - sinceHard'] = "hard"
        OBVIOUS
      <4>2. /\ sinceHard \in 0..(Len(recent) - 1)
            /\ Len(all) - sinceHard' = Len(recent) - sinceHard
            /\ Len(recent) - sinceHard \in 1..Len(recent)
        BY <1>0, <1>2, <3>1, <4>1
      <4>3. recent[Len(recent) - sinceHard] = "hard"
        BY <4>2 DEF RiskIInv, LastHardInv
      <4> QED BY <1>2, <4>2, <4>3
    <3>7. sinceHard' >= Len(all) => Len(recent) = RecentBreaches
      BY <1>0, <1>2, <3>1 DEF RiskIInv, LastHardInv
    <3> QED BY <1>0, <3>1, <3>5, <3>6, <3>7
  <2>2. CASE hards # {}
    <3>1. \E n \in 0..Len(found) :
              Len(found) - n \in hards /\ \A i \in hards : i <= Len(found) - n
      <4>1. hards \subseteq 1..Len(found) /\ Len(found) \in {0, 1, 2}
        BY <1>0
      <4>2. CASE Len(found) \in hards
        <5>1. 0 \in 0..Len(found) /\ Len(found) - 0 = Len(found)
          BY <4>1
        <5>2. \A i \in hards : i <= Len(found)
          BY <4>1
        <5> QED BY <4>2, <5>1, <5>2
      <4>3. CASE Len(found) \notin hards
        <5>1. Len(found) = 2 /\ hards = {1}
          BY <2>2, <4>1, <4>3
        <5>2. 1 \in 0..Len(found) /\ Len(found) - 1 = 1
          BY <5>1
        <5> QED BY <5>1, <5>2
      <4> QED BY <4>2, <4>3
    <3>2. /\ sinceHard' \in 0..Len(found)
          /\ Len(found) - sinceHard' \in hards
          /\ \A i \in hards : i <= Len(found) - sinceHard'
      BY <1>1, <2>2, <3>1
    <3>3. /\ Len(found) - sinceHard' \in 1..Len(found)
          /\ found[Len(found) - sinceHard'] = "hard"
      BY <3>2
    <3>4. all[Len(all) - sinceHard'] = "hard"
      <4>1. Len(all) - sinceHard' = Len(recent) + (Len(found) - sinceHard')
        BY <1>0, <1>2, <3>2
      <4> QED BY <1>2, <3>3, <4>1
    <3>5. ASSUME NEW i \in 1..Len(all), i > Len(all) - sinceHard' PROVE all[i] = "warn"
      <4>1. i - Len(recent) \in 1..Len(found) /\ i = Len(recent) + (i - Len(recent))
        BY <1>0, <1>2, <3>2, <3>3, <3>5
      <4>2. i - Len(recent) \notin hards
        <5>1. ~(i - Len(recent) <= Len(found) - sinceHard')
          BY <1>0, <1>2, <3>2, <3>5
        <5> QED BY <3>2, <5>1
      <4>3. found[i - Len(recent)] = "warn"
        BY <1>0, <4>1, <4>2
      <4> QED BY <1>2, <4>1, <4>3
    <3> QED BY <1>0, <1>2, <3>2, <3>3, <3>4, <3>5
  <2> QED BY <2>1, <2>2
<1>5. RiskTypeOK'
  <2>1. Len(recent') <= RecentBreaches
    BY <1>0, <1>2, <1>3
  <2>2. updates' \in 0..MaxUpdates
    BY RiskAssumption DEF CheckLimits, Counted, RiskIInv, RiskTypeOK
  <2> QED BY <1>3, <1>4, <2>1, <2>2 DEF CheckLimits, managerVars, RiskIInv, RiskTypeOK
<1>6. LastHardInv'
  <2> DEFINE cut == Len(all) - Len(recent')
  <2>1. /\ cut \in Nat /\ Len(recent') \in Nat /\ Len(all) \in Nat
        /\ Len(recent') <= RecentBreaches
        /\ cut > 0 => Len(recent') = RecentBreaches
        /\ Len(recent') >= Len(recent)
    BY <1>0, <1>2, <1>3
  <2>2. \A i \in 1..Len(recent') : cut + i \in 1..Len(all) /\ recent'[i] = all[cut + i]
    BY <1>3, <2>1
  <2>3. ASSUME NEW i \in 1..Len(recent'), sinceHard' = -1 \/ i > Len(recent') - sinceHard'
        PROVE  recent'[i] = "warn"
    <3>1. sinceHard' = -1 \/ cut + i > Len(all) - sinceHard'
      BY <1>4, <2>1, <2>3
    <3> QED BY <1>4, <2>2, <3>1
  <2>4. ASSUME sinceHard' \in 0..(Len(recent') - 1)
        PROVE  recent'[Len(recent') - sinceHard'] = "hard"
    <3>1. /\ Len(recent') - sinceHard' \in 1..Len(recent')
          /\ cut + (Len(recent') - sinceHard') = Len(all) - sinceHard'
          /\ sinceHard' \in 0..(Len(all) - 1)
      BY <1>4, <2>1, <2>4
    <3> QED BY <1>4, <2>2, <3>1
  <2>5. sinceHard' >= Len(recent') => Len(recent') = RecentBreaches
    BY <1>0, <1>3, <1>4, <2>1
  <2> QED BY <1>4, <2>3, <2>4, <2>5 DEF LastHardInv
<1> QED BY <1>5, <1>6

(* A check of the manager approves nothing once its breaker is tripped.    *)
LEMMA PreTradeCheckIInv ==
    ASSUME RiskIInv, NEW overLevered \in BOOLEAN, PreTradeCheck(overLevered)
    PROVE  RiskTypeOK' /\ BreakerLatched'
<1> DEFINE asked == ~stopped /\ ~breaker
           isDeep == asked /\ DeeperThan(peakEquity', MaxDrawdownPct)
           approved == asked /\ ~isDeep /\ ~LosesTooMuch /\ ~overLevered
<1>1. /\ breaker' = (breaker \/ isDeep) /\ tripped' = (tripped \/ isDeep)
      /\ approvals' = IF approved /\ (stopped \/ tripped') THEN approvals + 1 ELSE approvals
      /\ UNCHANGED <<equity, dailyPnl, stopped, recent, sinceHard>>
  BY DEF PreTradeCheck, BreakerAfter, Watched, limitVars
<1>2. breaker = tripped /\ approvals = 0 /\ breaker \in BOOLEAN
  BY DEF RiskIInv, BreakerLatched, RiskTypeOK
<1> HIDE DEF isDeep
<1>3. approvals' = 0 /\ breaker' = tripped' /\ tripped' \in BOOLEAN
  BY <1>1, <1>2
<1>4. peakEquity' \in {0} \cup EquityLevels /\ updates' \in 0..MaxUpdates
  BY RiskAssumption DEF PreTradeCheck, Higher, Counted, RiskIInv, RiskTypeOK
<1>5. 0 \in 0..MaxUpdates
  BY RiskAssumption
<1> QED BY <1>1, <1>3, <1>4, <1>5 DEF RiskIInv, RiskTypeOK, BreakerLatched

(* RiskInvariant: the invariant of both guards holds in every reachable    *)
(* state.                                                                  *)
THEOREM RiskInvariant == RiskSpec => []RiskIInv
<1>1. RiskInit => RiskIInv
  <2> SUFFICES ASSUME RiskInit PROVE RiskIInv
    OBVIOUS
  <2>1. /\ recent = <<>> /\ recent \in Seq({"warn", "hard"}) /\ Len(recent) = 0
        /\ sinceHard = -1
    BY DEF RiskInit
  <2>2. 0 \in 0..MaxUpdates /\ RecentBreaches \in Nat
    BY RiskAssumption
  <2>3. LastHardInv
    BY <2>1 DEF LastHardInv
  <2>4. RiskTypeOK
    <3>1. Len(recent) <= RecentBreaches /\ sinceHard \in Int
      BY <2>1, <2>2
    <3>2. /\ equity \in EquityLevels /\ peakEquity \in {0} \cup EquityLevels
          /\ dailyPnl \in Int /\ updates \in 0..MaxUpdates /\ approvals \in 0..MaxUpdates
      BY <2>2 DEF RiskInit
    <3>3. breaker \in BOOLEAN /\ stopped \in BOOLEAN /\ tripped \in BOOLEAN
      BY DEF RiskInit
    <3> QED BY <2>1, <3>1, <3>2, <3>3 DEF RiskTypeOK
  <2> QED BY <2>3, <2>4 DEF RiskInit, RiskIInv, BreakerLatched
<1>2. RiskIInv /\ [RiskNext]_riskVars => RiskIInv'
  <2> SUFFICES ASSUME RiskIInv, [RiskNext]_riskVars PROVE RiskIInv'
    OBVIOUS
  <2> USE DEF RiskIInv
  <2>1. ASSUME NEW o \in {<<>>, <<"warn">>, <<"hard">>}, CheckLimits(o) PROVE RiskIInv'
    BY <2>1, CheckLimitsIInv DEF CheckLimits, managerVars, BreakerLatched
  <2>2. ASSUME NEW o \in BOOLEAN, PreTradeCheck(o) PROVE RiskIInv'
    BY <2>2, PreTradeCheckIInv DEF PreTradeCheck, limitVars, LastHardInv
  <2>3. CASE MarketMoves
    BY <2>3, RiskAssumption
       DEF MarketMoves, Counted, managerVars, limitVars, RiskTypeOK, BreakerLatched, LastHardInv
  <2>4. ASSUME NEW s \in {1, -1}, NEW n \in Notionals, PostTradeUpdate(s, n) PROVE RiskIInv'
    <3>1. dailyPnl' \in Int /\ updates' \in 0..MaxUpdates
      BY <2>4, RiskAssumption DEF PostTradeUpdate, Counted, RiskTypeOK
    <3> QED BY <2>4, <3>1 DEF PostTradeUpdate, limitVars, RiskTypeOK, BreakerLatched, LastHardInv
  <2>5. CASE EmergencyStop \/ ResetRisk
    <3>1. /\ UNCHANGED <<equity, peakEquity, approvals, updates, recent, sinceHard>>
          /\ UNCHANGED <<breaker, tripped>> \/ (breaker' = FALSE /\ tripped' = FALSE)
      BY <2>5 DEF EmergencyStop, ResetRisk, limitVars
    <3>2. dailyPnl' \in Int /\ stopped' \in BOOLEAN
      <4>1. CASE EmergencyStop
        BY <4>1 DEF EmergencyStop, RiskTypeOK
      <4>2. CASE ResetRisk
        BY <4>2 DEF ResetRisk, RiskTypeOK
      <4> QED BY <2>5, <4>1, <4>2
    <3> QED BY <3>1, <3>2 DEF RiskTypeOK, BreakerLatched, LastHardInv
  <2>6. CASE UNCHANGED riskVars
    BY <2>6 DEF riskVars, RiskTypeOK, BreakerLatched, LastHardInv
  <2> QED BY <2>1, <2>2, <2>3, <2>4, <2>5, <2>6 DEF RiskNext
<1> QED BY <1>1, <1>2, PTL DEF RiskSpec

(* BreakersLast: both breakers last as long as the code makes them, for    *)
(* any thresholds, equities and length of the history looked at.           *)
THEOREM BreakersLast == RiskSpec => []RiskHolds
<1>1. RiskIInv => RiskHolds
  <2> SUFFICES ASSUME RiskIInv PROVE HardBreachLasts
    BY DEF RiskIInv, RiskHolds
  <2>1. /\ recent \in Seq({"warn", "hard"}) /\ Len(recent) \in Nat /\ sinceHard \in Int
        /\ Len(recent) <= RecentBreaches /\ RecentBreaches \in Nat
    BY RiskAssumption DEF RiskIInv, RiskTypeOK
  <2>2. sinceHard \in 0..(RecentBreaches - 1) => LimitsBreaker
    <3>1. SUFFICES ASSUME sinceHard \in 0..(RecentBreaches - 1) PROVE LimitsBreaker
      OBVIOUS
    <3>2. sinceHard \in 0..(Len(recent) - 1)
      BY <2>1, <3>1 DEF RiskIInv, LastHardInv
    <3>3. Len(recent) - sinceHard \in 1..Len(recent)
      BY <2>1, <3>2
    <3> QED BY <3>2, <3>3 DEF LimitsBreaker, RiskIInv, LastHardInv
  <2>3. LimitsBreaker => sinceHard \in 0..(RecentBreaches - 1)
    BY <2>1 DEF LimitsBreaker, RiskIInv, LastHardInv
  <2> QED BY <2>2, <2>3 DEF HardBreachLasts
<1> QED BY <1>1, RiskInvariant, PTL

-----------------------------------------------------------------------------
(* OrderManager                                                            *)

(* The table's indices, and a table in which one order is replaced.        *)
LEMMA TableType ==
    ASSUME OmsTypeOK
    PROVE  /\ Len(orders) \in Nat /\ DOMAIN orders = OrderIds
           /\ \A i \in OrderIds : orders[i] \in Order
           /\ IsFiniteSet(ActiveOrders) /\ Cardinality(ActiveOrders) \in Nat
<1>1. Len(orders) \in Nat /\ DOMAIN orders = OrderIds /\ \A i \in OrderIds : orders[i] \in Order
  BY DEF OmsTypeOK, OrderIds
<1>2. IsFiniteSet(OrderIds)
  BY <1>1, FS_Interval DEF OrderIds
<1>3. IsFiniteSet(ActiveOrders)
  BY <1>2, FS_Subset DEF ActiveOrders
<1> QED BY <1>1, <1>3, FS_CardinalityType

LEMMA FewerActive ==
    ASSUME OmsTypeOK, Cardinality(ActiveOrders) <= MaxOpenOrders,
           ActiveOrders' \subseteq ActiveOrders
    PROVE  Cardinality(ActiveOrders') <= MaxOpenOrders
<1>1. IsFiniteSet(ActiveOrders) /\ Cardinality(ActiveOrders) \in Nat
  BY TableType
<1>2. Cardinality(ActiveOrders') \in Nat /\ Cardinality(ActiveOrders') <= Cardinality(ActiveOrders)
  BY <1>1, FS_Subset, FS_CardinalityType
<1> QED BY <1>1, <1>2, OmsAssumption

Signed == [i \in OrderIds |-> orders[i].sign * orders[i].filled]
InStatus(symbol, statuses) ==
    {i \in OrderIds : orders[i].symbol = symbol /\ orders[i].status \in statuses}

(* What the orders of a symbol filled is a sum of whole numbers over a     *)
(* finite set.                                                             *)
LEMMA HeldType ==
    ASSUME OmsTypeOK, NEW y, NEW statuses
    PROVE  /\ IsFiniteSet(InStatus(y, statuses)) /\ InStatus(y, statuses) \subseteq OrderIds
           /\ \A i \in OrderIds : /\ Signed[i] = orders[i].sign * orders[i].filled
                                  /\ Signed[i] \in Int
           /\ Held(y, statuses) = SumFunctionOnSet(Signed, InStatus(y, statuses))
           /\ Held(y, statuses) \in Int
<1>1. IsFiniteSet(InStatus(y, statuses)) /\ InStatus(y, statuses) \subseteq OrderIds
  <2>1. InStatus(y, statuses) \subseteq OrderIds
    BY DEF InStatus
  <2>2. Len(orders) \in Int /\ IsFiniteSet(1..Len(orders))
    BY TableType, FS_Interval
  <2> QED BY <2>1, <2>2, FS_Subset DEF OrderIds
<1>2. ASSUME NEW i \in OrderIds
      PROVE  Signed[i] = orders[i].sign * orders[i].filled /\ Signed[i] \in Int
  <2>1. orders[i].sign \in Int /\ orders[i].filled \in Int
    BY TableType DEF Order
  <2> QED BY <2>1 DEF Signed
<1>3. Held(y, statuses) = SumFunctionOnSet(Signed, InStatus(y, statuses))
  BY DEF Held, Signed, InStatus
<1>4. Held(y, statuses) \in Int
  BY <1>1, <1>2, <1>3, SumRemove
<1> QED BY <1>1, <1>2, <1>3, <1>4

(* The same table but for statuses, prices and quantities has filled the   *)
(* same.                                                                   *)
LEMMA HeldSame ==
    ASSUME OmsTypeOK, OmsTypeOK', OrderIds' = OrderIds, NEW y,
           \A i \in OrderIds : /\ orders'[i].symbol = orders[i].symbol
                               /\ orders'[i].sign = orders[i].sign
                               /\ orders'[i].filled = orders[i].filled
    PROVE  Held(y, Statuses)' = Held(y, Statuses)
<1>1. \A i \in OrderIds : orders[i].status \in Statuses /\ orders'[i].status \in Statuses
  <2>1. \A i \in OrderIds : orders[i] \in Order /\ orders'[i] \in Order
    BY DEF OmsTypeOK, OrderIds
  <2> QED BY <2>1 DEF Order
<1>2. InStatus(y, Statuses)' = InStatus(y, Statuses)
  BY <1>1 DEF InStatus
<1>3. Signed' = Signed
  BY DEF Signed
<1> QED BY <1>2, <1>3 DEF Held, Signed, InStatus

(* What the position leaves out is what the orders filled that are not     *)
(* FILLED: those just submitted filled nothing.                            *)
LEMMA GapIsUnfinished ==
    ASSUME OmsIInv PROVE PositionGap
<1> SUFFICES ASSUME NEW y \in OmsSymbols
             PROVE  traded[y] - Held(y, {"FILLED"}) = Held(y, {"PARTIAL", "CANCELLED"})
  BY DEF PositionGap, ReportedPosition
<1> DEFINE A == InStatus(y, Statuses)
           F == InStatus(y, {"FILLED"})
           P == InStatus(y, {"PARTIAL", "CANCELLED"})
<1>1. /\ F \subseteq A /\ P \subseteq A \ F
      /\ \A i \in (A \ F) \ P : i \in OrderIds /\ orders[i].status = "SUBMITTED"
  BY DEF InStatus, Statuses
<1>2. /\ IsFiniteSet(A) /\ IsFiniteSet(A \ F) /\ A \subseteq OrderIds
      /\ \A i \in OrderIds : Signed[i] \in Int /\ Signed[i] = orders[i].sign * orders[i].filled
      /\ Held(y, Statuses) = SumFunctionOnSet(Signed, A)
      /\ Held(y, {"FILLED"}) = SumFunctionOnSet(Signed, F)
      /\ Held(y, {"PARTIAL", "CANCELLED"}) = SumFunctionOnSet(Signed, P)
      /\ Held(y, {"FILLED"}) \in Int /\ Held(y, {"PARTIAL", "CANCELLED"}) \in Int
  BY HeldType, FS_Subset DEF OmsIInv
<1> HIDE DEF A, F, P
<1>3. \A i \in A : Signed[i] \in Int
  BY <1>2
<1>4. SumFunctionOnSet(Signed, A) = SumFunctionOnSet(Signed, F) + SumFunctionOnSet(Signed, A \ F)
  BY <1>1, <1>2, <1>3, SumSplit
<1>5. \A i \in (A \ F) \ P : Signed[i] = 0
  <2>1. \A i \in (A \ F) \ P : orders[i].filled = 0 /\ orders[i].sign \in Int
    BY <1>1, TableType DEF OmsIInv, StatusMatchesFills, Order
  <2> QED BY <1>1, <1>2, <2>1
<1>6. SumFunctionOnSet(Signed, A \ F) = SumFunctionOnSet(Signed, P)
  BY <1>1, <1>2, <1>3, <1>5, SumOmit
<1> QED BY <1>2, <1>4, <1>6 DEF OmsIInv

(* A new order is the one more active order the limit left room for.       *)
LEMMA CreateOrderIInv ==
    ASSUME OmsIInv, NEW symbol \in OmsSymbols, NEW sign \in {1, -1}, NEW quantity \in 1..MaxQuantity,
           CreateOrder(symbol, sign, quantity)
    PROVE  OmsIInv'
<1> DEFINE new == [symbol |-> symbol, sign |-> sign, quantity |-> quantity,
                   filled |-> 0, price |-> "old", status |-> "SUBMITTED"]
           n == Len(orders)
<1>1. OmsTypeOK /\ n \in Nat /\ MaxOrders \in Nat /\ MaxOpenOrders \in Nat
  BY TableType, OmsAssumption DEF OmsIInv
<1>2. new \in Order
  BY OmsAssumption DEF Order, Statuses
<1>3. /\ orders' = Append(orders, new) /\ n < MaxOrders
      /\ UNCHANGED <<fills, traded, trimmed>>
  BY DEF CreateOrder
<1> HIDE DEF new
<1>4. /\ orders' \in Seq(Order) /\ Len(orders') = n + 1
      /\ \A i \in 1..n : orders'[i] = orders[i]
      /\ orders'[n + 1] = new
  BY <1>1, <1>2, <1>3 DEF OmsTypeOK
<1>5. OrderIds' = OrderIds \cup {n + 1} /\ n + 1 \notin OrderIds
  BY <1>1, <1>4 DEF OrderIds
<1>6. OmsTypeOK'
  BY <1>1, <1>3, <1>4, <1>5 DEF OmsTypeOK
<1>7. Cardinality(ActiveOrders') <= MaxOpenOrders
  <2>1. ActiveOrders' \subseteq ActiveOrders \cup {n + 1}
    BY <1>1, <1>4, <1>5 DEF ActiveOrders, OrderIds, Active
  <2>2. IsFiniteSet(ActiveOrders) /\ Cardinality(ActiveOrders) \in Nat
    BY <1>1, TableType
  <2>3. n + 1 \notin ActiveOrders
    BY <1>5 DEF ActiveOrders
  <2>4. /\ IsFiniteSet(ActiveOrders \cup {n + 1})
        /\ Cardinality(ActiveOrders \cup {n + 1}) = Cardinality(ActiveOrders) + 1
    BY <2>2, <2>3, FS_AddElement
  <2>5. /\ Cardinality(ActiveOrders') \in Nat
        /\ Cardinality(ActiveOrders') <= Cardinality(ActiveOrders \cup {n + 1})
    BY <2>1, <2>4, FS_Subset, FS_CardinalityType
  <2>6. Cardinality(ActiveOrders) < MaxOpenOrders
    BY DEF CreateOrder
  <2> QED BY <1>1, <2>2, <2>4, <2>5, <2>6
<1>8. StatusMatchesFills'
  <2>1. /\ new.status = "SUBMITTED" /\ new.filled = 0 /\ new.quantity = quantity
        /\ ~(0 >= quantity)
    BY OmsAssumption DEF new
  <2>2. ASSUME NEW i \in OrderIds'
        PROVE  /\ orders'[i].status = "SUBMITTED" => orders'[i].filled = 0
               /\ orders'[i].status = "PARTIAL" => orders'[i].filled > 0
               /\ orders'[i].status = "FILLED" => orders'[i].filled >= orders'[i].quantity
               /\ Active(orders'[i]) /\ orders'[i].filled >= orders'[i].quantity => i \in trimmed'
    <3>1. CASE i = n + 1
      BY <1>4, <2>1, <3>1
    <3>2. CASE i \in OrderIds
      BY <1>3, <1>4, <3>2 DEF OmsIInv, StatusMatchesFills, OrderIds
    <3> QED BY <1>5, <3>1, <3>2
  <2> QED BY <2>2 DEF StatusMatchesFills, Active
<1>9. \A y \in OmsSymbols : Held(y, Statuses)' = traded'[y]
  <2> SUFFICES ASSUME NEW y \in OmsSymbols PROVE Held(y, Statuses)' = Held(y, Statuses)
    BY <1>3 DEF OmsIInv
  <2> DEFINE S == InStatus(y, Statuses)
             T == InStatus(y, Statuses)'
             f == Signed
             g == Signed'
  <2>1. new.filled = 0 /\ new.sign \in Int /\ new.symbol = symbol /\ new.status \in Statuses
    BY <1>2 DEF new, Statuses
  <2>2. /\ S \subseteq T /\ \A i \in T \ S : i = n + 1
        /\ \A i \in S : i \in OrderIds
    BY <1>4, <1>5 DEF InStatus, OrderIds
  <2>3. /\ \A i \in OrderIds : f[i] \in Int /\ f[i] = orders[i].sign * orders[i].filled
        /\ Held(y, Statuses) = SumFunctionOnSet(f, S) /\ IsFiniteSet(S)
    BY <1>1, HeldType
  <2>4. \A i \in OrderIds' : g[i] = orders'[i].sign * orders'[i].filled
    BY DEF Signed
  <2>5. IsFiniteSet(T) /\ T \subseteq OrderIds' /\ Held(y, Statuses)' = SumFunctionOnSet(g, T)
    <3>1. IsFiniteSet(OrderIds')
      <4>1. IsFiniteSet(1..n)
        BY <1>1, FS_Interval
      <4>2. IsFiniteSet((1..n) \cup {n + 1})
        BY <4>1, FS_AddElement
      <4> QED BY <1>5, <4>2 DEF OrderIds
    <3>2. T \subseteq OrderIds'
      BY DEF InStatus
    <3>3. Held(y, Statuses)' = SumFunctionOnSet(g, T)
      BY DEF Held, Signed, InStatus
    <3> QED BY <3>1, <3>2, <3>3, FS_Subset
  <2> HIDE DEF S, T, f, g
  <2>6. \A i \in OrderIds : g[i] = f[i] /\ g[i] \in Int
    <3>1. \A i \in OrderIds : i \in OrderIds' /\ orders'[i] = orders[i]
      BY <1>4, <1>5 DEF OrderIds
    <3> QED BY <2>3, <2>4, <3>1
  <2>7. g[n + 1] = 0
    <3>1. n + 1 \in OrderIds' /\ orders'[n + 1] = new
      BY <1>4, <1>5
    <3> QED BY <2>1, <2>4, <3>1
  <2>8. SumFunctionOnSet(g, T) = SumFunctionOnSet(g, S)
    <3>1. \A i \in T : g[i] \in Int
      BY <1>5, <2>5, <2>6, <2>7
    <3>2. \A i \in T \ S : g[i] = 0
      BY <2>2, <2>7
    <3> QED BY <2>2, <2>5, <3>1, <3>2, SumOmit
  <2>9. SumFunctionOnSet(g, S) = SumFunctionOnSet(f, S)
    BY <2>2, <2>3, <2>6, SumSame
  <2> QED BY <2>3, <2>5, <2>8, <2>9
<1> QED BY <1>6, <1>7, <1>8, <1>9 DEF OmsIInv

(* A cancellation only ends orders.                                        *)
LEMMA CancelOrdersIInv ==
    ASSUME OmsIInv, NEW ids, CancelOrders(ids)
    PROVE  OmsIInv'
<1>1. /\ OmsTypeOK /\ ids \subseteq ActiveOrders
      /\ orders' = [i \in OrderIds |-> IF i \in ids
                        THEN [orders[i] EXCEPT !.status = "CANCELLED"] ELSE orders[i]]
      /\ UNCHANGED <<fills, traded, trimmed>>
  BY DEF OmsIInv, CancelOrders
<1>2. \A i \in OrderIds : orders[i] \in Order /\ orders'[i] \in Order
  <2>1. \A o \in Order : [o EXCEPT !.status = "CANCELLED"] \in Order
    BY DEF Order, Statuses
  <2> QED BY <1>1, <2>1, TableType
<1>3. orders' \in Seq(Order) /\ Len(orders') = Len(orders) /\ OrderIds' = OrderIds
  BY <1>1, <1>2, TableType DEF OrderIds
<1>4. OmsTypeOK'
  BY <1>1, <1>3 DEF OmsTypeOK
<1>5. ActiveOrders' \subseteq ActiveOrders
  BY <1>1, <1>2, <1>3 DEF ActiveOrders, Active, Order
<1>6. StatusMatchesFills'
  BY <1>1, <1>2, <1>3 DEF OmsIInv, StatusMatchesFills, Active, Order
<1>7. \A y \in OmsSymbols : Held(y, Statuses)' = traded'[y]
  <2>1. \A i \in OrderIds : /\ orders'[i].symbol = orders[i].symbol
                            /\ orders'[i].sign = orders[i].sign
                            /\ orders'[i].filled = orders[i].filled
    BY <1>1, <1>2 DEF Order
  <2> QED BY <1>1, <1>3, <1>4, <2>1, HeldSame DEF OmsIInv
<1> QED BY <1>1, <1>4, <1>5, <1>6, <1>7, FewerActive DEF OmsIInv

(* An amendment moves the quantity, and notes an order left with nothing   *)
(* to fill.                                                                *)
LEMMA AmendOrderIInv ==
    ASSUME OmsIInv, NEW i \in OrderIds, NEW quantity \in 0..MaxQuantity,
           NEW price \in {"old", "new"}, AmendOrder(i, quantity, price)
    PROVE  OmsIInv'
<1> DEFINE o == orders[i]
           q == IF quantity < o.filled THEN o.quantity ELSE quantity
           new == [o EXCEPT !.price = price, !.quantity = q]
<1>1. /\ OmsTypeOK /\ o \in Order /\ Active(o) /\ quantity \in Nat
      /\ trimmed' = IF quantity < o.filled THEN trimmed
                    ELSE IF quantity = o.filled THEN trimmed \cup {i} ELSE trimmed \ {i}
      /\ UNCHANGED <<fills, traded>>
  BY TableType, OmsAssumption DEF OmsIInv, AmendOrder, ActiveOrders
<1>2. orders' = [orders EXCEPT ![i] = new]
  BY <1>1 DEF AmendOrder, Order
<1>3. /\ new \in Order /\ new.status = o.status /\ new.filled = o.filled /\ new.quantity = q
  BY <1>1 DEF Order
<1> HIDE DEF new
<1>4. /\ orders' \in Seq(Order) /\ Len(orders') = Len(orders) /\ OrderIds' = OrderIds
      /\ orders'[i] = new /\ \A j \in OrderIds : j # i => orders'[j] = orders[j]
  BY <1>1, <1>2, <1>3, TableType DEF OmsTypeOK, OrderIds
<1>5. OmsTypeOK'
  BY <1>1, <1>4 DEF OmsTypeOK
<1>6. ActiveOrders' \subseteq ActiveOrders
  BY <1>1, <1>3, <1>4 DEF ActiveOrders, Active
<1>7. StatusMatchesFills'
  <2>1. ASSUME NEW j \in OrderIds
        PROVE  /\ orders'[j].status = "SUBMITTED" => orders'[j].filled = 0
               /\ orders'[j].status = "PARTIAL" => orders'[j].filled > 0
               /\ orders'[j].status = "FILLED" => orders'[j].filled >= orders'[j].quantity
               /\ Active(orders'[j]) /\ orders'[j].filled >= orders'[j].quantity => j \in trimmed'
    <3>1. CASE j = i
      <4>1. o.filled \in Nat /\ o.quantity \in Nat
        BY <1>1 DEF Order
      <4>2. /\ o.status = "SUBMITTED" => o.filled = 0
            /\ o.status = "PARTIAL" => o.filled > 0
            /\ o.status # "FILLED"
            /\ o.filled >= o.quantity => i \in trimmed
        BY <1>1 DEF OmsIInv, StatusMatchesFills, Active
      <4>3. o.filled >= q => i \in trimmed'
        BY <1>1, <4>1, <4>2
      <4> QED BY <1>3, <1>4, <3>1, <4>2, <4>3
    <3>2. CASE j # i
      <4>1. orders'[j] = orders[j] /\ (j \in trimmed => j \in trimmed')
        BY <1>1, <1>4, <3>2
      <4> QED BY <4>1 DEF OmsIInv, StatusMatchesFills
    <3> QED BY <3>1, <3>2
  <2> QED BY <1>4, <2>1 DEF StatusMatchesFills, Active
<1>8. \A y \in OmsSymbols : Held(y, Statuses)' = traded'[y]
  <2>1. new.symbol = o.symbol /\ new.sign = o.sign
    BY <1>1 DEF Order, new
  <2>2. \A j \in OrderIds : /\ orders'[j].symbol = orders[j].symbol
                            /\ orders'[j].sign = orders[j].sign
                            /\ orders'[j].filled = orders[j].filled
    BY <1>3, <1>4, <2>1
  <2> QED BY <1>1, <1>4, <1>5, <2>2, HeldSame DEF OmsIInv
<1> QED BY <1>1, <1>5, <1>6, <1>7, <1>8, FewerActive DEF OmsIInv

(* A fill for an active order: what it fills decides the status.           *)
LEMMA ProcessFillIInv ==
    ASSUME OmsIInv, NEW i \in OrderIds, NEW quantity \in 1..MaxQuantity, ProcessFill(i, quantity)
    PROVE  OmsIInv'
<1> DEFINE o == orders[i]
           f == o.filled + quantity
           st == IF f >= o.quantity THEN "FILLED" ELSE "PARTIAL"
           new == [o EXCEPT !.filled = f, !.status = st]
<1>1. /\ OmsTypeOK /\ o \in Order /\ Active(o) /\ quantity \in Nat /\ quantity > 0
      /\ orders' = [orders EXCEPT ![i].filled = f, ![i].status = st]
      /\ traded' = [traded EXCEPT ![o.symbol] = @ + o.sign * quantity]
      /\ fills' = fills + 1 /\ fills < MaxFills /\ trimmed' = trimmed \ {i}
  BY TableType, OmsAssumption DEF OmsIInv, ProcessFill, Fillable, ActiveOrders
<1>2. orders' = [orders EXCEPT ![i] = new]
  BY <1>1 DEF Order
<1>3. /\ o.filled \in Nat /\ o.quantity \in Nat /\ o.sign \in Int /\ f \in Nat /\ f > 0
  BY <1>1 DEF Order
<1>4. /\ new \in Order /\ new.status = st /\ new.filled = f /\ new.quantity = o.quantity
  BY <1>1, <1>3 DEF Order, Statuses
<1> HIDE DEF new
<1>5. /\ orders' \in Seq(Order) /\ Len(orders') = Len(orders) /\ OrderIds' = OrderIds
      /\ orders'[i] = new /\ \A j \in OrderIds : j # i => orders'[j] = orders[j]
  <2>1. new \in Order /\ orders \in Seq(Order) /\ i \in 1..Len(orders)
    BY <1>1, <1>4 DEF OmsTypeOK, OrderIds
  <2> QED BY <1>2, <2>1 DEF OrderIds
<1>6. OmsTypeOK'
  <2>1. traded' \in [OmsSymbols -> Int]
    <3>1. o.symbol \in OmsSymbols /\ o.sign \in {1, -1}
      BY <1>1 DEF Order
    <3>2. o.sign * quantity \in Int
      BY <1>1, <3>1
    <3>3. traded \in [OmsSymbols -> Int]
      BY <1>1 DEF OmsTypeOK
    <3> DEFINE d == o.sign * quantity
    <3>4. traded' = [traded EXCEPT ![o.symbol] = @ + d]
      BY <1>1
    <3> HIDE DEF d
    <3>5. d \in Int
      BY <3>2 DEF d
    <3>6. traded[o.symbol] + d \in Int
      BY <3>1, <3>3, <3>5
    <3>7. traded' = [traded EXCEPT ![o.symbol] = traded[o.symbol] + d]
      BY <3>4
    <3> QED BY <3>3, <3>6, <3>7
  <2>2. fills' \in 0..MaxFills
    BY <1>1, OmsAssumption DEF OmsTypeOK
  <2> QED BY <1>1, <1>5, <2>1, <2>2 DEF OmsTypeOK
<1>7. ActiveOrders' \subseteq ActiveOrders
  BY <1>1, <1>5 DEF ActiveOrders, Active
<1>8. StatusMatchesFills'
  <2>1. ASSUME NEW j \in OrderIds
        PROVE  /\ orders'[j].status = "SUBMITTED" => orders'[j].filled = 0
               /\ orders'[j].status = "PARTIAL" => orders'[j].filled > 0
               /\ orders'[j].status = "FILLED" => orders'[j].filled >= orders'[j].quantity
               /\ Active(orders'[j]) /\ orders'[j].filled >= orders'[j].quantity => j \in trimmed'
    <3>1. CASE j = i
      <4>1. /\ st # "SUBMITTED" /\ st = "FILLED" => f >= o.quantity
            /\ Active(new) => ~(f >= o.quantity)
        BY <1>4 DEF Active
      <4> QED BY <1>3, <1>4, <1>5, <3>1, <4>1
    <3>2. CASE j # i
      <4>1. orders'[j] = orders[j] /\ (j \in trimmed => j \in trimmed')
        BY <1>1, <1>5, <3>2
      <4> QED BY <4>1 DEF OmsIInv, StatusMatchesFills
    <3> QED BY <3>1, <3>2
  <2> QED BY <1>5, <2>1 DEF StatusMatchesFills, Active
<1>9. \A y \in OmsSymbols : Held(y, Statuses)' = traded'[y]
  <2> SUFFICES ASSUME NEW y \in OmsSymbols PROVE Held(y, Statuses)' = traded'[y]
    OBVIOUS
  <2> DEFINE S == InStatus(y, Statuses)
             h == Signed
             g == Signed'
             d == o.sign * quantity
  <2>1. /\ new.symbol = o.symbol /\ new.sign = o.sign
        /\ o.symbol \in OmsSymbols /\ o.sign \in {1, -1}
    BY <1>1 DEF Order, new
  <2>2. d \in Int /\ new.sign * new.filled = o.sign * o.filled + d
    BY <1>1, <1>3, <1>4, <2>1
  <2>3. /\ \A j \in OrderIds : h[j] \in Int /\ h[j] = orders[j].sign * orders[j].filled
        /\ Held(y, Statuses) = SumFunctionOnSet(h, S)
        /\ Held(y, Statuses) \in Int
        /\ IsFiniteSet(S) /\ S \subseteq OrderIds
    BY <1>1, HeldType
  <2>4. \A j \in OrderIds : g[j] = orders'[j].sign * orders'[j].filled
    BY <1>5 DEF Signed
  <2>5. \A j \in OrderIds : orders[j].status \in Statuses /\ orders'[j].status \in Statuses
    <3>1. \A j \in OrderIds : orders[j] \in Order /\ orders'[j] \in Order
      BY <1>1, <1>5, TableType DEF OmsTypeOK, OrderIds
    <3> QED BY <3>1 DEF Order
  <2>6. \A j \in OrderIds : orders'[j].symbol = orders[j].symbol
    BY <1>5, <2>1
  <2>7. InStatus(y, Statuses)' = S
    BY <1>5, <2>5, <2>6 DEF InStatus
  <2>8. Held(y, Statuses)' = SumFunctionOnSet(g, S)
    BY <2>7 DEF Held, Signed, InStatus
  <2>9. i \in S <=> o.symbol = y
    BY <2>5 DEF InStatus
  <2>10. traded' = [traded EXCEPT ![o.symbol] = @ + d]
    BY <1>1
  <2>11. traded[y] = Held(y, Statuses) /\ traded \in [OmsSymbols -> Int]
    BY DEF OmsIInv, OmsTypeOK
  <2> HIDE DEF S, h, g, d
  <2>12. g[i] = h[i] + d /\ \A j \in OrderIds : j # i => g[j] = h[j]
    BY <1>5, <2>2, <2>3, <2>4
  <2>13. \A j \in S : h[j] \in Int /\ g[j] \in Int
    BY <2>2, <2>3, <2>12
  <2>14. /\ i \in S => SumFunctionOnSet(g, S) = SumFunctionOnSet(h, S) + g[i] - h[i]
         /\ i \notin S => SumFunctionOnSet(g, S) = SumFunctionOnSet(h, S)
    <3>1. \A j \in S : j # i => h[j] = g[j]
      BY <2>3, <2>12
    <3> QED BY <2>3, <2>13, <3>1, SumChange
  <2>15. CASE o.symbol = y
    BY <2>2, <2>3, <2>8, <2>9, <2>10, <2>11, <2>12, <2>14, <2>15
  <2>16. CASE o.symbol # y
    BY <2>8, <2>9, <2>3, <2>10, <2>11, <2>14, <2>16
  <2> QED BY <2>15, <2>16
<1> QED BY <1>1, <1>6, <1>7, <1>8, <1>9, FewerActive DEF OmsIInv

(* The open orders stay within their limit, the statuses say what was      *)
(* filled, and the orders of a symbol have filled what was traded.         *)
THEOREM OrderTableInvariant == OmsSpec => []OmsIInv
<1>1. OmsInit => OmsIInv
  <2> SUFFICES ASSUME OmsInit PROVE OmsIInv
    OBVIOUS
  <2>1. orders = <<>> /\ orders \in Seq(Order) /\ Len(orders) = 0 /\ OrderIds = {}
    BY DEF OmsInit, OrderIds
  <2>2. OmsTypeOK
    BY <2>1, OmsAssumption DEF OmsInit, OmsTypeOK
  <2>3. ActiveOrders = {} /\ Cardinality({}) = 0
    BY <2>1, FS_EmptySet DEF ActiveOrders
  <2>4. Cardinality(ActiveOrders) <= MaxOpenOrders
    BY <2>3, OmsAssumption
  <2>5. \A y \in OmsSymbols : Held(y, Statuses) = traded[y]
    <3>1. \A y : InStatus(y, Statuses) = {}
      BY <2>1 DEF InStatus
    <3>2. \A y : Held(y, Statuses) = SumFunctionOnSet(Signed, {})
      BY <2>2, <3>1, HeldType
    <3> QED BY <3>2, SumEmpty DEF OmsInit
  <2> QED BY <2>1, <2>2, <2>4, <2>5 DEF OmsIInv, StatusMatchesFills
<1>2. OmsIInv /\ [OmsNext]_omsVars => OmsIInv'
  <2>1. OmsIInv /\ UNCHANGED omsVars => OmsIInv'
    BY DEF omsVars, OmsIInv, OmsTypeOK, ActiveOrders, OrderIds, StatusMatchesFills, Held
  <2> QED BY <2>1, CreateOrderIInv, CancelOrdersIInv, AmendOrderIInv, ProcessFillIInv
          DEF OmsNext, CancelOrder, CancelAll
<1> QED BY <1>1, <1>2, PTL DEF OmsSpec

(* The order manager's accounts hold for any symbols, limit, fills and     *)
(* amendments: the position get_position reports leaves out exactly what   *)
(* open and cancelled orders filled (order_manager.py:98-162, 184-202).    *)
THEOREM OmsAccounts == OmsSpec => []OmsAccounted
<1>1. OmsIInv => OmsAccounted
  BY GapIsUnfinished DEF OmsIInv, OmsAccounted
<1> QED BY <1>1, OrderTableInvariant, PTL

-----------------------------------------------------------------------------
(* Fractions                                                               *)

(* Fractions                                                               *)

(* Dividing by k, where k divides n, is the inverse of multiplying by k.   *)
LEMMA DivisorMeans ==
    ASSUME NEW n \in Int, NEW k \in Nat \ {0}
    PROVE  /\ n \div k \in Int
           /\ Divides(k, n) => n = k * (n \div k)
           /\ \A m \in Int : n = k * m => Divides(k, n) /\ n \div k = m
<1>1. n = k * (n \div k) + (n % k) /\ n % k \in 0..(k - 1) /\ n \div k \in Int
  OBVIOUS
<1>2. ASSUME NEW m \in Int, n = k * m PROVE Divides(k, n) /\ n \div k = m
  <2> DEFINE e == m - (n \div k)
             r == n % k
  <2>1. e \in Int /\ r \in 0..(k - 1) /\ k * e = r
    BY <1>1, <1>2
  <2>2. e = 0
    <3> HIDE DEF e, r
    <3>1. CASE e >= 1
      BY <2>1, <3>1
    <3>2. CASE e <= -1
      BY <2>1, <3>2
    <3> QED BY <2>1, <3>1, <3>2
  <2> QED BY <1>1, <2>1, <2>2 DEF Divides
<1> QED BY <1>1, <1>2 DEF Divides

(* Products without their common factor.                                   *)
LEMMA Cancels ==
    ASSUME NEW d \in Nat \ {0}, NEW a \in Int, NEW b \in Int, a * d = b * d
    PROVE  a = b
<1>1. (a - b) * d = 0
  OBVIOUS
<1>2. CASE a - b >= 1
  BY <1>1, <1>2
<1>3. CASE a - b <= -1
  BY <1>1, <1>3
<1> QED BY <1>2, <1>3

\* g is the greatest common divisor of n and d.
IsGreatest(g, n, d) ==
    /\ g \in 1..d /\ Divides(g, n) /\ Divides(g, d)
    /\ \A j \in (g + 1)..d : ~(Divides(j, n) /\ Divides(j, d))

(* Reducing a fraction divides both its parts by their greatest common     *)
(* divisor.                                                                *)
LEMMA GreatestDivisor ==
    ASSUME NEW n \in Int, NEW d \in Nat \ {0}
    PROVE  \E g : IsGreatest(g, n, d) /\ Reduced(n, d) = <<n \div g, d \div g>>
<1> DEFINE Common == {k \in 1..d : Divides(k, n) /\ Divides(k, d)}
           B == {d - k : k \in Common}
<1>1. 1 \in Common
  <2>1. n = 1 * n /\ d = 1 * d
    OBVIOUS
  <2>2. Divides(1, n) /\ Divides(1, d)
    BY <2>1, DivisorMeans
  <2> QED BY <2>2
<1>2. PICK m \in B : \A k \in B : m <= k
  <2>1. B \subseteq Nat /\ B # {}
    BY <1>1
  <2> HIDE DEF B
  <2> QED BY <2>1, LeastNumber
<1>3. PICK k \in Common : m = d - k
  BY <1>2
<1>4. IsGreatest(k, n, d)
  <2>1. ASSUME NEW j \in (k + 1)..d, Divides(j, n), Divides(j, d) PROVE FALSE
    <3>1. j \in Common
      BY <1>3, <2>1
    <3>2. d - j \in B
      BY <3>1
    <3>3. m <= d - j
      BY <1>2, <3>2
    <3>4. k \in 1..d /\ m = d - k /\ j \in (k + 1)..d
      BY <1>3, <2>1
    <3> HIDE DEF B, Common
    <3> QED BY <3>3, <3>4
  <2> QED BY <1>3, <2>1 DEF IsGreatest
<1> DEFINE c == CHOOSE x \in 1..d : /\ Divides(x, n) /\ Divides(x, d)
                                    /\ \A j \in (x + 1)..d : ~(Divides(j, n) /\ Divides(j, d))
<1>5. IsGreatest(c, n, d)
  BY <1>4 DEF IsGreatest
<1>6. Reduced(n, d) = <<n \div c, d \div c>>
  BY DEF Reduced
<1> HIDE DEF c
<1> QED BY <1>5, <1>6

(* Reducing a fraction yields the one with the least denominator, which is *)
(* why equal fractions have one form.                                      *)
LEMMA LeastForm ==
    ASSUME NEW n \in Int, NEW d \in Nat \ {0},
           NEW m \in Int, NEW e \in Nat \ {0}, m * d = n * e,
           \A x \in Nat \ {0}, y \in Int : y * d = n * x => e <= x
    PROVE  Reduced(n, d) = <<m, e>>
<1>1. PICK g : IsGreatest(g, n, d) /\ Reduced(n, d) = <<n \div g, d \div g>>
  BY GreatestDivisor
<1> DEFINE a == n \div g
           b == d \div g
<1>2. g \in Nat \ {0} /\ a \in Int /\ b \in Int /\ n = g * a /\ d = g * b
  BY <1>1, DivisorMeans DEF IsGreatest
<1> HIDE DEF a, b
<1>3. b \in Nat \ {0}
  <2>1. CASE b <= 0
    BY <1>2, <2>1
  <2> QED BY <1>2, <2>1
<1>4. m * b = a * e
  <2>1. (m * b) * g = (a * e) * g
    BY <1>2
  <2> QED BY <1>2, <1>3, <2>1, Cancels
<1> DEFINE q == b \div e
           r == b % e
           y == a - q * m
<1>5. q \in Int /\ r \in 0..(e - 1) /\ b = e * q + r
  BY <1>3
<1> HIDE DEF q, r
<1>6. y \in Int
  BY <1>2, <1>5
<1>7. y * b = a * r
  <2>1. y * b = a * b - q * (m * b)
    BY <1>2, <1>3, <1>5
  <2>2. y * b = a * b - q * (a * e)
    BY <1>4, <2>1
  <2> QED BY <1>2, <1>3, <1>5, <2>2
<1> HIDE DEF y
<1>8. r = 0
  <2>1. SUFFICES ASSUME r # 0 PROVE FALSE
    OBVIOUS
  <2>2. r \in Nat \ {0}
    BY <1>5, <2>1
  <2>3. y * d = n * r
    <3>1. y * d = (y * b) * g
      BY <1>2, <1>3, <1>6
    <3>2. n * r = (a * r) * g
      BY <1>2, <1>5
    <3> QED BY <1>7, <3>1, <3>2
  <2>4. e <= r
    BY <1>6, <2>2, <2>3
  <2> QED BY <1>5, <2>4
<1>9. b = e * q /\ a = m * q
  <2>1. b = e * q
    BY <1>3, <1>5, <1>8
  <2>2. a * e = (m * q) * e
    BY <1>4, <1>5, <2>1
  <2> QED BY <1>2, <1>5, <2>1, <2>2, Cancels
<1>10. q \in Nat \ {0}
  <2>1. CASE q <= 0
    BY <1>3, <1>5, <1>9, <2>1
  <2> QED BY <1>5, <2>1
<1>11. n = (g * q) * m /\ d = (g * q) * e /\ g * q \in Nat \ {0}
  <2>1. g * q \in Nat \ {0}
    <3>1. g >= 1 /\ q >= 1
      BY <1>2, <1>10
    <3>2. g * q >= 1
      BY <1>2, <1>10, <3>1
    <3> QED BY <1>2, <1>10, <3>2
  <2> QED BY <1>2, <1>9, <1>10, <2>1
<1>12. Divides(g * q, n) /\ Divides(g * q, d)
  BY <1>11, DivisorMeans
<1>13. g * q <= g
  <2>1. g * q <= d
    BY <1>11
  <2> DEFINE p == g * q
  <2>2. p \in Nat \ {0}
    BY <1>11
  <2>3. Divides(p, n) /\ Divides(p, d) /\ p <= d
    BY <1>12, <2>1
  <2> HIDE DEF p
  <2>4. p <= g
    BY <1>1, <1>2, <2>2, <2>3 DEF IsGreatest
  <2> QED BY <2>4 DEF p
<1>14. q = 1
  <2>1. CASE q >= 2
    <3>1. g * (q - 2) >= 0
      BY <1>2, <1>10, <2>1
    <3>2. g * q >= 2 * g
      BY <1>2, <1>10, <3>1
    <3> QED BY <1>2, <1>10, <1>13, <3>2
  <2> QED BY <1>10, <2>1
<1>15. a = m /\ b = e
  BY <1>9, <1>14
<1> QED BY <1>1, <1>15 DEF a, b

(* Every fraction has a form of least denominator.                         *)
LEMMA LeastFormExists ==
    ASSUME NEW n \in Int, NEW d \in Nat \ {0}
    PROVE  \E m \in Int, e \in Nat \ {0} :
              /\ m * d = n * e
              /\ \A x \in Nat \ {0}, y \in Int : y * d = n * x => e <= x
<1> DEFINE B == {x \in Nat \ {0} : \E y \in Int : y * d = n * x}
<1>1. B \subseteq Nat /\ d \in B
  OBVIOUS
<1>2. PICK e \in B : \A x \in B : e <= x
  <2> HIDE DEF B
  <2> QED BY <1>1, LeastNumber
<1>3. PICK m \in Int : m * d = n * e
  BY <1>2
<1> QED BY <1>2, <1>3

(* A reduced fraction is equal to the fraction, and equal fractions reduce *)
(* to the same.                                                            *)
LEMMA ReducedEqual ==
    ASSUME NEW n \in Int, NEW d \in Nat \ {0}
    PROVE  /\ Reduced(n, d) \in Fraction
           /\ Reduced(n, d)[1] * d = n * Reduced(n, d)[2]
           /\ \A k \in Int, c \in Nat \ {0} : n * c = k * d => Reduced(n, d) = Reduced(k, c)
<1>1. PICK m \in Int, e \in Nat \ {0} :
         /\ m * d = n * e
         /\ \A x \in Nat \ {0}, y \in Int : y * d = n * x => e <= x
  BY LeastFormExists
<1>2. Reduced(n, d) = <<m, e>>
  BY <1>1, LeastForm
<1>3. ASSUME NEW k \in Int, NEW c \in Nat \ {0}, n * c = k * d
      PROVE  Reduced(k, c) = <<m, e>>
  <2>1. ASSUME NEW x \in Nat \ {0}, NEW y \in Int
        PROVE  y * d = n * x <=> y * c = k * x
    <3>1. (y * d) * c = (y * c) * d /\ (n * x) * c = (k * x) * d
      BY <1>3
    <3>2. y * d \in Int /\ y * c \in Int /\ n * x \in Int /\ k * x \in Int
      OBVIOUS
    <3> QED BY <3>1, <3>2, Cancels
  <2>2. m * c = k * e
    BY <1>1, <2>1
  <2> QED BY <1>1, <2>1, <2>2, LeastForm
<1> QED BY <1>1, <1>2, <1>3 DEF Fraction

(* x is the fraction n/d.                                                  *)
Is(x, n, d) == x \in Fraction /\ n \in Int /\ d \in Nat \ {0} /\ x[1] * d = n * x[2]

(* The numerator and the denominator of a fraction.                        *)
LEMMA FractionParts == ASSUME NEW x \in Fraction PROVE x[1] \in Int /\ x[2] \in Nat \ {0}
BY DEF Fraction

(* The product of two positive numbers is positive.                        *)
LEMMA PositiveProduct ==
    ASSUME NEW a \in Nat \ {0}, NEW b \in Nat \ {0} PROVE a * b \in Nat \ {0}
<1>1. a >= 1 /\ b >= 1 /\ (a - 1) * (b - 1) >= 0
  OBVIOUS
<1> QED BY <1>1

(* A whole number, over any denominator.                                   *)
LEMMA WholeIs == ASSUME NEW k \in Int, NEW d \in Nat \ {0} PROVE Is(Whole(k), k * d, d)
BY DEF Is, Whole, Fraction

(* Adding two fractions of one denominator adds their numerators.          *)
LEMMA PlusIs ==
    ASSUME NEW x, NEW y, NEW n, NEW m, NEW d, Is(x, n, d), Is(y, m, d)
    PROVE  Is(Plus(x, y), n + m, d)
<1> DEFINE a == x[1]
           b == x[2]
           c == y[1]
           e == y[2]
           r == Reduced(a * e + c * b, b * e)
<1>1. /\ a \in Int /\ b \in Nat \ {0} /\ c \in Int /\ e \in Nat \ {0}
      /\ n \in Int /\ m \in Int /\ d \in Nat \ {0} /\ a * d = n * b /\ c * d = m * e
  BY FractionParts DEF Is
<1>2. Plus(x, y) = r
  BY DEF Plus
<1> HIDE DEF a, b, c, e
<1>3. b * e \in Nat \ {0} /\ a * e + c * b \in Int
  BY <1>1, PositiveProduct
<1>4. r \in Fraction /\ r[1] * (b * e) = (a * e + c * b) * r[2]
  BY <1>3, ReducedEqual
<1> HIDE DEF r
<1>5. r[1] \in Int /\ r[2] \in Int
  BY <1>4, FractionParts
<1>6. (r[1] * d) * (b * e) = ((n + m) * r[2]) * (b * e)
  <2>1. (r[1] * d) * (b * e) = ((a * e + c * b) * r[2]) * d
    BY <1>1, <1>4, <1>5
  <2>2. ((a * e + c * b) * r[2]) * d = (a * d) * e * r[2] + (c * d) * b * r[2]
    BY <1>1, <1>5
  <2>3. (a * d) * e * r[2] + (c * d) * b * r[2] = (n * b) * e * r[2] + (m * e) * b * r[2]
    BY <1>1
  <2>4. (n * b) * e * r[2] + (m * e) * b * r[2] = ((n + m) * r[2]) * (b * e)
    BY <1>1, <1>5
  <2> QED BY <2>1, <2>2, <2>3, <2>4
<1>7. r[1] * d = (n + m) * r[2]
  <2>1. r[1] * d \in Int /\ (n + m) * r[2] \in Int
    BY <1>1, <1>5
  <2> QED BY <1>3, <1>6, <2>1, Cancels
<1> QED BY <1>1, <1>2, <1>4, <1>7 DEF Is

(* Multiplying a fraction by a number multiplies its numerator.            *)
LEMMA TimesIs ==
    ASSUME NEW x, NEW n, NEW d, Is(x, n, d), NEW k \in Int
    PROVE  Is(Times(x, k), n * k, d)
<1> DEFINE a == x[1]
           b == x[2]
           r == Reduced(a * k, b)
<1>1. a \in Int /\ b \in Nat \ {0} /\ n \in Int /\ d \in Nat \ {0} /\ a * d = n * b
  BY FractionParts DEF Is
<1>2. Times(x, k) = r
  BY DEF Times
<1> HIDE DEF a, b
<1>3. r \in Fraction /\ r[1] * b = (a * k) * r[2]
  <2>1. a * k \in Int
    BY <1>1
  <2> QED BY <1>1, <2>1, ReducedEqual
<1> HIDE DEF r
<1>4. r[1] \in Int /\ r[2] \in Int
  BY <1>3, FractionParts
<1>5. (r[1] * d) * b = ((n * k) * r[2]) * b
  <2>1. (r[1] * d) * b = ((a * k) * r[2]) * d
    BY <1>1, <1>3, <1>4
  <2>2. ((a * k) * r[2]) * d = (a * d) * k * r[2]
    BY <1>1, <1>4
  <2>3. (a * d) * k * r[2] = (n * b) * k * r[2]
    BY <1>1
  <2>4. (n * b) * k * r[2] = ((n * k) * r[2]) * b
    BY <1>1, <1>4
  <2> QED BY <2>1, <2>2, <2>3, <2>4
<1>6. r[1] * d = (n * k) * r[2] /\ n * k \in Int
  <2>1. r[1] * d \in Int /\ (n * k) * r[2] \in Int /\ n * k \in Int
    BY <1>1, <1>4
  <2> QED BY <1>1, <1>5, <2>1, Cancels
<1> QED BY <1>1, <1>2, <1>3, <1>6 DEF Is

(* Dividing a fraction by a number multiplies its denominator.             *)
LEMMA OverIs ==
    ASSUME NEW x, NEW n, NEW d, Is(x, n, d), NEW k \in Nat \ {0}
    PROVE  Is(Over(x, k), n, d * k)
<1> DEFINE a == x[1]
           b == x[2]
           r == Reduced(a, b * k)
<1>1. a \in Int /\ b \in Nat \ {0} /\ n \in Int /\ d \in Nat \ {0} /\ a * d = n * b
  BY FractionParts DEF Is
<1>2. Over(x, k) = r
  BY DEF Over
<1> HIDE DEF a, b
<1>3. b * k \in Nat \ {0} /\ d * k \in Nat \ {0}
  BY <1>1, PositiveProduct
<1>4. r \in Fraction /\ r[1] * (b * k) = a * r[2]
  BY <1>1, <1>3, ReducedEqual
<1> HIDE DEF r
<1>5. r[1] \in Int /\ r[2] \in Int
  BY <1>4, FractionParts
<1>6. (r[1] * (d * k)) * b = (n * r[2]) * b
  <2>1. (r[1] * (d * k)) * b = (r[1] * (b * k)) * d
    BY <1>1, <1>5
  <2>2. (a * r[2]) * d = (a * d) * r[2]
    BY <1>1, <1>5
  <2>3. (n * b) * r[2] = (n * r[2]) * b
    BY <1>1, <1>5
  <2> QED BY <1>1, <1>4, <2>1, <2>2, <2>3
<1>7. r[1] * (d * k) = n * r[2]
  <2>1. r[1] * (d * k) \in Int /\ n * r[2] \in Int
    BY <1>1, <1>3, <1>5
  <2> QED BY <1>1, <1>6, <2>1, Cancels
<1> QED BY <1>1, <1>2, <1>3, <1>4, <1>7 DEF Is

(* What a book realized, what its position cost and what was paid balance, *)
(* as an equation of whole numbers over a common denominator.              *)
Balances(profit, average, quantity, paid) ==
    \E d \in Nat \ {0}, p \in Int, a \in Int :
       Is(profit, p, d) /\ Is(average, a, d) /\ p + paid * d = a * quantity

(* The same as an equation of reduced fractions.                           *)
LEMMA BalancedFractions ==
    ASSUME NEW x, NEW y, NEW quantity \in Int, NEW paid \in Int,
           Balances(x, y, quantity, paid)
    PROVE  Plus(x, Whole(paid)) = Times(y, quantity)
<1>1. PICK d \in Nat \ {0}, p \in Int, a \in Int :
         Is(x, p, d) /\ Is(y, a, d) /\ p + paid * d = a * quantity
  BY DEF Balances
<1> DEFINE n == x[1]
           b == x[2]
           m == y[1]
           c == y[2]
<1>2. /\ n \in Int /\ b \in Nat \ {0} /\ m \in Int /\ c \in Nat \ {0}
      /\ n * d = p * b /\ m * d = a * c
  BY <1>1, FractionParts DEF Is
<1>3. Plus(x, Whole(paid)) = Reduced(n * 1 + paid * b, b * 1)
      /\ Times(y, quantity) = Reduced(m * quantity, c)
  BY DEF Plus, Times, Whole
<1> HIDE DEF n, b, m, c
<1>4. n * 1 + paid * b = n + paid * b /\ b * 1 = b /\ n + paid * b \in Int /\ m * quantity \in Int
  BY <1>2
<1>5. ((n + paid * b) * c) * d = ((m * quantity) * b) * d
  <2>1. ((n + paid * b) * c) * d = (n * d) * c + paid * b * c * d
    BY <1>2
  <2>2. (n * d) * c + paid * b * c * d = (p + paid * d) * (b * c)
    BY <1>2
  <2>3. (a * quantity) * (b * c) = (a * c) * quantity * b
    BY <1>2
  <2>4. (m * d) * quantity * b = ((m * quantity) * b) * d
    BY <1>2
  <2> QED BY <1>1, <1>2, <2>1, <2>2, <2>3, <2>4
<1>6. (n + paid * b) * c = (m * quantity) * b
  <2>1. (n + paid * b) * c \in Int /\ (m * quantity) * b \in Int
    BY <1>2
  <2> QED BY <1>5, <2>1, Cancels
<1> QED BY <1>2, <1>3, <1>4, <1>6, ReducedEqual

(* A profit that grows by what is paid besides.                            *)
LEMMA BalancesMore ==
    ASSUME NEW x, NEW y, NEW quantity \in Int, NEW paid \in Int, NEW k \in Int,
           Balances(x, y, quantity, paid + k)
    PROVE  Balances(Plus(x, Whole(k)), y, quantity, paid)
<1>1. PICK d \in Nat \ {0}, p \in Int, a \in Int :
         Is(x, p, d) /\ Is(y, a, d) /\ p + (paid + k) * d = a * quantity
  BY DEF Balances
<1>2. Is(Plus(x, Whole(k)), p + k * d, d)
  BY <1>1, WholeIs, PlusIs
<1>3. (p + k * d) + paid * d = a * quantity /\ p + k * d \in Int
  BY <1>1
<1> QED BY <1>1, <1>2, <1>3 DEF Balances

(* A position bought from nothing.                                         *)
LEMMA BalancesOpened ==
    ASSUME NEW x, NEW y, NEW paid \in Int, Balances(x, y, 0, paid),
           NEW price \in Int, NEW quantity \in Int
    PROVE  Balances(x, Whole(price), quantity, paid + quantity * price)
<1>1. PICK d \in Nat \ {0}, p \in Int, a \in Int : Is(x, p, d) /\ p + paid * d = a * 0
  BY DEF Balances
<1>2. Is(Whole(price), price * d, d)
  BY <1>1, WholeIs
<1>3. p + (paid + quantity * price) * d = (price * d) * quantity /\ price * d \in Int
  BY <1>1
<1> QED BY <1>1, <1>2, <1>3 DEF Balances

(* A position of size held on side s that grows by n.                      *)
LEMMA BalancesAdded ==
    ASSUME NEW x, NEW y, NEW s \in {1, -1}, NEW size \in Nat, NEW paid \in Int,
           Balances(x, y, s * size, paid),
           NEW price \in Int, NEW n \in Nat \ {0}
    PROVE  Balances(x, Averaged(y, size, price, n), s * size + s * n, paid + s * n * price)
<1>1. PICK d \in Nat \ {0}, p \in Int, a \in Int :
         Is(x, p, d) /\ Is(y, a, d) /\ p + paid * d = a * (s * size)
  BY DEF Balances
<1> DEFINE k == size + n
           m == a * size + (price * n) * d
           e == d * k
<1>2. k \in Nat \ {0} /\ m \in Int /\ e \in Nat \ {0}
  <2>1. k \in Nat \ {0} /\ m \in Int
    BY <1>1
  <2> QED BY <1>1, <2>1, PositiveProduct
<1>3. Is(Averaged(y, size, price, n), m, e)
  <2>1. Is(Times(y, size), a * size, d)
    BY <1>1, TimesIs
  <2>2. price * n \in Int
    OBVIOUS
  <2>3. Is(Whole(price * n), (price * n) * d, d)
    BY <1>1, <2>2, WholeIs
  <2>4. Is(Plus(Times(y, size), Whole(price * n)), m, d)
    BY <2>1, <2>3, PlusIs
  <2> QED BY <1>2, <2>4, OverIs DEF Averaged
<1>4. Is(x, p * k, e)
  <2>1. x[1] * d = p * x[2] /\ x[1] \in Int /\ x[2] \in Int /\ x \in Fraction
    BY <1>1, FractionParts DEF Is
  <2>2. x[1] * (d * k) = (x[1] * d) * k /\ (p * x[2]) * k = (p * k) * x[2] /\ p * k \in Int
    BY <1>1, <1>2, <2>1
  <2> QED BY <1>2, <2>1, <2>2 DEF Is
<1>5. p * k + (paid + s * n * price) * e = m * (s * size + s * n)
  <2> HIDE DEF k
  <2>1. p * k + (paid + s * n * price) * (d * k) = (p + paid * d) * k + (s * n * price * d) * k
    BY <1>1, <1>2
  <2>2. (a * (s * size)) * k + (s * n * price * d) * k = m * (s * k)
    BY <1>1, <1>2
  <2>3. s * k = s * size + s * n
    BY DEF k
  <2> QED BY <1>1, <2>1, <2>2, <2>3
<1>6. p * k \in Int
  BY <1>1, <1>2
<1> QED BY <1>2, <1>3, <1>4, <1>5, <1>6 DEF Balances

(* The profit of closing n at a price.                                     *)
LEMMA PnlIs ==
    ASSUME NEW y, NEW a, NEW d, Is(y, a, d), NEW s \in Int, NEW price \in Int, NEW n \in Int
    PROVE  Is(Pnl(y, s, price, n), (price * d - a) * (s * n), d)
<1>1. a \in Int /\ d \in Nat \ {0}
  BY DEF Is
<1>2. Is(Times(y, -1), a * (-1), d)
  BY TimesIs
<1>3. Is(Whole(price), price * d, d)
  BY <1>1, WholeIs
<1>4. price * d + a * (-1) = price * d - a /\ s * n \in Int
  BY <1>1
<1>5. Is(Plus(Whole(price), Times(y, -1)), price * d - a, d)
  BY <1>2, <1>3, <1>4, PlusIs
<1> QED BY <1>4, <1>5, TimesIs DEF Pnl

(* A position of a size on side s that a fill on the other side reduces by *)
(* n, or closes, or crosses.                                               *)
LEMMA BalancesReduced ==
    ASSUME NEW x, NEW y, NEW quantity \in Int, NEW paid \in Int,
           Balances(x, y, quantity, paid),
           NEW s \in {1, -1}, NEW price \in Int, NEW n \in Int
    PROVE  Balances(Plus(x, Pnl(y, -s, price, n)), y, quantity + s * n, paid + s * n * price)
<1>1. PICK d \in Nat \ {0}, p \in Int, a \in Int :
         Is(x, p, d) /\ Is(y, a, d) /\ p + paid * d = a * quantity
  BY DEF Balances
<1> DEFINE k == (price * d - a) * ((-s) * n)
<1>2. Is(Plus(x, Pnl(y, -s, price, n)), p + k, d)
  <2>1. -s \in Int
    OBVIOUS
  <2> QED BY <1>1, <2>1, PnlIs, PlusIs
<1>3. (p + k) + (paid + s * n * price) * d = a * (quantity + s * n)
  <2>1. CASE s = 1
    BY <1>1, <2>1
  <2>2. CASE s = -1
    BY <1>1, <2>2
  <2> QED BY <2>1, <2>2
<1>4. p + k \in Int
  BY <1>1
<1> QED BY <1>1, <1>2, <1>3, <1>4 DEF Balances

(* What balances is a profit and an average price.                         *)
LEMMA BalancesTypes ==
    ASSUME NEW x, NEW y, NEW q, NEW paid, Balances(x, y, q, paid)
    PROVE  x \in Fraction /\ y \in Fraction
BY DEF Balances, Is

-----------------------------------------------------------------------------
(* The books                                                               *)

\* The two books agree on the position and the fees; each balances with
\* what was paid for the position, the tracked one as long as no fill
\* crossed from long to short; and the cash is what is left of it.
BooksIInv ==
    /\ cash \in Int /\ commission \in Nat /\ outlay \in Int /\ exitFees \in Nat
    /\ pos.quantity \in Int
    /\ booked \in 0..MaxBooked /\ plain \in BOOLEAN /\ crossed \in BOOLEAN
    /\ tracked.quantity = pos.quantity /\ tracked.fees = commission
    /\ tracked.average \in Fraction /\ tracked.realized \in Fraction
    /\ Balances(realized, pos.average, pos.quantity, outlay + exitFees)
    /\ ~crossed => Balances(tracked.realized, tracked.average, tracked.quantity, outlay)
    /\ plain => cash = InitialCash - outlay - commission /\ pos.quantity >= 0

(* The inductive invariant implies what the run checks.                    *)
LEMMA BooksInvImplies == BooksIInv => BooksAgree
<1> SUFFICES ASSUME BooksIInv PROVE BooksAgree
  OBVIOUS
<1>1. realized \in Fraction /\ pos.average \in Fraction
  BY BalancesTypes DEF BooksIInv
<1>2. BooksTypeOK
  BY <1>1 DEF BooksTypeOK, BooksIInv
<1>3. PortfolioExact
  <2> DEFINE u == Plus(realized, Whole(exitFees))
  <2>1. /\ outlay \in Int /\ exitFees \in Int /\ pos.quantity \in Int
        /\ Balances(realized, pos.average, pos.quantity, outlay + exitFees)
    BY DEF BooksIInv
  <2>2. Balances(u, pos.average, pos.quantity, outlay)
    BY <2>1, BalancesMore
  <2> HIDE DEF u
  <2>3. Plus(u, Whole(outlay)) = Times(pos.average, pos.quantity)
    BY <2>1, <2>2, BalancedFractions
  <2> QED BY <2>3 DEF PortfolioExact, PaidFor, u
<1>4. TrackerExact
  BY BalancedFractions DEF TrackerExact, PaidFor, BooksIInv
<1>5. CashExact
  BY DEF CashExact, BooksIInv
<1> QED BY <1>2, <1>3, <1>4, <1>5 DEF BooksAgree

(* The invariant holds of the empty books.                                 *)
LEMMA BooksInitHolds == BooksInit => BooksIInv
<1> SUFFICES ASSUME BooksInit PROVE BooksIInv
  OBVIOUS
<1>1. Is(Whole(0), 0, 1) /\ Whole(0) \in Fraction
  BY DEF Is, Whole, Fraction
<1>2. Balances(Whole(0), Whole(0), 0, 0)
  BY <1>1 DEF Balances
<1>3. /\ pos.quantity = 0 /\ pos.average = Whole(0) /\ realized = Whole(0)
      /\ tracked.quantity = 0 /\ tracked.average = Whole(0) /\ tracked.realized = Whole(0)
      /\ tracked.fees = 0 /\ outlay = 0 /\ exitFees = 0 /\ 0 + 0 = 0
      /\ cash = InitialCash /\ commission = 0 /\ booked = 0
  BY DEF BooksInit
<1>4. 0 \in 0..MaxBooked /\ InitialCash \in Int /\ InitialCash = InitialCash - 0 - 0
  BY BooksAssumption
<1>5. Balances(realized, pos.average, pos.quantity, outlay + exitFees)
  BY <1>2, <1>3
<1>6. Balances(tracked.realized, tracked.average, tracked.quantity, outlay)
  BY <1>2, <1>3
<1>7. /\ cash \in Int /\ commission \in Nat /\ outlay \in Int /\ exitFees \in Nat
      /\ pos.quantity \in Int /\ booked \in 0..MaxBooked
  BY <1>3, <1>4
<1>10. plain \in BOOLEAN /\ crossed \in BOOLEAN
  BY DEF BooksInit
<1>8. /\ tracked.quantity = pos.quantity /\ tracked.fees = commission
      /\ tracked.average \in Fraction /\ tracked.realized \in Fraction
  BY <1>1, <1>3
<1>9. cash = InitialCash - outlay - commission /\ pos.quantity >= 0
  BY <1>3, <1>4
<1> QED BY <1>5, <1>6, <1>7, <1>8, <1>9, <1>10 DEF BooksIInv

(* What a fill does to the portfolio's side of the invariant.              *)
LEMMA ApplyFillKeeps ==
    ASSUME BooksIInv, NEW s \in {1, -1}, NEW n \in Nat \ {0}, NEW price \in Nat \ {0},
           NEW fee \in Nat, ApplyFill(s, n, price, fee)
    PROVE  /\ cash' \in Int /\ commission' \in Nat /\ exitFees' \in Nat
           /\ pos'.quantity = pos.quantity + s * n
           /\ Balances(realized', pos'.average, pos.quantity + s * n,
                       outlay + s * n * price + exitFees')
           /\ plain /\ pos.quantity + s * n >= 0 /\ ~SameSide(pos.quantity, s) =>
                 cash' = InitialCash - (outlay + s * n * price) - commission'
<1> DEFINE q == pos.quantity
           held == Abs(q)
           x == realized
           y == pos.average
           paid == outlay + exitFees
<1>1. /\ cash \in Int /\ commission \in Nat /\ outlay \in Int /\ exitFees \in Nat /\ q \in Int
      /\ Balances(x, y, q, paid) /\ paid \in Int
      /\ plain => cash = InitialCash - outlay - commission /\ q >= 0
      /\ commission' = commission + fee /\ InitialCash \in Int
  BY BooksAssumption DEF BooksIInv, ApplyFill
<1>2. CASE q = 0
  <2>1. /\ cash' = cash - (n * price + fee)
        /\ pos' = [quantity |-> s * n, average |-> Whole(price)]
        /\ realized' = x /\ exitFees' = exitFees
    BY <1>2 DEF ApplyFill, Open, Cost
  <2>2. s * n \in Int /\ (s * n) * price = s * n * price
    OBVIOUS
  <2>3. Balances(x, Whole(price), s * n, paid + (s * n) * price)
    BY <1>1, <1>2, <2>2, BalancesOpened
  <2>4. pos'.quantity = s * n /\ pos'.average = Whole(price) /\ q + s * n = s * n
    BY <1>2, <2>1, <2>2
  <2>5. outlay + s * n * price + exitFees' = paid + (s * n) * price
    BY <1>1, <2>1
  <2>6. plain /\ q + s * n >= 0 => cash' = InitialCash - (outlay + s * n * price) - commission'
    <3>1. q + s * n >= 0 => s = 1
      BY <1>2
    <3> QED BY <1>1, <2>1, <3>1
  <2>7. cash' \in Int
    BY <1>1, <2>1
  <2> QED BY <1>1, <2>1, <2>3, <2>4, <2>5, <2>6, <2>7
<1>3. CASE q # 0 /\ SameSide(q, s)
  <2>1. /\ cash' = cash /\ realized' = x /\ exitFees' = exitFees
        /\ pos'.quantity = q + s * n /\ pos'.average = Averaged(y, held, price, n)
    BY <1>3 DEF ApplyFill, AddToPosition
  <2>2. held \in Nat /\ q = s * held
    BY <1>1, <1>3 DEF SameSide, Abs
  <2>3. Balances(x, Averaged(y, held, price, n), s * held + s * n, paid + s * n * price)
    <3> HIDE DEF held, x, y, q, paid
    <3>1. Balances(x, y, s * held, paid) /\ price \in Int /\ paid \in Int /\ held \in Nat
      BY <1>1, <2>2
    <3> QED BY <3>1, BalancesAdded
  <2> HIDE DEF held
  <2>4. outlay + s * n * price + exitFees' = paid + s * n * price
    BY <1>1, <2>1
  <2> QED BY <1>1, <1>3, <2>1, <2>2, <2>3, <2>4
<1>4. CASE q # 0 /\ ~SameSide(q, s)
  <2> DEFINE closed == IF n < held THEN n ELSE held
             rest == n - closed
             u == Plus(x, Pnl(y, -s, price, closed))
  <2>1. /\ realized' = Plus(u, Whole(-fee))
        /\ cash' = cash + closed * price - fee - (IF rest > 0 THEN rest * price + fee ELSE 0)
        /\ pos'.quantity = q + s * n
        /\ pos'.average = (IF n < held THEN y ELSE Whole(price))
        /\ exitFees' = exitFees + fee
    BY <1>4 DEF ApplyFill, Reduce, Cost
  <2>2. held \in Nat /\ q = (-s) * held /\ closed \in Nat /\ rest \in Nat
    BY <1>1, <1>4 DEF SameSide, Abs
  <2>3. Balances(u, y, q + s * closed, paid + s * closed * price)
    <3> HIDE DEF held, x, y, q, paid, closed
    <3>1. closed \in Int /\ q \in Int /\ paid \in Int /\ Balances(x, y, q, paid)
      BY <1>1, <2>2
    <3> QED BY <3>1, BalancesReduced
  <2> HIDE DEF u
  <2>4. Balances(u, pos'.average, q + s * n, paid + s * n * price)
    <3>1. CASE n < held
      BY <2>1, <2>3, <3>1
    <3>2. CASE ~(n < held)
      <4>1. closed = held /\ q + s * closed = 0
        BY <2>2, <3>2
      <4>2. s * rest \in Int /\ paid + s * closed * price \in Int
        BY <1>1, <2>2
      <4>3. Balances(u, Whole(price), s * rest, (paid + s * closed * price) + (s * rest) * price)
        <5> DEFINE before == paid + s * closed * price
                   left == s * rest
        <5>1. before \in Int /\ left \in Int /\ Balances(u, y, 0, before)
          BY <2>3, <4>1, <4>2
        <5> HIDE DEF before, left, y
        <5>2. Balances(u, Whole(price), left, before + left * price)
          BY <5>1, BalancesOpened
        <5> QED BY <5>2 DEF before, left
      <4>4. s * rest = q + s * n
        BY <1>1, <2>2, <4>1
      <4>5. (paid + s * closed * price) + (s * rest) * price = paid + s * n * price
        BY <1>1, <2>2
      <4> QED BY <2>1, <3>2, <4>3, <4>4, <4>5
    <3> QED BY <3>1, <3>2
  <2>5. Balances(realized', pos'.average, q + s * n, outlay + s * n * price + exitFees')
    <3> DEFINE w == paid + s * n * price + fee
    <3>1. w \in Int /\ w + (-fee) = paid + s * n * price /\ q + s * n \in Int /\ -fee \in Int
      BY <1>1
    <3>2. outlay + s * n * price + exitFees' = w
      BY <1>1, <2>1
    <3> HIDE DEF w
    <3>3. Balances(Plus(u, Whole(-fee)), pos'.average, q + s * n, w)
      BY <2>4, <3>1, BalancesMore
    <3> QED BY <2>1, <3>2, <3>3
  <2>6. plain /\ q + s * n >= 0 => cash' = InitialCash - (outlay + s * n * price) - commission'
    <3>1. plain /\ q + s * n >= 0 => s = -1 /\ n <= held /\ closed = n /\ rest = 0
      BY <1>1, <1>4, <2>2
    <3> HIDE DEF closed, rest, held
    <3> QED BY <1>1, <2>1, <3>1
  <2>7. cash' \in Int
    <3> HIDE DEF closed, rest, held
    <3> QED BY <1>1, <2>1, <2>2
  <2> QED BY <1>1, <2>1, <2>5, <2>6, <2>7
<1> QED BY <1>2, <1>3, <1>4

(* What a fill does to the tracker.                                        *)
LEMMA UpdatePositionKeeps ==
    ASSUME BooksIInv, NEW s \in {1, -1}, NEW n \in Nat \ {0}, NEW price \in Nat \ {0},
           NEW fee \in Nat, UpdatePosition(s, n, price, fee)
    PROVE  /\ tracked'.quantity = tracked.quantity + s * n
           /\ tracked'.fees = commission + fee
           /\ tracked'.average \in Fraction /\ tracked'.realized \in Fraction
           /\ ~crossed /\ ~(tracked.quantity * (tracked.quantity + s * n) < 0) =>
                 Balances(tracked'.realized, tracked'.average, tracked.quantity + s * n,
                          outlay + s * n * price)
<1> DEFINE q == tracked.quantity
           x == tracked.realized
           y == tracked.average
           held == Abs(q)
           new == q + s * n
           adds == q = 0 \/ SameSide(q, s)
<1>1. /\ q \in Int /\ outlay \in Int /\ x \in Fraction /\ y \in Fraction
      /\ ~crossed => Balances(x, y, q, outlay) /\ new \in Int
  BY DEF BooksIInv
<1>2. /\ tracked'.quantity = new /\ tracked'.fees = commission + fee
      /\ tracked'.average = (IF adds THEN Averaged(y, held, price, n) ELSE y)
      /\ tracked'.realized = (IF ~adds /\ Abs(new) < held THEN Plus(x, Pnl(y, -s, price, n)) ELSE x)
  BY DEF UpdatePosition, BooksIInv
<1>3. Averaged(y, held, price, n) \in Fraction /\ Plus(x, Pnl(y, -s, price, n)) \in Fraction
  <2>1. held \in Nat
    BY <1>1 DEF Abs
  <2>2. Is(x, x[1], x[2]) /\ Is(y, y[1], y[2])
    BY <1>1, FractionParts DEF Is
  <2>3. Times(y, held) \in Fraction
    <3> HIDE DEF held, y
    <3>1. held \in Int
      BY <2>1
    <3>2. Is(Times(y, held), y[1] * held, y[2])
      BY <2>2, <3>1, TimesIs
    <3> QED BY <3>2 DEF Is
  <2>4. \A z, w \in Fraction : Plus(z, w) \in Fraction
    <3> TAKE z, w \in Fraction
    <3>0. z[1] \in Int /\ z[2] \in Nat \ {0} /\ w[1] \in Int /\ w[2] \in Nat \ {0}
      BY FractionParts
    <3>1. z[1] * w[2] + w[1] * z[2] \in Int /\ z[2] * w[2] \in Nat \ {0}
      BY <3>0, PositiveProduct
    <3> QED BY <3>1, ReducedEqual DEF Plus
  <2>5. Whole(price * n) \in Fraction
    BY DEF Whole, Fraction
  <2>6. \A z \in Fraction, k \in Nat \ {0} : Over(z, k) \in Fraction
    <3> TAKE z \in Fraction, k \in Nat \ {0}
    <3>1. Is(z, z[1], z[2])
      BY FractionParts DEF Is
    <3> QED BY <3>1, OverIs DEF Is
  <2>7. held + n \in Nat \ {0}
    BY <2>1
  <2>8. Averaged(y, held, price, n) \in Fraction
    BY <2>3, <2>4, <2>5, <2>6, <2>7 DEF Averaged
  <2>9. Pnl(y, -s, price, n) \in Fraction
    <3> HIDE DEF y
    <3>1. -s \in Int /\ price \in Int /\ n \in Int
      OBVIOUS
    <3>2. Is(Pnl(y, -s, price, n), (price * y[2] - y[1]) * ((-s) * n), y[2])
      BY <2>2, <3>1, PnlIs
    <3> QED BY <3>2 DEF Is
  <2> QED BY <1>1, <2>4, <2>8, <2>9
<1>4. ASSUME ~crossed, ~(q * new < 0)
      PROVE  Balances(tracked'.realized, tracked'.average, new, outlay + s * n * price)
  <2>1. CASE adds
    <3>1. held \in Nat /\ q = s * held
      BY <1>1, <2>1 DEF SameSide, Abs
    <3> HIDE DEF held
    <3>2. Balances(x, Averaged(y, held, price, n), s * held + s * n, outlay + s * n * price)
      <4> HIDE DEF x, y, q
      <4>1. Balances(x, y, s * held, outlay) /\ price \in Int
        BY <1>1, <1>4, <3>1
      <4> QED BY <1>1, <3>1, <4>1, BalancesAdded
    <3> QED BY <1>2, <2>1, <3>1, <3>2
  <2>2. CASE ~adds
    <3>1. Abs(new) < held
      <4>1. CASE q > 0
        <5>1. s = -1
          BY <1>1, <2>2, <4>1 DEF SameSide
        <5>2. new >= 0
          <6>1. SUFFICES ASSUME new < 0 PROVE FALSE
            BY <1>1
          <6>2. q * new < 0
            BY <1>1, <4>1, <6>1
          <6> QED BY <1>4, <6>2
        <5> QED BY <1>1, <4>1, <5>1, <5>2 DEF Abs
      <4>2. CASE q < 0
        <5>1. s = 1
          BY <1>1, <2>2, <4>2 DEF SameSide
        <5>2. new <= 0
          <6>1. SUFFICES ASSUME new > 0 PROVE FALSE
            BY <1>1
          <6>2. q * new < 0
            BY <1>1, <4>2, <6>1
          <6> QED BY <1>4, <6>2
        <5> QED BY <1>1, <4>2, <5>1, <5>2 DEF Abs
      <4> QED BY <1>1, <2>2, <4>1, <4>2
    <3>2. Balances(Plus(x, Pnl(y, -s, price, n)), y, new, outlay + s * n * price)
      <4>1. Balances(x, y, q, outlay) /\ price \in Int /\ n \in Int
        BY <1>1, <1>4
      <4> HIDE DEF x, y, q
      <4> QED BY <1>1, <4>1, BalancesReduced
    <3> QED BY <1>2, <2>2, <3>1, <3>2
  <2> QED BY <2>1, <2>2
<1> QED BY <1>1, <1>2, <1>3, <1>4

(* Every fill keeps the invariant of the books.                            *)
LEMMA BookStep == BooksIInv /\ [BooksNext]_bookVars => BooksIInv'
<1> SUFFICES ASSUME BooksIInv, [BooksNext]_bookVars PROVE BooksIInv'
  OBVIOUS
<1>1. ASSUME NEW s \in {1, -1}, NEW n \in FillSizes, NEW price \in FillPrices, NEW fee \in FillFees,
             Book(s, n, price, fee)
      PROVE  BooksIInv'
  <2>1. n \in Nat \ {0} /\ price \in Nat \ {0} /\ fee \in Nat /\ s * n * price \in Int
    BY BooksAssumption
  <2>2. /\ cash' \in Int /\ commission' \in Nat /\ exitFees' \in Nat
        /\ pos'.quantity = pos.quantity + s * n
        /\ Balances(realized', pos'.average, pos.quantity + s * n,
                    outlay + s * n * price + exitFees')
        /\ plain /\ pos.quantity + s * n >= 0 /\ ~SameSide(pos.quantity, s) =>
              cash' = InitialCash - (outlay + s * n * price) - commission'
    BY <1>1, <2>1, ApplyFillKeeps DEF Book
  <2>3. /\ tracked'.quantity = tracked.quantity + s * n
        /\ tracked'.fees = commission + fee
        /\ tracked'.average \in Fraction /\ tracked'.realized \in Fraction
        /\ ~crossed /\ ~(tracked.quantity * (tracked.quantity + s * n) < 0) =>
              Balances(tracked'.realized, tracked'.average, tracked.quantity + s * n,
                       outlay + s * n * price)
    BY <1>1, <2>1, UpdatePositionKeeps DEF Book
  <2>4. /\ commission' = commission + fee /\ outlay' = outlay + s * n * price
        /\ booked' \in 0..MaxBooked
        /\ plain' = (plain /\ pos.quantity + s * n >= 0 /\ ~SameSide(pos.quantity, s))
        /\ crossed' = (crossed \/ pos.quantity * (pos.quantity + s * n) < 0)
    BY <1>1, BooksAssumption DEF Book, ApplyFill, BooksIInv
  <2>5. pos.quantity \in Int /\ outlay \in Int /\ tracked.quantity = pos.quantity
    BY DEF BooksIInv
  <2>6. outlay' \in Int /\ pos'.quantity \in Int /\ plain' \in BOOLEAN /\ crossed' \in BOOLEAN
    BY <2>1, <2>2, <2>4, <2>5
  <2>7. plain' => cash' = InitialCash - outlay' - commission' /\ pos'.quantity >= 0
    BY <2>2, <2>4
  <2>8. ~crossed' => Balances(tracked'.realized, tracked'.average, tracked'.quantity, outlay')
    BY <2>3, <2>4, <2>5
  <2> QED BY <2>2, <2>3, <2>4, <2>5, <2>6, <2>7, <2>8 DEF BooksIInv
<1>2. CASE UNCHANGED bookVars
  BY <1>2 DEF bookVars, BooksIInv
<1> QED BY <1>1, <1>2 DEF BooksNext

(* BooksAgree: for any prices, sizes and fees both books hold the same     *)
(* position, and their accounts are exact within the cases it names        *)
(* (portfolio_manager.py, position_tracker.py).                            *)
THEOREM BooksAreExact == BooksSpec => []BooksAgree
<1>1. BooksIInv /\ [BooksNext]_bookVars => BooksIInv'
  BY BookStep
<1> QED BY <1>1, BooksInitHolds, BooksInvImplies, PTL DEF BooksSpec

-----------------------------------------------------------------------------
(* The paper backend                                                       *)

(* PaperBackend                                                            *)

\* What an order of the backend is, in the state the run knows it in.
Tickets == [side : {"buy", "sell"}, lot : Lots \cup {0}, state : TicketStates, asleep : BOOLEAN]
LotsOf == [o \in PaperNames |-> ticket[o].lot]
FilledOn(side) == {o \in fillLog : ticket[o].side = side}

\* What the run checks is inductive: only the sides and the sleepers are
\* added.
BackendIInv ==
    /\ BackendTypeOK /\ BackendSolvent
    /\ IsFiniteSet(fillLog)
    /\ stock.side = "none" => stock.quantity = 0
    /\ \A o \in PaperNames : ticket[o].asleep => ticket[o].state # "none"

(* The fields of an order's ticket.                                        *)
LEMMA TicketTypes ==
    ASSUME BackendIInv, NEW o \in PaperNames
    PROVE  ticket[o] \in Tickets /\ ticket[o].lot \in Nat /\ ticket[o].side \in {"buy", "sell"}
<1>1. ticket[o] \in Tickets
  BY DEF BackendIInv, BackendTypeOK, Tickets
<1>2. \A x \in Lots \cup {0} : x \in Nat
  <2>1. Lots \subseteq Nat
    BY PaperBackendAssumption
  <2> QED BY <2>1
<1> QED BY <1>1, <1>2 DEF Tickets

(* What was traded on a side is a sum over the filled orders of that side. *)
LEMMA TradedMeans ==
    ASSUME BackendIInv, NEW side
    PROVE  /\ Traded(side) = SumFunctionOnSet(LotsOf, FilledOn(side)) /\ Traded(side) \in Int
           /\ IsFiniteSet(FilledOn(side)) /\ \A o \in FilledOn(side) : LotsOf[o] \in Int
<1>1. Traded(side) = SumFunctionOnSet(LotsOf, FilledOn(side))
  BY DEF Traded, LotsOf, FilledOn
<1>2. FilledOn(side) \subseteq fillLog /\ fillLog \subseteq PaperNames /\ IsFiniteSet(fillLog)
  BY DEF FilledOn, BackendIInv, BackendTypeOK
<1>3. IsFiniteSet(FilledOn(side))
  BY <1>2, FS_Subset
<1>4. \A o \in FilledOn(side) : LotsOf[o] \in Int
  BY <1>2, TicketTypes DEF LotsOf
<1> QED BY <1>1, <1>3, <1>4, SumRemove

(* A step that leaves the filled orders' sides and quantities leaves what  *)
(* was traded.                                                             *)
LEMMA TradedStays ==
    ASSUME BackendIInv, NEW side, fillLog' = fillLog,
           \A o \in fillLog : ticket'[o].side = ticket[o].side /\ ticket'[o].lot = ticket[o].lot
    PROVE  Traded(side)' = Traded(side)
<1>1. FilledOn(side)' = FilledOn(side)
  BY DEF FilledOn
<1>2. \A o \in FilledOn(side) : LotsOf[o] \in Int /\ LotsOf[o] = LotsOf'[o]
  BY TradedMeans DEF LotsOf, FilledOn, BackendIInv, BackendTypeOK
<1>3. SumFunctionOnSet(LotsOf, FilledOn(side)) = SumFunctionOnSet(LotsOf', FilledOn(side))
  BY <1>2, TradedMeans, SumSame
<1>4. Traded(side)' = SumFunctionOnSet(LotsOf', FilledOn(side)')
  BY DEF Traded, LotsOf, FilledOn
<1> QED BY <1>1, <1>3, <1>4, TradedMeans

(* The invariant holds of a new account.                                   *)
LEMMA BackendInitHolds == BackendInit => BackendIInv
<1> SUFFICES ASSUME BackendInit PROVE BackendIInv
  OBVIOUS
<1>1. BackendTypeOK
  BY PaperBackendAssumption DEF BackendInit, BackendTypeOK, Ticket, Stock, TicketStates
<1>2. fillLog = {} /\ IsFiniteSet(fillLog)
  BY FS_EmptySet DEF BackendInit
<1>3. \A side : Traded(side) = 0
  <2> TAKE side
  <2>1. {o \in fillLog : ticket[o].side = side} = {}
    BY <1>2
  <2> QED BY <2>1, SumEmpty DEF Traded
<1>4. stock.quantity = 0 /\ stock.side = "none" /\ balance = StartBalance /\ StartBalance >= 0
  BY PaperBackendAssumption DEF BackendInit, Stock
<1>5. \A o \in PaperNames : ~ticket[o].asleep /\ ticket[o].state = "none"
  BY DEF BackendInit, Ticket
<1>6. BackendSolvent
  BY <1>2, <1>3, <1>4, <1>5 DEF BackendSolvent
<1> QED BY <1>1, <1>2, <1>4, <1>5, <1>6 DEF BackendIInv

(* Steps that touch no account.                                            *)
LEMMA AccountStays ==
    ASSUME BackendIInv, UNCHANGED <<balance, stock, fillLog>>, quote' \in Quotes \cup {0},
           ticket' \in [PaperNames -> Tickets],
           \A o \in fillLog :
              /\ ticket'[o].side = ticket[o].side /\ ticket'[o].lot = ticket[o].lot
              /\ ~ticket'[o].asleep /\ ticket'[o].state \in {"filled", "cancelled"},
           \A o \in PaperNames : /\ ticket'[o].state = "filled" => ticket[o].state = "filled"
                                 /\ ticket'[o].asleep => ticket'[o].state # "none"
    PROVE  BackendIInv'
<1>1. \A side : Traded(side)' = Traded(side)
  BY TradedStays
<1>2. BackendTypeOK'
  BY DEF BackendIInv, BackendTypeOK, Tickets
<1>3. BackendSolvent'
  BY <1>1 DEF BackendIInv, BackendSolvent
<1> QED BY <1>2, <1>3 DEF BackendIInv

(* An execution after the slippage was slept through keeps the invariant.  *)
LEMMA FillsStep ==
    ASSUME BackendIInv, NEW o \in PaperNames, Fills(o)
    PROVE  BackendIInv'
<1> DEFINE t == ticket[o]
           lot == t.lot
           q == stock.quantity
           done == [t EXCEPT !.state = "filled", !.asleep = FALSE]
<1>1. /\ t \in Tickets /\ lot \in Nat /\ t.side \in {"buy", "sell"} /\ t.asleep
      /\ q \in Int /\ q >= 0 /\ balance \in Int /\ balance >= 0
      /\ quote \in Nat /\ quote # 0 /\ quote \in Quotes
      /\ stock \in [side : {"none", "buy", "sell"}, quantity : Int] /\ stock.side \in {"none", "buy"}
      /\ stock.side = "none" => q = 0
      /\ Slip \in Nat /\ Commission \in Nat /\ quote - Slip - Commission >= 0
  <2>1. quote \in Quotes /\ quote # 0 /\ t.asleep
    BY DEF Fills, Refuses, BackendIInv, BackendTypeOK
  <2>2. quote \in Nat /\ Slip \in Nat /\ Commission \in Nat /\ quote >= Slip + Commission
    BY <2>1, PaperBackendAssumption
  <2>3. quote - Slip - Commission >= 0
    BY <2>2
  <2>4. stock.side \in {"none", "buy"}
    BY DEF BackendIInv, BackendTypeOK, BackendSolvent
  <2> QED BY <2>1, <2>2, <2>3, <2>4, TicketTypes DEF BackendIInv, BackendTypeOK, BackendSolvent
<1>2. /\ t.side = "buy" => balance >= CostOf(lot)
      /\ t.side = "sell" => stock.side = "buy" /\ q >= lot
  <2>1. /\ t.side = "buy" => ~(balance < CostOf(lot))
        /\ t.side = "sell" => stock.side # "none" /\ ~(q < lot)
    BY DEF Fills, Refuses
  <2>2. CostOf(lot) \in Int
    BY <1>1 DEF CostOf
  <2> QED BY <1>1, <2>1, <2>2
<1>3. /\ ticket' = [ticket EXCEPT ![o] = done] /\ fillLog' = fillLog \cup {o} /\ quote' = quote
      /\ balance' = balance + (IF t.side = "buy" THEN -CostOf(lot) ELSE Revenue(lot))
      /\ stock' = Moved(t.side, lot)
  BY DEF Fills
<1>4. /\ done \in Tickets /\ done.state = "filled" /\ ~done.asleep
      /\ done.side = t.side /\ done.lot = lot
  BY <1>1 DEF Tickets, TicketStates
<1> HIDE DEF done
<1>5. /\ ticket' \in [PaperNames -> Tickets] /\ ticket'[o] = done
      /\ \A x \in PaperNames : x # o => ticket'[x] = ticket[x]
      /\ fillLog \subseteq PaperNames /\ o \notin fillLog
  BY <1>1, <1>3, <1>4 DEF BackendIInv, BackendTypeOK, BackendSolvent, Tickets
<1> HIDE DEF t, lot
<1>6. balance' \in Int /\ balance' >= 0
  <2>1. CASE t.side = "buy"
    <3>1. CostOf(lot) \in Int
      BY <1>1 DEF CostOf
    <3> QED BY <1>1, <1>2, <1>3, <2>1, <3>1
  <2>2. CASE t.side = "sell"
    <3> DEFINE r == quote - Slip - Commission
    <3>1. r \in Nat
      BY <1>1
    <3> HIDE DEF r
    <3>2. lot * r \in Nat
      BY <1>1, <3>1
    <3>3. Revenue(lot) = lot * r
      BY DEF Revenue, r
    <3> QED BY <1>1, <1>3, <2>2, <3>2, <3>3
  <2> QED BY <1>1, <2>1, <2>2
<1>7. /\ stock' \in [side : {"none", "buy", "sell"}, quantity : Int]
      /\ stock'.side = "buy" /\ stock'.quantity >= 0
      /\ stock'.quantity = (IF t.side = "buy" THEN q + lot ELSE q - lot)
  <2>1. CASE t.side = "buy"
    <3>1. stock' = Stock("buy", q + lot)
      BY <1>1, <1>3, <2>1 DEF Moved, Stock
    <3>2. q + lot \in Int /\ q + lot >= 0
      BY <1>1
    <3> QED BY <2>1, <3>1, <3>2 DEF Stock
  <2>2. CASE t.side = "sell"
    <3>1. ~(q - lot < 0) /\ q - lot \in Int /\ q - lot >= 0
      BY <1>1, <1>2, <2>2
    <3>2. stock' = Stock("buy", q - lot)
      BY <1>2, <1>3, <2>2, <3>1 DEF Moved
    <3> QED BY <2>2, <3>1, <3>2 DEF Stock
  <2> QED BY <1>1, <2>1, <2>2
<1>8. \A side : Traded(side)' = Traded(side) + (IF t.side = side THEN lot ELSE 0)
  <2> TAKE side
  <2> DEFINE S == FilledOn(side)
             f == LotsOf
             g == LotsOf'
  <2>1. /\ Traded(side) = SumFunctionOnSet(f, S) /\ Traded(side) \in Int
        /\ IsFiniteSet(S) /\ \A x \in S : f[x] \in Int
    BY TradedMeans
  <2>2. Traded(side)' = SumFunctionOnSet(g, FilledOn(side)')
    BY DEF Traded, LotsOf, FilledOn
  <2>3. FilledOn(side)' = (IF t.side = side THEN S \cup {o} ELSE S) /\ o \notin S
    BY <1>3, <1>4, <1>5 DEF FilledOn
  <2>4. g[o] = lot /\ \A x \in S : f[x] = g[x]
    BY <1>4, <1>5 DEF LotsOf, FilledOn
  <2> HIDE DEF S, f, g
  <2>5. SumFunctionOnSet(g, S) = SumFunctionOnSet(f, S)
    BY <2>1, <2>4, SumSame
  <2>6. SumFunctionOnSet(g, S \cup {o}) = lot + SumFunctionOnSet(g, S)
    <3>1. \A x \in S : g[x] \in Int
      BY <2>1, <2>4
    <3>2. g[o] \in Int
      BY <1>1, <2>4
    <3> QED BY <2>1, <2>3, <2>4, <3>1, <3>2, SumAdd
  <2> QED BY <1>1, <2>1, <2>2, <2>3, <2>5, <2>6
<1>9. stock'.quantity = Traded("buy")' - Traded("sell")'
  <2>1. q = Traded("buy") - Traded("sell") /\ Traded("buy") \in Int /\ Traded("sell") \in Int
    BY TradedMeans DEF BackendIInv, BackendSolvent
  <2>2. /\ t.side = "buy" => Traded("buy")' = Traded("buy") + lot /\ Traded("sell")' = Traded("sell")
        /\ t.side = "sell" => Traded("buy")' = Traded("buy") /\ Traded("sell")' = Traded("sell") + lot
    <3>1. "buy" # "sell" /\ Traded("buy") + 0 = Traded("buy") /\ Traded("sell") + 0 = Traded("sell")
      BY <2>1
    <3> QED BY <1>8, <3>1
  <2>3. CASE t.side = "buy"
    BY <1>1, <1>7, <2>1, <2>2, <2>3
  <2>4. CASE t.side = "sell"
    BY <1>1, <1>7, <2>1, <2>2, <2>4
  <2> QED BY <1>1, <2>3, <2>4
<1>10. BackendTypeOK'
  BY <1>3, <1>5, <1>6, <1>7 DEF BackendIInv, BackendTypeOK, Tickets
<1>11. BackendSolvent'
  BY <1>3, <1>4, <1>5, <1>6, <1>7, <1>9 DEF BackendIInv, BackendSolvent
<1>12. IsFiniteSet(fillLog')
  BY <1>3, FS_AddElement DEF BackendIInv
<1>13. \A x \in PaperNames : ticket'[x].asleep => ticket'[x].state # "none"
  BY <1>4, <1>5 DEF BackendIInv
<1> QED BY <1>7, <1>10, <1>11, <1>12, <1>13 DEF BackendIInv

(* Every step of the paper backend keeps its invariant.                    *)
LEMMA BackendStep == BackendIInv /\ [BackendNext]_backendVars => BackendIInv'
<1> SUFFICES ASSUME BackendIInv, [BackendNext]_backendVars PROVE BackendIInv'
  OBVIOUS
<1>1. /\ ticket \in [PaperNames -> Tickets] /\ quote \in Quotes \cup {0} /\ fillLog \subseteq PaperNames
      /\ \A o \in fillLog : ~ticket[o].asleep /\ ticket[o].state \in {"filled", "cancelled"}
      /\ \A o \in PaperNames : ticket[o].asleep => ticket[o].state # "none"
  BY DEF BackendIInv, BackendTypeOK, BackendSolvent, Tickets
<1>2. ASSUME NEW p \in Quotes, Requote(p) PROVE BackendIInv'
  BY <1>1, <1>2, AccountStays DEF Requote
<1>3. ASSUME NEW o \in PaperNames, NEW new \in Tickets, ticket' = [ticket EXCEPT ![o] = new],
             UNCHANGED <<quote, balance, stock, fillLog>>, new.state \notin {"filled", "none"},
             o \in fillLog => /\ new.side = ticket[o].side /\ new.lot = ticket[o].lot
                              /\ ~new.asleep /\ new.state = "cancelled"
      PROVE  BackendIInv'
  <2>1. ticket'[o] = new /\ \A x \in PaperNames : x # o => ticket'[x] = ticket[x]
    BY <1>1, <1>3
  <2>2. ticket' \in [PaperNames -> Tickets]
    BY <1>1, <1>3
  <2> QED BY <1>1, <1>3, <2>1, <2>2, AccountStays
<1>4. ASSUME NEW o \in PaperNames, CancelTicket(o) PROVE BackendIInv'
  <2> DEFINE new == [ticket[o] EXCEPT !.state = "cancelled"]
  <2>1. /\ new \in Tickets /\ new.state = "cancelled" /\ new.side = ticket[o].side
        /\ new.lot = ticket[o].lot /\ new.asleep = ticket[o].asleep
    BY <1>1 DEF Tickets, TicketStates
  <2>2. ticket' = [ticket EXCEPT ![o] = new] /\ UNCHANGED <<quote, balance, stock, fillLog>>
    BY <1>4 DEF CancelTicket
  <2> HIDE DEF new
  <2> QED BY <1>1, <1>3, <2>1, <2>2
<1>5. ASSUME NEW o \in PaperNames, Rejects(o) PROVE BackendIInv'
  <2> DEFINE new == [ticket[o] EXCEPT !.state = "rejected", !.asleep = FALSE]
  <2>1. new \in Tickets /\ new.state = "rejected"
    BY <1>1 DEF Tickets, TicketStates
  <2>2. /\ ticket' = [ticket EXCEPT ![o] = new] /\ UNCHANGED <<quote, balance, stock, fillLog>>
        /\ o \notin fillLog
    BY <1>1, <1>5 DEF Rejects
  <2> HIDE DEF new
  <2> QED BY <1>3, <2>1, <2>2
<1>6. ASSUME NEW o \in PaperNames, NEW side \in {"buy", "sell"}, NEW lot \in Lots, Execute(o, side, lot)
      PROVE  BackendIInv'
  <2> DEFINE new == Ticket(side, lot, "pending", TRUE)
  <2>1. new \in Tickets /\ new.state = "pending"
    BY DEF Ticket, Tickets, TicketStates
  <2>2. /\ ticket' = [ticket EXCEPT ![o] = new] /\ UNCHANGED <<quote, balance, stock, fillLog>>
        /\ o \notin fillLog
    BY <1>1, <1>6 DEF Execute
  <2> HIDE DEF new
  <2> QED BY <1>3, <2>1, <2>2
<1>7. CASE UNCHANGED backendVars
  BY <1>1, <1>7, AccountStays DEF backendVars, BackendIInv, BackendSolvent
<1> QED BY <1>2, <1>4, <1>5, <1>6, <1>7, FillsStep DEF BackendNext

(* BackendSolvent: the account never pays more than it has nor sells more  *)
(* than it holds, whatever executions overlap, and the position is what    *)
(* the filled orders bought less what they sold (exchanges/paper_exchange). *)
THEOREM BackendStaysSolvent == BackendSpec => [](BackendTypeOK /\ BackendSolvent)
<1>1. BackendIInv => BackendTypeOK /\ BackendSolvent
  BY DEF BackendIInv
<1> QED BY <1>1, BackendStep, BackendInitHolds, PTL DEF BackendSpec

-----------------------------------------------------------------------------
(* The backtest                                                            *)

\* The position, the tallies of trades and the ledger of a backtest.
Positions == [side : {"buy", "sell"}, entry : Nat, quantity : Quantities \cup {0}]
Tallies == [count : Nat, pnl : Int]
Ledgers == [gained : Int, entries : Nat, entryFees : Nat, exitFees : Nat]

\* An account between two parts of a bar is in order
InOrder(b) ==
    LET pending == b.pos.quantity * FeeUnit IN
    /\ b.equity \in Int /\ b.pos \in Positions /\ b.trades \in Tallies /\ b.facts \in Ledgers
    /\ b.equity = InitialCapital + b.facts.gained - b.facts.exitFees - 2 * b.facts.entryFees + pending
    /\ b.trades.pnl = b.facts.gained - b.facts.exitFees - b.facts.entryFees + pending
    /\ b.facts.entries = b.trades.count + IF b.pos.quantity > 0 THEN 1 ELSE 0

\* What the run checks is inductive, but for the curve before the first
\* bar.
BacktestIInv ==
    /\ BacktestTypeOK /\ BacktestAccounted
    /\ barsSeen = 0 => curve = capital /\ ~InMarket

(* The fields of the position of a backtest.                               *)
LEMMA PositionParts ==
    ASSUME NEW p \in Positions
    PROVE  /\ p.quantity \in Nat /\ p.entry \in Nat /\ p.side \in {"buy", "sell"}
           /\ p.quantity \in Quantities \cup {0}
<1>1. p.entry \in Nat /\ p.side \in {"buy", "sell"} /\ p.quantity \in Quantities \cup {0}
  BY DEF Positions
<1>2. Quantities \subseteq Nat
  BY BacktestAssumption
<1>3. \A x \in Quantities \cup {0} : x \in Nat
  BY <1>2
<1>4. p.quantity \in Nat
  BY <1>1, <1>3
<1> QED BY <1>1, <1>4

(* What closing a position gains; nothing, when there is none.             *)
LEMMA GainType ==
    ASSUME NEW p \in Positions, NEW price \in Int
    PROVE  Gain(p, price) \in Int /\ (p.quantity = 0 => Gain(p, price) = 0)
<1> DEFINE d == IF p.side = "buy" THEN price - p.entry ELSE p.entry - price
<1>1. p.quantity \in Nat /\ d \in Int
  BY PositionParts
<1>2. Gain(p, price) = p.quantity * d
  BY DEF Gain
<1> HIDE DEF d
<1>3. p.quantity * d \in Int /\ (p.quantity = 0 => p.quantity * d = 0)
  BY <1>1
<1> QED BY <1>2, <1>3

(* The fields of the account a bar works on.                               *)
LEMMA AccountParts ==
    ASSUME NEW e, NEW p, NEW t, NEW f
    PROVE  LET b == Account(e, p, t, f)
           IN b.equity = e /\ b.pos = p /\ b.trades = t /\ b.facts = f
BY DEF Account

(* Closing an open position charges the entry a second time.               *)
LEMMA ClosedInOrder ==
    ASSUME NEW b, InOrder(b), b.pos.quantity > 0, NEW price \in Int
    PROVE  /\ InOrder(Closed(b, price)) /\ Closed(b, price).pos = Flat
           /\ Closed(b, price).equity = b.equity + Gain(b.pos, price) - 2 * (b.pos.quantity * FeeUnit)
<1> DEFINE g == Gain(b.pos, price)
           fee == b.pos.quantity * FeeUnit
           pnl == g - fee - fee
           c == Closed(b, price)
           n == b.trades.count + 1
           sum == b.trades.pnl + pnl
           gains == b.facts.gained + g
           exits == b.facts.exitFees + fee
           t == [count |-> n, pnl |-> sum]
           f == [b.facts EXCEPT !.gained = gains, !.exitFees = exits]
<1>1. /\ g \in Int /\ fee \in Nat /\ FeeUnit \in Nat /\ InitialCapital \in Int
      /\ b.equity \in Int /\ b.trades \in Tallies /\ b.facts \in Ledgers
  <2>1. b.pos.quantity \in Nat /\ FeeUnit \in Nat
    BY PositionParts, BacktestAssumption DEF InOrder
  <2>2. fee \in Nat
    BY <2>1
  <2> QED BY <2>2, GainType, BacktestAssumption DEF InOrder
<1>2. c = Account(b.equity + pnl, Flat, t, f)
  BY DEF Closed
<1>3. c.equity = b.equity + pnl /\ c.pos = Flat /\ c.trades = t /\ c.facts = f
  BY <1>2, AccountParts
<1>4. /\ b.equity = InitialCapital + b.facts.gained - b.facts.exitFees - 2 * b.facts.entryFees + fee
      /\ b.trades.pnl = b.facts.gained - b.facts.exitFees - b.facts.entryFees + fee
      /\ b.facts.entries = b.trades.count + 1
  BY DEF InOrder
<1> HIDE DEF g, fee, c
<1>5. /\ b.facts.gained \in Int /\ b.facts.entries \in Nat /\ b.facts.entryFees \in Nat
      /\ b.facts.exitFees \in Nat /\ b.trades.count \in Nat /\ b.trades.pnl \in Int
  BY <1>1 DEF Tallies, Ledgers
<1>11. n \in Nat /\ sum \in Int /\ gains \in Int /\ exits \in Nat
  BY <1>1, <1>5
<1>12. /\ t \in Tallies /\ t.count = n /\ t.pnl = sum
       /\ f \in Ledgers /\ f.gained = gains /\ f.exitFees = exits
       /\ f.entries = b.facts.entries /\ f.entryFees = b.facts.entryFees
  <2> HIDE DEF n, sum, gains, exits
  <2> QED BY <1>1, <1>11 DEF Tallies, Ledgers
<1>6. /\ t \in Tallies /\ t.count = b.trades.count + 1 /\ t.pnl = b.trades.pnl + pnl
      /\ f \in Ledgers /\ f.gained = b.facts.gained + g /\ f.exitFees = b.facts.exitFees + fee
      /\ f.entries = b.facts.entries /\ f.entryFees = b.facts.entryFees
  BY <1>12
<1> HIDE DEF t, f
<1>7. Flat \in Positions /\ Flat.quantity = 0 /\ Flat.quantity * FeeUnit = 0
  BY <1>1 DEF Flat, Position, Positions
<1>8. /\ c.equity = InitialCapital + f.gained - f.exitFees - 2 * f.entryFees + 0
      /\ t.pnl = f.gained - f.exitFees - f.entryFees + 0
      /\ f.entries = t.count + 0 /\ c.equity \in Int
  BY <1>1, <1>3, <1>4, <1>5, <1>6
<1>9. InOrder(c)
  BY <1>3, <1>6, <1>7, <1>8 DEF InOrder
<1>10. c.equity = b.equity + g - 2 * fee
  BY <1>1, <1>3
<1> QED BY <1>3, <1>9, <1>10 DEF c, g, fee

(* Opening a position keeps the account in order.                          *)
LEMMA OpenedInOrder ==
    ASSUME NEW b, InOrder(b), b.pos.quantity = 0, NEW side \in {"buy", "sell"},
           NEW quantity \in Quantities, NEW price \in BarPrices
    PROVE  InOrder(Opened(b, side, quantity, price))
<1> DEFINE fee == quantity * FeeUnit
           c == Opened(b, side, quantity, price)
           p == Position(side, IF side = "buy" THEN price + SlipUnit ELSE price - SlipUnit, quantity)
           n == b.facts.entries + 1
           fees == b.facts.entryFees + fee
           f == [b.facts EXCEPT !.entries = n, !.entryFees = fees]
<1>1. /\ quantity \in Nat /\ quantity > 0 /\ fee \in Nat /\ FeeUnit \in Nat /\ InitialCapital \in Int
      /\ b.equity \in Int /\ b.trades \in Tallies /\ b.facts \in Ledgers
  <2>1. quantity \in Nat /\ quantity > 0 /\ FeeUnit \in Nat
    BY BacktestAssumption
  <2>2. fee \in Nat
    BY <2>1
  <2> QED BY <2>1, <2>2, BacktestAssumption DEF InOrder
<1>2. c = Account(b.equity - fee, p, b.trades, f)
  BY DEF Opened
<1>3. c.equity = b.equity - fee /\ c.pos = p /\ c.trades = b.trades /\ c.facts = f
  BY <1>2, AccountParts
<1>4. p \in Positions /\ p.quantity = quantity
  <2>1. price + SlipUnit \in Nat /\ price - SlipUnit \in Nat
    BY BacktestAssumption
  <2> QED BY <2>1 DEF Position, Positions
<1>5. b.pos.quantity * FeeUnit = 0
  BY <1>1
<1>6. /\ b.equity = InitialCapital + b.facts.gained - b.facts.exitFees - 2 * b.facts.entryFees
      /\ b.trades.pnl = b.facts.gained - b.facts.exitFees - b.facts.entryFees
      /\ b.facts.entries = b.trades.count
      /\ b.facts.gained \in Int /\ b.facts.entries \in Nat /\ b.facts.entryFees \in Nat
      /\ b.facts.exitFees \in Nat /\ b.trades.count \in Nat /\ b.trades.pnl \in Int
  BY <1>1, <1>5 DEF InOrder, Tallies, Ledgers
<1> HIDE DEF fee, c, p
<1>7. /\ f \in Ledgers /\ f.gained = b.facts.gained /\ f.exitFees = b.facts.exitFees
      /\ f.entries = b.facts.entries + 1 /\ f.entryFees = b.facts.entryFees + fee
  <2>1. n \in Nat /\ fees \in Nat
    BY <1>1, <1>6
  <2> HIDE DEF n, fees
  <2>2. /\ f \in Ledgers /\ f.gained = b.facts.gained /\ f.exitFees = b.facts.exitFees
        /\ f.entries = n /\ f.entryFees = fees
    BY <1>1, <2>1 DEF Ledgers
  <2> QED BY <2>2 DEF n, fees
<1> HIDE DEF f
<1>8. /\ c.equity = InitialCapital + f.gained - f.exitFees - 2 * f.entryFees + fee
      /\ b.trades.pnl = f.gained - f.exitFees - f.entryFees + fee
      /\ f.entries = b.trades.count + 1 /\ c.equity \in Int
  BY <1>1, <1>3, <1>6, <1>7
<1>9. p.quantity * FeeUnit = fee
  BY <1>4 DEF fee
<1>10. InOrder(c)
  BY <1>1, <1>3, <1>4, <1>7, <1>8, <1>9 DEF InOrder
<1> QED BY <1>10 DEF c

(* Between two bars the account of the run is in order.                    *)
LEMMA RunInOrder == BacktestIInv => InOrder(Account(capital, holding, tally, ledger))
BY AccountParts DEF BacktestIInv, BacktestTypeOK, BacktestAccounted, InOrder, InMarket, Positions,
   Tallies, Ledgers

(* The invariant holds before the first bar.                               *)
LEMMA BacktestInitHolds == BacktestInit => BacktestIInv
<1> SUFFICES ASSUME BacktestInit PROVE BacktestIInv
  OBVIOUS
<1>1. /\ Flat \in Positions /\ Flat.quantity = 0 /\ FeeUnit \in Nat /\ 0 * FeeUnit = 0
      /\ InitialCapital \in Nat /\ MaxRunBars \in Nat
  BY BacktestAssumption DEF Flat, Position, Positions
<1>2. BacktestTypeOK
  BY <1>1 DEF BacktestInit, BacktestTypeOK, Positions
<1>3. ~InMarket /\ holding.quantity * FeeUnit = 0
  BY <1>1 DEF BacktestInit, InMarket
<1>4. /\ capital = InitialCapital + ledger.gained - ledger.exitFees - 2 * ledger.entryFees + 0
      /\ tally.pnl = ledger.gained - ledger.exitFees - ledger.entryFees + 0
      /\ ledger.entries = tally.count + 0
  BY <1>1 DEF BacktestInit
<1>5. barsSeen = 0 /\ ~(barsSeen \in 1..MaxRunBars) /\ ~(barsSeen > MaxRunBars)
  BY <1>1 DEF BacktestInit
<1>6. BacktestAccounted
  BY <1>3, <1>4, <1>5 DEF BacktestAccounted
<1> QED BY <1>2, <1>3, <1>6 DEF BacktestIInv, BacktestInit

(* A bar, whatever it closes and opens, keeps the invariant.               *)
LEMMA BarStep ==
    ASSUME BacktestIInv, NEW price \in BarPrices, NEW percent, NEW signal \in {"none", "buy", "sell"},
           NEW quantity \in Quantities, Bar(price, percent, signal, quantity)
    PROVE  BacktestIInv'
<1> DEFINE before == Account(capital, holding, tally, ledger)
           halted == IF Stopped(before, price, percent) THEN Closed(before, price) ELSE before
           after == IF signal = "none" THEN halted
                    ELSE IF halted.pos.quantity = 0 THEN Opened(halted, signal, quantity, price)
                    ELSE IF halted.pos.side # signal THEN Closed(halted, price)
                    ELSE halted
<1>1. /\ barsSeen < MaxRunBars /\ barsSeen' = barsSeen + 1 /\ lastPrice' = price
      /\ capital' = after.equity /\ holding' = after.pos /\ tally' = after.trades
      /\ ledger' = after.facts /\ curve' = after.equity + Gain(after.pos, price)
  BY DEF Bar
<1>2. price \in Int
  BY BacktestAssumption
<1>3. InOrder(before)
  BY RunInOrder
<1> HIDE DEF before
<1>4. InOrder(halted)
  BY <1>2, <1>3, ClosedInOrder DEF Stopped
<1> HIDE DEF halted
<1>5. InOrder(after)
  <2>1. CASE signal = "none"
    BY <1>4, <2>1
  <2>2. CASE signal # "none" /\ halted.pos.quantity = 0
    BY <1>4, <2>2, OpenedInOrder
  <2>3. CASE signal # "none" /\ halted.pos.quantity # 0
    <3>1. halted.pos.quantity > 0
      BY <1>4, <2>3, PositionParts DEF InOrder
    <3> QED BY <1>2, <1>4, <2>3, <3>1, ClosedInOrder
  <2> QED BY <2>1, <2>2, <2>3
<1> HIDE DEF after
<1>6. barsSeen' \in 1..MaxRunBars /\ barsSeen' \in 0..MaxRunBars + 1 /\ ~(barsSeen' > MaxRunBars)
      /\ barsSeen' # 0
  BY <1>1, BacktestAssumption DEF BacktestIInv, BacktestTypeOK
<1>7. curve' \in Int
  BY <1>1, <1>2, <1>5, GainType DEF InOrder
<1>8. BacktestTypeOK'
  BY <1>1, <1>5, <1>6, <1>7 DEF BacktestTypeOK, InOrder, Positions, Tallies, Ledgers
<1>9. curve' = capital' + Gain(holding, lastPrice)'
  BY <1>1 DEF Gain
<1>10. BacktestAccounted'
  BY <1>1, <1>5, <1>6, <1>9 DEF BacktestAccounted, InOrder, InMarket
<1> QED BY <1>6, <1>8, <1>10 DEF BacktestIInv

(* Closing what is open at the end of the run keeps the invariant.         *)
LEMMA EndRunStep ==
    ASSUME BacktestIInv, EndRun
    PROVE  BacktestIInv'
<1> DEFINE before == Account(capital, holding, tally, ledger)
           fee == holding.quantity * FeeUnit
           g == Gain(holding, lastPrice)
<1>1. /\ barsSeen = MaxRunBars /\ barsSeen' = MaxRunBars + 1 /\ MaxRunBars \in Nat
      /\ UNCHANGED <<lastPrice, curve>>
  BY BacktestAssumption DEF EndRun
<1>2. lastPrice \in Int /\ holding \in Positions /\ capital \in Int /\ curve \in Int
      /\ FeeUnit \in Nat /\ holding.quantity \in Nat
  BY BacktestAssumption, PositionParts DEF BacktestIInv, BacktestTypeOK, Positions
<1>3. g \in Int /\ fee \in Nat /\ (holding.quantity = 0 => g = 0)
  <2>1. fee \in Nat
    BY <1>2
  <2> QED BY <1>2, <2>1, GainType
<1>4. curve = capital + g
  <2>1. CASE barsSeen = 0
    <3>1. holding.quantity = 0 /\ curve = capital
      BY <1>2, <2>1 DEF BacktestIInv, InMarket
    <3> QED BY <1>2, <1>3, <3>1
  <2>2. CASE barsSeen # 0
    <3>1. barsSeen \in 1..MaxRunBars
      BY <1>1, <2>2
    <3> QED BY <3>1 DEF BacktestIInv, BacktestAccounted
  <2> QED BY <2>1, <2>2
<1>5. InOrder(before)
  BY RunInOrder
<1>6. before.pos = holding /\ before.equity = capital
  BY AccountParts
<1>7. PICK end : /\ InOrder(end) /\ end.pos.quantity = 0
                 /\ capital' = end.equity /\ holding' = end.pos /\ tally' = end.trades
                 /\ ledger' = end.facts
                 /\ \E q \in Quantities \cup {0} : curve = end.equity + 2 * q * FeeUnit
  <2>1. CASE InMarket
    <3> DEFINE end == Closed(before, lastPrice)
    <3>1. /\ capital' = end.equity /\ holding' = end.pos /\ tally' = end.trades /\ ledger' = end.facts
      BY <2>1 DEF EndRun
    <3>2. holding.quantity > 0
      BY <2>1 DEF InMarket
    <3>3. InOrder(end) /\ end.pos = Flat /\ end.equity = capital + g - 2 * fee
      BY <1>2, <1>5, <1>6, <3>2, ClosedInOrder
    <3>4. end.pos.quantity = 0
      BY <3>3 DEF Flat, Position
    <3> HIDE DEF end
    <3>5. curve = end.equity + 2 * fee
      BY <1>2, <1>3, <1>4, <3>3
    <3>6. 2 * holding.quantity * FeeUnit = 2 * fee
      BY <1>2
    <3>7. holding.quantity \in Quantities \cup {0}
      BY <1>2, PositionParts
    <3>8. \E q \in Quantities \cup {0} : curve = end.equity + 2 * q * FeeUnit
      BY <3>5, <3>6, <3>7
    <3> QED BY <3>1, <3>3, <3>4, <3>8
  <2>2. CASE ~InMarket
    <3>1. /\ capital' = before.equity /\ holding' = before.pos /\ tally' = before.trades
          /\ ledger' = before.facts
      BY <2>2 DEF EndRun
    <3>2. holding.quantity = 0
      BY <1>2, <2>2 DEF InMarket
    <3>3. curve = before.equity + 2 * 0 * FeeUnit
      BY <1>2, <1>3, <1>4, <1>6, <3>2
    <3> HIDE DEF before
    <3> QED BY <1>5, <1>6, <3>1, <3>2, <3>3
  <2> QED BY <2>1, <2>2
<1> HIDE DEF before, fee, g
<1>8. ~InMarket'
  BY <1>7 DEF InMarket
<1>9. /\ barsSeen' \in 0..MaxRunBars + 1 /\ barsSeen' > MaxRunBars /\ ~(barsSeen' \in 1..MaxRunBars)
      /\ barsSeen' # 0
  BY <1>1
<1>10. BacktestTypeOK'
  BY <1>1, <1>7, <1>9 DEF BacktestIInv, BacktestTypeOK, InOrder, Positions, Tallies, Ledgers
<1>11. BacktestAccounted'
  BY <1>1, <1>7, <1>8, <1>9 DEF BacktestAccounted, InOrder, InMarket
<1> QED BY <1>9, <1>10, <1>11 DEF BacktestIInv

(* Every step of the backtest keeps its invariant.                         *)
LEMMA BacktestStep == BacktestIInv /\ [BacktestNext]_backtestVars => BacktestIInv'
<1>1. BacktestIInv /\ UNCHANGED backtestVars => BacktestIInv'
  BY DEF backtestVars, BacktestIInv, BacktestTypeOK, BacktestAccounted, InMarket, Gain
<1> QED BY <1>1, BarStep, EndRunStep DEF BacktestNext

(* BacktestAccounted: equity, trades and curve of a replay differ by       *)
(* exactly the commissions that are charged twice or not shown             *)
(* (backtesting/engine.py).                                                *)
THEOREM BacktestsBalance == BacktestSpec => [](BacktestTypeOK /\ BacktestAccounted)
<1>1. BacktestIInv => BacktestTypeOK /\ BacktestAccounted
  BY DEF BacktestIInv
<1> QED BY <1>1, BacktestStep, BacktestInitHolds, PTL DEF BacktestSpec

-----------------------------------------------------------------------------
(* The agents                                                              *)

(* StrategyAgents                                                          *)

\* A decision that the figures allow for: of strategies at the limit, then of
\* those with a poor record
Justified(d) ==
    LET failing == {s \in Managed : perf[s].streak >= MaxStreak} IN
    /\ d.type = "retire" <=> failing # {}
    /\ d.type = "retire" => d.on \in failing
    /\ d.type = "retrain" =>
          /\ perf[d.on].total > RetrainAfter
          /\ 5 * perf[d.on].winning < 2 * perf[d.on].total

\* The two figures nothing sets are zero, and so is everything of a strategy
\* that is not registered
Figures(p) ==
    /\ p.sharpe = 0 /\ p.drawdown = 0 /\ p.winning + p.streak <= p.total
    /\ ~p.known => p.total = 0 /\ p.streak = 0

\* As long as no figures changed since, the last decision is one they allow
\* for.
AgentIInv ==
    /\ AgentTypeOK
    /\ decision.type \in {"none", "retire", "retrain"}
    /\ alike => Justified(decision)
    /\ \A s \in Managed : Figures(perf[s])

(* The inductive invariant implies what the run checks.                    *)
LEMMA AgentInvImplies == AgentIInv => AgentTypeOK /\ AgentDecides
BY DEF AgentIInv, AgentDecides, Justified, Figures

(* The invariant holds before the first tick.                              *)
LEMMA AgentInitHolds == AgentInit => AgentIInv
<1> SUFFICES ASSUME AgentInit PROVE AgentIInv
  OBVIOUS
<1>1. NoPerf \in [known : BOOLEAN, total : 0..MaxAgentTrades, winning : 0..MaxAgentTrades,
                  streak : 0..MaxAgentTrades, sharpe : Nat, drawdown : Nat]
      /\ Figures(NoPerf)
  BY AgentAssumption DEF NoPerf, Perf, Figures
<1>2. decision \in [type : DecisionTypes, on : Managed, confidence : Nat] /\ decision.type = "none"
  BY DEF AgentInit, Undecided, Decision, DecisionTypes
<1> QED BY <1>1, <1>2 DEF AgentInit, AgentIInv, AgentTypeOK

(* What the evaluation of a strategy whose figures are right can be.       *)
LEMMA EvaluatedMeans ==
    ASSUME AgentIInv, NEW s \in Managed
    PROVE  \/ perf[s].streak >= MaxStreak /\ Evaluated(s) = Decision("retire", s, 90)
           \/ /\ perf[s].streak < MaxStreak
              /\ \/ Evaluated(s) = Undecided(s)
                 \/ /\ Evaluated(s) = Decision("retrain", s, 60)
                    /\ perf[s].total > RetrainAfter
                    /\ 5 * perf[s].winning < 2 * perf[s].total
<1> DEFINE p == perf[s]
<1>1. /\ p.streak \in Nat /\ p.total \in Nat /\ p.winning \in Nat /\ p.sharpe = 0 /\ p.drawdown = 0
      /\ MaxStreak \in Nat /\ MinSharpe \in Nat /\ RetrainAfter \in Nat
  BY AgentAssumption DEF AgentIInv, AgentTypeOK, Figures
<1> HIDE DEF p
<1> DEFINE retire == p.streak >= MaxStreak
           retrain == p.total > RetrainAfter /\ 100 * p.winning < 40 * p.total
<1>2. Evaluated(s) = IF retire THEN Decision("retire", s, 90)
                     ELSE IF retrain THEN Decision("retrain", s, 60) ELSE Undecided(s)
  <2>1. ~(p.drawdown > 20) /\ ~(p.sharpe > MinSharpe)
    BY <1>1
  <2> QED BY <2>1 DEF Evaluated, p
<1>3. retrain => 5 * p.winning < 2 * p.total
  BY <1>1
<1>4. ~retire => p.streak < MaxStreak
  BY <1>1
<1> QED BY <1>2, <1>3, <1>4 DEF p

(* A tick of an agent keeps the invariant.                                 *)
LEMMA AgentTickStep ==
    ASSUME AgentIInv, AgentTick
    PROVE  AgentIInv'
<1> DEFINE decisions == {Evaluated(s) : s \in {r \in Managed : perf[r].known}} \
                            {Undecided(s) : s \in Managed}
           failing == {s \in Managed : perf[s].streak >= MaxStreak}
<1>1. perf' = perf /\ alike' = TRUE
  BY DEF AgentTick
<1>2. \A s \in failing : perf[s].known /\ Evaluated(s) = Decision("retire", s, 90)
  <2> TAKE s \in failing
  <2>1. s \in Managed /\ perf[s].streak >= MaxStreak /\ perf[s].streak \in Nat /\ MaxStreak >= 1
        /\ MaxStreak \in Nat
    BY AgentAssumption DEF AgentIInv, AgentTypeOK
  <2>2. perf[s].known
    BY <2>1 DEF AgentIInv, Figures
  <2>3. ~(perf[s].streak < MaxStreak)
    BY <2>1
  <2> QED BY <2>1, <2>2, <2>3, EvaluatedMeans
<1>3. \A s \in failing : Decision("retire", s, 90) \in decisions
  <2> TAKE s \in failing
  <2>1. \A r \in Managed : Decision("retire", s, 90) # Undecided(r)
    BY DEF Decision, Undecided
  <2> QED BY <1>2, <2>1
<1>4. CASE decisions = {} /\ decision' \in {Undecided(s) : s \in Managed}
  <2>1. failing = {}
    BY <1>3, <1>4
  <2>2. decision' \in [type : DecisionTypes, on : Managed, confidence : Nat] /\ decision'.type = "none"
    BY <1>4 DEF Undecided, Decision, DecisionTypes
  <2>3. Justified(decision)'
    BY <1>1, <2>1, <2>2 DEF Justified
  <2> QED BY <1>1, <2>2, <2>3 DEF AgentIInv, AgentTypeOK
<1>5. CASE \E d \in decisions : Picks(d, decisions) /\ decision' = d
  <2>1. PICK d \in decisions : Picks(d, decisions) /\ decision' = d
    BY <1>5
  <2>2. PICK s \in Managed : perf[s].known /\ d = Evaluated(s) /\ d # Undecided(s)
    BY <2>1
  <2>3. \/ s \in failing /\ d = Decision("retire", s, 90)
        \/ /\ d = Decision("retrain", s, 60) /\ perf[s].total > RetrainAfter
           /\ 5 * perf[s].winning < 2 * perf[s].total
    BY <2>2, EvaluatedMeans
  <2>4. failing # {} => d.type = "retire"
    <3> SUFFICES ASSUME NEW r \in failing, d = Decision("retrain", s, 60) PROVE FALSE
      BY <2>3 DEF Decision
    <3>1. d.confidence >= Decision("retire", r, 90).confidence
      BY <1>3, <2>1 DEF Picks
    <3> QED BY <3>1 DEF Decision
  <2>5. /\ d.on = s /\ d.type \in {"retire", "retrain"}
        /\ d.type = "retire" => s \in failing
        /\ d.type = "retrain" => perf[s].total > RetrainAfter /\ 5 * perf[s].winning < 2 * perf[s].total
        /\ d \in [type : DecisionTypes, on : Managed, confidence : Nat]
    BY <2>3 DEF Decision, DecisionTypes
  <2>6. Justified(d)
    BY <2>4, <2>5 DEF Justified
  <2>7. Justified(decision)'
    BY <1>1, <2>1, <2>6 DEF Justified
  <2> QED BY <1>1, <2>1, <2>5, <2>7 DEF AgentIInv, AgentTypeOK
<1> QED BY <1>4, <1>5 DEF AgentTick

(* Every step of the agents keeps their invariant.                         *)
LEMMA AgentStep == AgentIInv /\ [AgentNext]_agentVars => AgentIInv'
<1> SUFFICES ASSUME AgentIInv, [AgentNext]_agentVars PROVE AgentIInv'
  OBVIOUS
<1> DEFINE Records == [known : BOOLEAN, total : 0..MaxAgentTrades, winning : 0..MaxAgentTrades,
                       streak : 0..MaxAgentTrades, sharpe : Nat, drawdown : Nat]
<1>1. ASSUME NEW s \in Managed, NEW p \in Records, Figures(p), perf' = [perf EXCEPT ![s] = p],
             alike' = FALSE, UNCHANGED decision
      PROVE  AgentIInv'
  BY <1>1 DEF AgentIInv, AgentTypeOK
<1>2. NoPerf \in Records /\ [NoPerf EXCEPT !.known = TRUE] \in Records
      /\ Figures(NoPerf) /\ Figures([NoPerf EXCEPT !.known = TRUE])
  <2>1. 0 \in 0..MaxAgentTrades
    BY AgentAssumption
  <2>2. NoPerf \in Records /\ Figures(NoPerf)
    BY <2>1 DEF NoPerf, Perf, Figures
  <2> DEFINE new == [NoPerf EXCEPT !.known = TRUE]
  <2>3. /\ new.known = TRUE /\ new.total = 0 /\ new.winning = 0 /\ new.streak = 0
        /\ new.sharpe = 0 /\ new.drawdown = 0 /\ new \in Records
    BY <2>1 DEF NoPerf, Perf
  <2> HIDE DEF new
  <2>4. Figures(new)
    BY <2>3 DEF Figures
  <2> QED BY <2>2, <2>3, <2>4 DEF new
<1>3. ASSUME NEW s \in Managed, RegisterStrategy(s) \/ UnregisterStrategy(s) PROVE AgentIInv'
  BY <1>1, <1>2, <1>3 DEF RegisterStrategy, UnregisterStrategy
<1>4. ASSUME NEW s \in Managed, NEW won \in BOOLEAN, UpdatePerformance(s, won) PROVE AgentIInv'
  <2> DEFINE p == perf[s]
             wins == IF won THEN p.winning + 1 ELSE p.winning
             losses == IF won THEN 0 ELSE p.streak + 1
             q == [p EXCEPT !.total = p.total + 1, !.winning = wins, !.streak = losses]
  <2>1. p \in Records /\ Figures(p) /\ p.known /\ p.total < MaxAgentTrades /\ MaxAgentTrades \in Nat
    BY <1>4, AgentAssumption DEF AgentIInv, AgentTypeOK, UpdatePerformance
  <2>2. perf' = [perf EXCEPT ![s] = q] /\ alike' = FALSE /\ UNCHANGED decision
    BY <1>4 DEF UpdatePerformance
  <2> HIDE DEF p
  <2>3. wins + losses <= p.total + 1 /\ wins \in Nat /\ losses \in Nat
    BY <2>1 DEF Figures
  <2>4. wins \in 0..MaxAgentTrades /\ losses \in 0..MaxAgentTrades /\ p.total + 1 \in 0..MaxAgentTrades
    BY <2>1, <2>3
  <2> HIDE DEF wins, losses
  <2>5. q \in Records /\ Figures(q)
    BY <2>1, <2>3, <2>4 DEF Figures
  <2> HIDE DEF q
  <2> QED BY <1>1, <2>2, <2>5
<1>5. CASE UNCHANGED agentVars
  BY <1>5 DEF agentVars, AgentIInv, AgentTypeOK, Justified
<1> QED BY <1>3, <1>4, <1>5, AgentTickStep DEF AgentNext

(* AgentDecides: a strategy on a losing streak is retired before anything  *)
(* else is decided, nobody is promoted or demoted, and the next tick is as *)
(* urgent (agents/strategy_agent.py).                                      *)
THEOREM AgentsRetireFirst == AgentSpec => [](AgentTypeOK /\ AgentDecides)
BY AgentStep, AgentInitHolds, AgentInvImplies, PTL DEF AgentSpec

-----------------------------------------------------------------------------
(* The weights of strategies                                               *)

(* StrategyAllocation: the orchestrator                                    *)

(* Multiplying by a natural number keeps the order.                        *)
LEMMA WideProduct ==
    ASSUME NEW a \in Int, NEW b \in Int, NEW k \in Nat, a <= b
    PROVE  a * k <= b * k
<1>1. (b - a) * k >= 0
  OBVIOUS
<1>2. (b - a) * k = b * k - a * k
  OBVIOUS
<1> QED BY <1>1, <1>2

(* Dividing a multiple by its divisor is exact.                            *)
LEMMA ExactQuotient ==
    ASSUME NEW y \in Int, NEW d \in Nat \ {0}
    PROVE  (y * d) \div d = y
<1> DEFINE q == (y * d) \div d
           r == (y * d) % d
<1>1. q \in Int /\ r \in 0..(d - 1) /\ y * d = d * q + r
  OBVIOUS
<1> HIDE DEF q, r
<1>2. (y - q) * d = r
  BY <1>1
<1>3. CASE y - q >= 1
  <2>1. (y - q) * d >= d
    BY <1>1, <1>3
  <2> QED BY <1>1, <1>2, <2>1
<1>4. CASE y - q <= -1
  <2>1. (y - q) * d <= -d
    BY <1>1, <1>4
  <2> QED BY <1>1, <1>2, <2>1
<1>5. y = q
  BY <1>1, <1>3, <1>4
<1> QED BY <1>5 DEF q

(* A sum lies between one value with the least of the others and with the  *)
(* greatest.                                                               *)
LEMMA SumOfOthers ==
    ASSUME NEW S, IsFiniteSet(S), NEW f, NEW low \in Nat, NEW high \in Nat,
           \A x \in S : f[x] \in Int /\ low <= f[x] /\ f[x] <= high, NEW s \in S
    PROVE  /\ Cardinality(S) - 1 \in Nat /\ SumFunctionOnSet(f, S) \in Int
           /\ f[s] + (Cardinality(S) - 1) * low <= SumFunctionOnSet(f, S)
           /\ SumFunctionOnSet(f, S) <= f[s] + (Cardinality(S) - 1) * high
<1> DEFINE R == S \ {s}
           l == [x \in R |-> low]
           h == [x \in R |-> high]
<1>1. IsFiniteSet(R) /\ Cardinality(R) = Cardinality(S) - 1 /\ Cardinality(R) \in Nat
  BY FS_RemoveElement, FS_CardinalityType
<1>2. /\ \A x \in R : l[x] = low /\ h[x] = high /\ f[x] \in Int
      /\ \A x \in R : l[x] \in Int /\ f[x] \in Int /\ l[x] <= f[x]
      /\ \A x \in R : f[x] \in Int /\ h[x] \in Int /\ f[x] <= h[x]
  OBVIOUS
<1> HIDE DEF R, l, h
<1>3. SumFunctionOnSet(l, R) <= SumFunctionOnSet(f, R) /\ SumFunctionOnSet(f, R) <= SumFunctionOnSet(h, R)
  BY <1>1, <1>2, SumAtMost
<1>4. SumFunctionOnSet(l, R) = Cardinality(R) * low
  BY <1>1, <1>2, SumConstant
<1>5. SumFunctionOnSet(h, R) = Cardinality(R) * high
  BY <1>1, <1>2, SumConstant
<1>6. /\ SumFunctionOnSet(f, S) \in Int /\ SumFunctionOnSet(f, R) \in Int
      /\ SumFunctionOnSet(f, S) = f[s] + SumFunctionOnSet(f, R)
  BY <1>1, <1>2, SumRemove DEF R
<1>7. Cardinality(R) * low \in Int /\ Cardinality(R) * high \in Int /\ f[s] \in Int
  BY <1>1
<1>8. /\ f[s] + Cardinality(R) * low <= SumFunctionOnSet(f, S)
      /\ SumFunctionOnSet(f, S) <= f[s] + Cardinality(R) * high
  BY <1>3, <1>4, <1>5, <1>6, <1>7
<1> QED BY <1>1, <1>6, <1>8

\* The allocation of a strategy.
Allocations == [share : Nat \ {0}, capital : Nat \ {0}, of : Nat \ {0}, sharpe : Sharpes \cup {0}]

WeightTypeOK ==
    /\ shareUnit \in Nat \ {0}
    /\ DOMAIN listed \subseteq Sids
    /\ \A s \in DOMAIN listed : listed[s] \in Allocations
    /\ since \subseteq {"registered", "removed"} /\ grown \in BOOLEAN /\ moves \in 0..MaxMoves

\* The capital was all given in parts of one unit, and not more than that
FromOneUnit(l) ==
    \E U \in Nat \ {0} : /\ \A s \in DOMAIN l : l[s].of = U
                         /\ SumFunctionOnSet([s \in DOMAIN l |-> l[s].capital], DOMAIN l) <= U

\* How far from the limits normalizing leads
WithinLimits(l, unit) ==
    LET n == Cardinality(DOMAIN l) IN
    \A s \in DOMAIN l :
       /\ l[s].share * (MaxShare + (n - 1) * MinShare) <= MaxShare * unit
       /\ l[s].share * (MinShare + (n - 1) * MaxShare) >= MinShare * unit

\* The weights add up to their unit unless they grew; capital was given out
\* in proportion unless a strategy was removed, and from one whole unless
\* one was registered; the limits are those of the last rebalancing.
WeightIInv ==
    /\ WeightTypeOK
    /\ IsFiniteSet(DOMAIN listed)
    /\ ~grown /\ DOMAIN listed # {} => SumFunctionOnSet(Shares(listed), DOMAIN listed) = shareUnit
    /\ "removed" \notin since =>
          \A s \in DOMAIN listed : listed[s].capital * shareUnit = listed[s].share * listed[s].of
    /\ "registered" \notin since => FromOneUnit(listed)
    /\ since = {} => WithinLimits(listed, shareUnit)

(* The fields of the allocation of a listed strategy.                      *)
LEMMA AllocationParts ==
    ASSUME WeightTypeOK, NEW s \in DOMAIN listed
    PROVE  /\ listed[s].share \in Nat \ {0} /\ listed[s].capital \in Nat \ {0}
           /\ listed[s].of \in Nat \ {0} /\ listed[s].sharpe \in Int
           /\ listed[s].sharpe \in Sharpes \cup {0}
<1>1. listed[s] \in Allocations
  BY DEF WeightTypeOK
<1>2. /\ listed[s].share \in Nat \ {0} /\ listed[s].capital \in Nat \ {0}
      /\ listed[s].of \in Nat \ {0} /\ listed[s].sharpe \in Sharpes \cup {0}
  BY <1>1 DEF Allocations
<1>3. \A x \in Sharpes \cup {0} : x \in Int
  BY AllocationAssumption
<1> QED BY <1>2, <1>3

(* Capital given from one unit does not exceed it.                         *)
LEMMA OneUnitIsEnough ==
    ASSUME WeightTypeOK, IsFiniteSet(DOMAIN listed), FromOneUnit(listed)
    PROVE  ~CapitalExceeds
<1>1. PICK U \in Nat \ {0} :
          /\ \A s \in DOMAIN listed : listed[s].of = U
          /\ SumFunctionOnSet([s \in DOMAIN listed |-> listed[s].capital], DOMAIN listed) <= U
  BY DEF FromOneUnit
<1> DEFINE D == DOMAIN listed
           f == [s \in D |-> listed[s].capital]
           common == U * WeightUnit
           g == [r \in D |-> (listed[r].capital * common) \div U]
<1>2. WeightUnit \in Nat /\ \A r \in D : f[r] = listed[r].capital /\ f[r] \in Int
  BY AllocationParts, AllocationAssumption
<1>3. \A r \in D : f[r] \in Int /\ g[r] = WeightUnit * f[r]
  <2> TAKE r \in D
  <2> DEFINE c == listed[r].capital
  <2>1. c \in Int /\ f[r] = c
    BY <1>2
  <2> HIDE DEF c
  <2>2. (c * common) = (WeightUnit * c) * U
    BY <1>2, <2>1
  <2>3. ((WeightUnit * c) * U) \div U = WeightUnit * c
    BY <1>2, <2>1, ExactQuotient
  <2> QED BY <2>1, <2>2, <2>3 DEF c
<1>4. SumFunctionOnSet(g, D) = WeightUnit * SumFunctionOnSet(f, D) /\ SumFunctionOnSet(f, D) \in Int
  <2> HIDE DEF f, g, D
  <2>1. IsFiniteSet(D)
    BY DEF D
  <2> QED BY <1>2, <1>3, <2>1, SumScale, SumRemove
<1>5. SumFunctionOnSet(g, D) <= common
  <2>1. SumFunctionOnSet(f, D) <= U
    BY <1>1
  <2> HIDE DEF f, g, D
  <2>2. SumFunctionOnSet(f, D) * WeightUnit <= U * WeightUnit
    BY <1>2, <1>4, <2>1, WideProduct
  <2> QED BY <1>2, <1>4, <2>2
<1>6. ASSUME NEW s \in D,
             SumFunction([r \in D |-> (listed[r].capital * (listed[s].of * WeightUnit)) \div listed[r].of])
                > listed[s].of * WeightUnit
      PROVE  FALSE
  <2>1. listed[s].of = U
    BY <1>1
  <2>2. [r \in D |-> (listed[r].capital * (listed[s].of * WeightUnit)) \div listed[r].of] = g
    BY <1>1, <2>1
  <2>3. SumFunction(g) = SumFunctionOnSet(g, D)
    BY DEF SumFunction
  <2>4. SumFunction(g) > common
    BY <1>6, <2>1, <2>2
  <2>5. SumFunctionOnSet(g, D) \in Int /\ common \in Int
    BY <1>2, <1>4
  <2> HIDE DEF g, D, common
  <2> QED BY <1>5, <2>3, <2>4, <2>5
<1> QED BY <1>6 DEF CapitalExceeds

(* The inductive invariant of the weights implies what the run checks.     *)
LEMMA WeightInvHolds == WeightIInv => WeightsHold
<1> SUFFICES ASSUME WeightIInv PROVE WeightsHold
  OBVIOUS
<1>1. IsFiniteSet(DOMAIN listed) /\ WeightTypeOK /\ DOMAIN Shares(listed) = DOMAIN listed
  BY DEF WeightIInv, Shares
<1>2. Cardinality(DOMAIN listed) > 0 => DOMAIN listed # {}
  BY FS_EmptySet
<1>3. ~grown /\ Cardinality(DOMAIN listed) > 0 => SumFunction(Shares(listed)) = shareUnit
  BY <1>1, <1>2 DEF WeightIInv, SumFunction
<1>4. CapitalExceeds => "registered" \in since
  BY <1>1, OneUnitIsEnough DEF WeightIInv
<1>5. since = {} => WithinLimits(listed, shareUnit)
  BY DEF WeightIInv
<1>6. "removed" \notin since =>
          \A s \in DOMAIN listed : listed[s].capital * shareUnit = listed[s].share * listed[s].of
  BY DEF WeightIInv
<1> QED BY <1>3, <1>4, <1>5, <1>6 DEF WeightsHold, WithinLimits

-----------------------------------------------------------------------------

\* signals that may be given
SignalSets == [Sids -> Voices]

(* The fields of what the strategies say.                                  *)
LEMMA VoiceParts ==
    ASSUME NEW signals \in SignalSets, NEW s \in Sids
    PROVE  /\ DOMAIN signals = Sids
           /\ signals[s].side \in {"none", "buy", "sell"}
           /\ signals[s].side # "none" => signals[s].strength \in {1, 2} /\ signals[s].confidence \in {1, 2}
<1>1. DOMAIN signals = Sids /\ signals[s] \in Voices
  BY DEF SignalSets
<1>2. CASE signals[s] = Silent
  BY <1>1, <1>2 DEF Silent
<1>3. CASE signals[s] \in [side : {"buy", "sell"}, strength : Strengths, confidence : {1, 2}]
  BY <1>1, <1>3, AllocationAssumption
<1> QED BY <1>1, <1>2, <1>3 DEF Voices

\* The listed strategies that speak for a side, with what they add to it
Speakers(signals, side) == Speaking(signals, side) \cap DOMAIN listed
\* What each strategy adds to the strength of a side.
SaidBy(signals, side) == [s \in Speakers(signals, side) |-> signals[s].strength * listed[s].share]

(* The strength of a side is a sum over the listed strategies that speak   *)
(* for it.                                                                 *)
LEMMA StrengthParts ==
    ASSUME WeightIInv, NEW signals \in SignalSets, NEW side \in {"buy", "sell"}
    PROVE  /\ IsFiniteSet(Speakers(signals, side)) /\ Speakers(signals, side) \subseteq Sids
           /\ \A s \in Speakers(signals, side) :
                 /\ SaidBy(signals, side)[s] \in Int
                 /\ SaidBy(signals, side)[s] >= listed[s].share
                 /\ listed[s].share \in Nat \ {0}
           /\ StrengthOf(signals, side) = SumFunctionOnSet(SaidBy(signals, side), Speakers(signals, side))
           /\ StrengthOf(signals, side) \in Nat
<1> DEFINE D == Speakers(signals, side)
           f == SaidBy(signals, side)
<1>1. IsFiniteSet(D) /\ D \subseteq Sids /\ D \subseteq DOMAIN listed
  BY FS_Subset DEF WeightIInv, WeightTypeOK, Speakers
<1>2. ASSUME NEW s \in D
      PROVE  f[s] \in Int /\ f[s] >= listed[s].share /\ listed[s].share \in Nat \ {0}
  <2>1. listed[s].share \in Nat \ {0}
    BY <1>1, <1>2, AllocationParts DEF WeightIInv
  <2>2. signals[s].side = side
    BY DEF Speakers, Speaking
  <2>3. signals[s].strength \in {1, 2}
    BY <1>1, <1>2, <2>2, VoiceParts
  <2>4. f[s] = signals[s].strength * listed[s].share
    BY DEF SaidBy
  <2> QED BY <2>1, <2>3, <2>4
<1>3. StrengthOf(signals, side) = SumFunctionOnSet(f, D)
  BY DEF StrengthOf, SumFunction, SaidBy, Speakers
<1>4. SumFunctionOnSet(f, D) \in Nat
  <2> DEFINE z == [s \in D |-> 0]
  <2>1. \A s \in D : z[s] = 0
    OBVIOUS
  <2> HIDE DEF z, f, D
  <2>2. \A s \in D : f[s] \in Int /\ z[s] \in Int /\ z[s] <= f[s]
    BY <1>2, <2>1
  <2>3. SumFunctionOnSet(z, D) <= SumFunctionOnSet(f, D)
    BY <1>1, <2>2, SumAtMost
  <2>4. SumFunctionOnSet(z, D) = 0
    BY <1>1, <2>1, SumZero
  <2>5. SumFunctionOnSet(f, D) \in Int
    BY <1>1, <2>2, SumRemove
  <2> QED BY <2>3, <2>4, <2>5
<1> QED BY <1>1, <1>2, <1>3, <1>4

(* The side a signal resolves to is that of the net strength, beyond two   *)
(* percent.                                                                *)
LEMMA SideMeans ==
    ASSUME WeightIInv, NEW signals \in SignalSets
    PROVE  /\ NetStrength(signals) \in Int /\ shareUnit \in Nat \ {0}
           /\ Side(signals) \in {"buy", "sell", "none"}
           /\ Side(signals) = "buy" <=> 100 * NetStrength(signals) >= 2 * shareUnit
           /\ Side(signals) = "sell" <=> -100 * NetStrength(signals) >= 2 * shareUnit
<1> DEFINE net == NetStrength(signals)
<1>1. net \in Int /\ shareUnit \in Nat \ {0}
  <2>1. StrengthOf(signals, "buy") \in Nat /\ StrengthOf(signals, "sell") \in Nat
    BY StrengthParts
  <2> QED BY <2>1 DEF NetStrength, WeightIInv, WeightTypeOK
<1>2. Side(signals) = CASE 100 * net >= 2 * shareUnit -> "buy"
                        [] -100 * net >= 2 * shareUnit -> "sell"
                        [] OTHER -> "none"
  BY DEF Side
<1> HIDE DEF net
<1>3. ~(100 * net >= 2 * shareUnit /\ -100 * net >= 2 * shareUnit)
  BY <1>1
<1>4. CASE 100 * net >= 2 * shareUnit
  BY <1>1, <1>2, <1>3, <1>4 DEF net
<1>5. CASE -100 * net >= 2 * shareUnit
  BY <1>1, <1>2, <1>3, <1>5 DEF net
<1>6. CASE ~(100 * net >= 2 * shareUnit) /\ ~(-100 * net >= 2 * shareUnit)
  BY <1>1, <1>2, <1>6 DEF net
<1> QED BY <1>4, <1>5, <1>6

\* The other side
Flipped(side) == CASE side = "buy" -> "sell" [] side = "sell" -> "buy" [] OTHER -> side

(* Had everyone said the contrary, the contrary would have been resolved.  *)
LEMMA SwappedMeans ==
    ASSUME WeightIInv, NEW signals \in SignalSets
    PROVE  Side(signals) = "buy" <=> Side(Swapped(signals)) = "sell"
<1> DEFINE other == Swapped(signals)
<1>1. /\ DOMAIN other = Sids /\ DOMAIN signals = Sids
      /\ \A s \in Sids : other[s] = [signals[s] EXCEPT !.side = Flipped(signals[s].side)]
  BY DEF Swapped, SignalSets, Flipped
<1> HIDE DEF other
<1>2. ASSUME NEW s \in Sids
      PROVE  /\ other[s] \in Voices /\ other[s].side = Flipped(signals[s].side)
             /\ other[s].strength = signals[s].strength
  <2>1. signals[s] \in Voices
    BY DEF SignalSets
  <2>2. CASE signals[s] = Silent
    BY <1>1, <2>2 DEF Silent, Flipped, Voices
  <2>3. CASE signals[s] \in [side : {"buy", "sell"}, strength : Strengths, confidence : {1, 2}]
    BY <1>1, <2>3 DEF Flipped, Voices
  <2> QED BY <2>1, <2>2, <2>3 DEF Voices
<1>3. other \in SignalSets
  <2>1. other = [s \in Sids |-> other[s]]
    BY <1>1 DEF other, Swapped
  <2> QED BY <1>2, <2>1 DEF SignalSets
<1>4. \A s \in Sids : signals[s].side \in {"none", "buy", "sell"}
  BY VoiceParts
<1>5. ASSUME NEW side \in {"buy", "sell"}
      PROVE  StrengthOf(other, Flipped(side)) = StrengthOf(signals, side)
  <2>1. \A s \in Sids : other[s].side = Flipped(side) <=> signals[s].side = side
    BY <1>2, <1>4 DEF Flipped
  <2>2. Speaking(other, Flipped(side)) = Speaking(signals, side) /\ Speaking(signals, side) \subseteq Sids
    BY <1>1, <2>1 DEF Speaking
  <2> DEFINE D == Speaking(signals, side) \cap DOMAIN listed
  <2>3. [s \in D |-> other[s].strength * listed[s].share] = [s \in D |-> signals[s].strength * listed[s].share]
    BY <1>2, <2>2
  <2> QED BY <2>2, <2>3 DEF StrengthOf
<1>6. StrengthOf(other, "sell") = StrengthOf(signals, "buy")
      /\ StrengthOf(other, "buy") = StrengthOf(signals, "sell")
  <2>1. Flipped("buy") = "sell" /\ Flipped("sell") = "buy"
    BY DEF Flipped
  <2>2. StrengthOf(other, Flipped("buy")) = StrengthOf(signals, "buy")
    BY <1>5
  <2>3. StrengthOf(other, Flipped("sell")) = StrengthOf(signals, "sell")
    BY <1>5
  <2> QED BY <2>1, <2>2, <2>3
<1>7. StrengthOf(signals, "buy") \in Nat /\ StrengthOf(signals, "sell") \in Nat
  BY StrengthParts
<1>8. NetStrength(other) = -NetStrength(signals)
  BY <1>6, <1>7 DEF NetStrength
<1>9. /\ NetStrength(signals) \in Int /\ shareUnit \in Nat \ {0}
      /\ Side(signals) = "buy" <=> 100 * NetStrength(signals) >= 2 * shareUnit
  BY SideMeans
<1>10. Side(other) = "sell" <=> -100 * NetStrength(other) >= 2 * shareUnit
  BY <1>3, SideMeans
<1>11. -100 * NetStrength(other) = 100 * NetStrength(signals)
  BY <1>8, <1>9
<1> QED BY <1>9, <1>10, <1>11 DEF other

(* Signals that agree decide.                                              *)
LEMMA AgreedMeans ==
    ASSUME WeightIInv, NEW signals \in SignalSets, NEW s \in DOMAIN listed,
           signals[s].side # "none", 50 * listed[s].share >= shareUnit,
           \A r \in Sids : signals[r].side \in {"none", signals[s].side}
    PROVE  Side(signals) = signals[s].side
<1> DEFINE side == signals[s].side
           D == Speakers(signals, side)
           f == SaidBy(signals, side)
<1>1. s \in Sids /\ DOMAIN signals = Sids /\ side \in {"buy", "sell"}
  <2>1. s \in Sids
    BY DEF WeightIInv, WeightTypeOK
  <2>2. DOMAIN signals = Sids /\ signals[s].side \in {"none", "buy", "sell"}
    BY <2>1, VoiceParts
  <2> QED BY <2>1, <2>2
<1>2. s \in D
  BY <1>1 DEF Speakers, Speaking
<1> HIDE DEF side
<1>3. /\ IsFiniteSet(D) /\ \A r \in D : f[r] \in Int /\ f[r] >= listed[r].share /\ listed[r].share \in Nat \ {0}
      /\ StrengthOf(signals, side) = SumFunctionOnSet(f, D)
  BY <1>1, StrengthParts
<1>4. SumFunctionOnSet(f, D) >= listed[s].share
  <2> DEFINE R == D \ {s}
             z == [r \in R |-> 0]
  <2>1. IsFiniteSet(R) /\ \A r \in R : z[r] = 0 /\ z[r] \in Int
    BY <1>3, FS_Subset
  <2> HIDE DEF z, f, D
  <2>2. SumFunctionOnSet(z, R) = 0
    <3> HIDE DEF R
    <3> QED BY <2>1, SumZero
  <2>3. \A r \in R : f[r] \in Int /\ z[r] \in Int /\ z[r] <= f[r]
    BY <1>3, <2>1
  <2>4. SumFunctionOnSet(z, R) <= SumFunctionOnSet(f, R)
    <3> HIDE DEF R
    <3> QED BY <2>1, <2>3, SumAtMost
  <2>5. SumFunctionOnSet(f, D) = f[s] + SumFunctionOnSet(f, R)
    BY <1>2, <1>3, SumRemove
  <2>6. SumFunctionOnSet(f, R) \in Int
    <3> HIDE DEF R
    <3> QED BY <2>1, <2>3, SumRemove
  <2>7. f[s] \in Int /\ f[s] >= listed[s].share /\ listed[s].share \in Nat
    BY <1>2, <1>3
  <2> QED BY <2>2, <2>4, <2>5, <2>6, <2>7
<1>5. ASSUME NEW o \in {"buy", "sell"}, o # side PROVE StrengthOf(signals, o) = 0
  <2>1. \A r \in Sids : signals[r].side # o
    BY <1>5 DEF side
  <2>2. Speakers(signals, o) = {}
    BY <1>1, <2>1 DEF Speakers, Speaking
  <2>3. StrengthOf(signals, o) = SumFunctionOnSet(SaidBy(signals, o), {})
    BY <2>2, StrengthParts
  <2> QED BY <2>3, SumEmpty
<1>6. StrengthOf(signals, side) \in Nat /\ StrengthOf(signals, side) >= listed[s].share
  BY <1>1, <1>3, <1>4, StrengthParts
<1>7. listed[s].share \in Nat \ {0} /\ 50 * listed[s].share >= shareUnit
  BY <1>2, <1>3
<1> DEFINE net == NetStrength(signals)
<1>8. /\ net \in Int /\ shareUnit \in Nat \ {0}
      /\ Side(signals) = "buy" <=> 100 * net >= 2 * shareUnit
      /\ Side(signals) = "sell" <=> -100 * net >= 2 * shareUnit
  BY SideMeans
<1>9. CASE side = "buy"
  <2>1. net >= listed[s].share
    BY <1>5, <1>6, <1>7, <1>9 DEF NetStrength
  <2> HIDE DEF net
  <2> QED BY <1>7, <1>8, <1>9, <2>1 DEF side
<1>10. CASE side = "sell"
  <2>1. -net >= listed[s].share
    BY <1>5, <1>6, <1>7, <1>10 DEF NetStrength
  <2> HIDE DEF net
  <2> QED BY <1>7, <1>8, <1>10, <2>1 DEF side
<1> QED BY <1>1, <1>9, <1>10

(* The side that wins is spoken for, and its order sized by a strategy.    *)
LEMMA SizedMeans ==
    ASSUME WeightIInv, NEW signals \in SignalSets, Side(signals) # "none"
    PROVE  /\ MostConfident(signals) # {}
           /\ \A best \in MostConfident(signals) :
                 IF best \in DOMAIN listed
                 THEN OrderSize(signals, best) \in 1..(listed[best].capital * 2 * shareUnit)
                 ELSE OrderSize(signals, best) = 0
<1> DEFINE side == Side(signals)
           net == NetStrength(signals)
           heard == Speaking(signals, side)
<1>1. /\ net \in Int /\ shareUnit \in Nat \ {0} /\ side \in {"buy", "sell"}
      /\ side = "buy" => 100 * net >= 2 * shareUnit
      /\ side = "sell" => -100 * net >= 2 * shareUnit
  BY SideMeans
<1>2. heard # {}
  <2>1. SUFFICES ASSUME heard = {} PROVE FALSE
    OBVIOUS
  <2>2. Speakers(signals, side) = {}
    BY <2>1 DEF Speakers
  <2>3. StrengthOf(signals, side) = SumFunctionOnSet(SaidBy(signals, side), {})
    <3> HIDE DEF side
    <3> QED BY <1>1, <2>2, StrengthParts
  <2>4. StrengthOf(signals, side) = 0
    BY <2>3, SumEmpty
  <2>5. StrengthOf(signals, "buy") \in Nat /\ StrengthOf(signals, "sell") \in Nat
    BY StrengthParts
  <2>6. net = StrengthOf(signals, "buy") - StrengthOf(signals, "sell")
    BY DEF NetStrength
  <2> HIDE DEF net, side, heard
  <2>7. side = "buy" => ~(100 * net >= 2 * shareUnit)
    BY <1>1, <2>4, <2>5, <2>6
  <2>8. side = "sell" => ~(-100 * net >= 2 * shareUnit)
    BY <1>1, <2>4, <2>5, <2>6
  <2> QED BY <1>1, <2>7, <2>8
<1>3. \A s \in heard : signals[s].confidence \in {1, 2}
  <2> TAKE s \in heard
  <2>1. s \in Sids /\ signals[s].side = side
    BY DEF Speaking, SignalSets
  <2>2. signals[s].side # "none"
    BY <2>1
  <2> QED BY <2>1, <2>2, VoiceParts
<1>4. MostConfident(signals) = {s \in heard : \A r \in heard : signals[r].confidence <= signals[s].confidence}
  BY DEF MostConfident
<1> HIDE DEF heard
<1>5. MostConfident(signals) # {}
  <2>1. CASE \E s \in heard : signals[s].confidence = 2
    BY <1>3, <1>4, <2>1
  <2>2. CASE ~\E s \in heard : signals[s].confidence = 2
    BY <1>2, <1>3, <1>4, <2>2
  <2> QED BY <2>1, <2>2
<1>6. ASSUME NEW best \in DOMAIN listed
      PROVE  OrderSize(signals, best) \in 1..(listed[best].capital * 2 * shareUnit)
  <2> DEFINE m == Lesser(2 * shareUnit, Greater(net, -net))
             c == listed[best].capital
  <2>1. OrderSize(signals, best) = c * m
    BY DEF OrderSize
  <2>2. c \in Nat \ {0}
    BY AllocationParts DEF WeightIInv
  <2> HIDE DEF c, side, net
  <2>3. m \in Nat \ {0} /\ m <= 2 * shareUnit
    BY <1>1 DEF Lesser, Greater
  <2> HIDE DEF m
  <2>4. m * c <= (2 * shareUnit) * c
    BY <1>1, <2>2, <2>3, WideProduct
  <2>5. c * m \in Nat \ {0} /\ c * m = m * c /\ (2 * shareUnit) * c = c * 2 * shareUnit
    BY <1>1, <2>2, <2>3
  <2>6. c * m \in 1..(c * 2 * shareUnit)
    BY <1>1, <2>2, <2>4, <2>5
  <2> QED BY <2>1, <2>6 DEF c
<1>7. ASSUME NEW best, best \notin DOMAIN listed PROVE OrderSize(signals, best) = 0
  BY <1>7 DEF OrderSize
<1> QED BY <1>5, <1>6, <1>7

(* Signals are resolved by the weights, whatever the strategies say.       *)
LEMMA SignalsAreResolved == WeightIInv => SignalsResolved
<1> SUFFICES ASSUME WeightIInv, NEW signals \in [Sids -> Voices]
             PROVE  LET side == Side(signals) IN
                    /\ side = "buy" <=> Side(Swapped(signals)) = "sell"
                    /\ \A s \in DOMAIN listed :
                          /\ signals[s].side # "none" /\ 50 * listed[s].share >= shareUnit
                          /\ \A r \in Sids : signals[r].side \in {"none", signals[s].side}
                          => side = signals[s].side
                    /\ side # "none" =>
                          /\ MostConfident(signals) # {}
                          /\ \A best \in MostConfident(signals) :
                                IF best \in DOMAIN listed
                                THEN OrderSize(signals, best) \in 1..(listed[best].capital * 2 * shareUnit)
                                ELSE OrderSize(signals, best) = 0
  BY DEF SignalsResolved
<1>1. signals \in SignalSets
  BY DEF SignalSets
<1>2. Side(signals) = "buy" <=> Side(Swapped(signals)) = "sell"
  BY <1>1, SwappedMeans
<1>3. \A s \in DOMAIN listed :
         /\ signals[s].side # "none" /\ 50 * listed[s].share >= shareUnit
         /\ \A r \in Sids : signals[r].side \in {"none", signals[s].side}
         => Side(signals) = signals[s].side
  BY <1>1, AgreedMeans
<1> QED BY <1>1, <1>2, <1>3, SizedMeans

-----------------------------------------------------------------------------

(* The invariant holds of an orchestrator without strategies.              *)
LEMMA WeightInitHolds == AllocationInit => WeightIInv
<1> SUFFICES ASSUME AllocationInit PROVE WeightIInv
  OBVIOUS
<1>1. DOMAIN listed = {} /\ IsFiniteSet({}) /\ shareUnit = WeightUnit
  BY FS_EmptySet DEF AllocationInit
<1>2. WeightUnit \in Nat \ {0}
  BY AllocationAssumption
<1>3. WeightTypeOK
  <2>1. since = {} /\ grown = FALSE /\ moves = 0 /\ 0 \in 0..MaxMoves
    BY AllocationAssumption DEF AllocationInit
  <2> QED BY <1>1, <1>2, <2>1 DEF WeightTypeOK
<1>4. FromOneUnit(listed)
  <2>1. SumFunctionOnSet([s \in DOMAIN listed |-> listed[s].capital], {}) = 0
    BY SumEmpty
  <2>2. /\ \A s \in DOMAIN listed : listed[s].of = WeightUnit
        /\ SumFunctionOnSet([s \in DOMAIN listed |-> listed[s].capital], DOMAIN listed) <= WeightUnit
    BY <1>1, <1>2, <2>1
  <2> QED BY <1>2, <2>2 DEF FromOneUnit
<1> QED BY <1>1, <1>3, <1>4 DEF WeightIInv, WithinLimits, AllocationInit

(* Registering a strategy.                                                 *)
LEMMA EnlistStep ==
    ASSUME WeightIInv, NEW s \in Sids, NEW asked \in AskedShares, EnlistStrategy(s, asked)
    PROVE  WeightIInv'
<1> DEFINE D == DOMAIN listed
           w == Clamped(MinShare, asked, MaxShare)
           scale == IF shareUnit % WeightUnit = 0 THEN 1 ELSE WeightUnit
           scaled == [r \in D |-> [listed[r] EXCEPT !.share = @ * scale]]
           share == (w * shareUnit') \div WeightUnit
           new == Allocation(share, w, WeightUnit, 0)
<1>1. /\ moves < MaxMoves /\ moves' = moves + 1 /\ grown' = TRUE
      /\ since' = since \cup {"registered"}
      /\ shareUnit' = shareUnit * scale
      /\ listed' = Put(scaled, s, new)
  BY DEF EnlistStrategy
<1>2. /\ asked \in Nat /\ MinShare \in Nat \ {0} /\ MaxShare \in Nat /\ MinShare <= MaxShare
      /\ WeightUnit \in Nat \ {0} /\ MaxMoves \in Nat
  BY AllocationAssumption
<1>3. w \in Nat \ {0}
  BY <1>2 DEF Clamped, Greater, Lesser
<1>4. shareUnit \in Nat \ {0} /\ moves \in 0..MaxMoves /\ IsFiniteSet(D) /\ D \subseteq Sids
  BY DEF WeightIInv, WeightTypeOK
<1>5. scale \in Nat \ {0}
  BY <1>2
<1> HIDE DEF w
<1>6. PICK k \in Nat \ {0} : shareUnit' = k * WeightUnit
  <2>1. CASE shareUnit % WeightUnit = 0
    <3>1. shareUnit = WeightUnit * (shareUnit \div WeightUnit) + (shareUnit % WeightUnit)
          /\ shareUnit \div WeightUnit \in Int
      BY <1>2, <1>4
    <3> DEFINE k == shareUnit \div WeightUnit
    <3>2. shareUnit' = k * WeightUnit /\ k \in Int
      BY <1>1, <1>2, <1>4, <2>1, <3>1
    <3> HIDE DEF k, scale
    <3>3. shareUnit' \in Nat \ {0}
      BY <1>1, <1>4, <1>5
    <3>4. k > 0
      <4>1. CASE k <= 0
        <5>1. k * WeightUnit <= 0 * WeightUnit
          BY <1>2, <3>2, <4>1, WideProduct
        <5> QED BY <1>2, <3>2, <3>3, <5>1
      <4> QED BY <3>2, <4>1
    <3> QED BY <3>2, <3>4
  <2>2. CASE shareUnit % WeightUnit # 0
    BY <1>1, <1>4, <2>2
  <2> QED BY <2>1, <2>2
<1>7. share = w * k /\ share \in Nat \ {0} /\ share * WeightUnit = w * shareUnit'
  <2>1. w * shareUnit' = (w * k) * WeightUnit
    BY <1>2, <1>3, <1>6
  <2>2. w * k \in Nat \ {0}
    BY <1>3, <1>6
  <2>3. ((w * k) * WeightUnit) \div WeightUnit = w * k
    BY <1>2, <2>2, ExactQuotient
  <2> QED BY <2>1, <2>2, <2>3
<1>8. shareUnit' \in Nat \ {0}
  BY <1>1, <1>4, <1>5
<1> HIDE DEF share, scale
<1>9. \A r \in D : /\ scaled[r] \in Allocations /\ scaled[r].share = listed[r].share * scale
                   /\ scaled[r].capital = listed[r].capital /\ scaled[r].of = listed[r].of
                   /\ listed[r].share \in Nat \ {0} /\ listed[r].capital \in Nat \ {0}
                   /\ listed[r].of \in Nat \ {0}
  <2> TAKE r \in D
  <2>1. listed[r] \in Allocations
    BY DEF WeightIInv, WeightTypeOK
  <2>2. /\ listed[r].share \in Nat \ {0} /\ listed[r].capital \in Nat \ {0}
        /\ listed[r].of \in Nat \ {0}
    BY <2>1 DEF Allocations
  <2>3. listed[r].share * scale \in Nat \ {0}
    BY <1>5, <2>2
  <2>4. scaled[r] = [listed[r] EXCEPT !.share = listed[r].share * scale]
    OBVIOUS
  <2> HIDE DEF scaled
  <2> QED BY <2>1, <2>2, <2>3, <2>4 DEF Allocations
<1>10. new \in Allocations /\ new.share = share /\ new.capital = w /\ new.of = WeightUnit
  BY <1>2, <1>3, <1>7 DEF Allocation, Allocations
<1> HIDE DEF new
<1>11. /\ DOMAIN listed' = D \cup {s} /\ listed'[s] = new
       /\ \A r \in D : r # s => listed'[r] = scaled[r]
  BY <1>1 DEF Put
<1> HIDE DEF scaled
<1>12. WeightTypeOK'
  <2>1. \A r \in DOMAIN listed' : listed'[r] \in Allocations
    BY <1>9, <1>10, <1>11
  <2>2. since' \subseteq {"registered", "removed"} /\ moves' \in 0..MaxMoves /\ grown' \in BOOLEAN
    BY <1>1, <1>2, <1>4 DEF WeightIInv, WeightTypeOK
  <2> QED BY <1>4, <1>8, <1>11, <2>1, <2>2 DEF WeightTypeOK
<1>13. ASSUME "removed" \notin since', NEW r \in DOMAIN listed'
       PROVE  listed'[r].capital * shareUnit' = listed'[r].share * listed'[r].of
  <2>1. CASE r = s
    BY <1>2, <1>3, <1>7, <1>8, <1>10, <1>11, <2>1
  <2>2. CASE r # s
    <3> DEFINE a == listed[r].capital
               b == listed[r].share
               c == listed[r].of
    <3>1. r \in D /\ listed'[r].capital = a /\ listed'[r].share = b * scale /\ listed'[r].of = c
      BY <1>9, <1>11, <2>2
    <3>2. a * shareUnit = b * c
      BY <1>1, <1>13, <3>1 DEF WeightIInv
    <3>3. a \in Nat /\ b \in Nat /\ c \in Nat
      BY <1>9, <3>1
    <3> HIDE DEF a, b, c
    <3>4. a * shareUnit' = (a * shareUnit) * scale
      BY <1>1, <1>4, <1>5, <3>3
    <3>5. (b * c) * scale = (b * scale) * c
      BY <1>5, <3>3
    <3>6. a * shareUnit' = (b * scale) * c
      BY <3>2, <3>4, <3>5
    <3> QED BY <3>1, <3>6
  <2> QED BY <2>1, <2>2
<1>14. IsFiniteSet(DOMAIN listed')
  BY <1>4, <1>11, FS_AddElement
<1>15. "registered" \in since' /\ since' # {} /\ grown'
  BY <1>1
<1> QED BY <1>12, <1>13, <1>14, <1>15 DEF WeightIInv

(* Removing one.                                                           *)
LEMMA DelistStep ==
    ASSUME WeightIInv, NEW s \in Sids, DelistStrategy(s)
    PROVE  WeightIInv'
<1> DEFINE D == DOMAIN listed
           rest == D \ {s}
           n == Cardinality(rest)
           Raised(r) == Lesser(MaxShare * shareUnit * n,
                               (listed[r].share * n + listed[s].share) * WeightUnit)
<1>1. /\ moves < MaxMoves /\ moves' = moves + 1 /\ grown' = FALSE /\ s \in D
      /\ since' = since \cup {"removed"}
      /\ listed' = [r \in rest |-> [listed[r] EXCEPT !.share = Raised(r)]]
      /\ shareUnit' = IF n = 0 THEN WeightUnit ELSE SumFunction(Shares(listed'))
  BY DEF DelistStrategy
<1>2. MaxShare \in Nat \ {0} /\ WeightUnit \in Nat \ {0} /\ MaxMoves \in Nat
  BY AllocationAssumption
<1>3. /\ shareUnit \in Nat \ {0} /\ moves \in 0..MaxMoves /\ IsFiniteSet(D) /\ D \subseteq Sids
      /\ WeightTypeOK
  BY DEF WeightIInv, WeightTypeOK
<1>4. IsFiniteSet(rest) /\ n \in Nat /\ (n = 0 => rest = {})
  BY <1>3, FS_RemoveElement, FS_CardinalityType, FS_EmptySet
<1> HIDE DEF n, Raised
<1>5. \A r \in rest : Raised(r) \in Nat \ {0}
  <2> TAKE r \in rest
  <2>1. n # 0
    <3>1. rest # {}
      OBVIOUS
    <3>2. n = 0 <=> rest = {}
      BY <1>3, FS_RemoveElement, FS_CardinalityType, FS_EmptySet DEF n
    <3> QED BY <3>1, <3>2
  <2> DEFINE a == listed[r].share
             b == listed[s].share
  <2>2. a \in Nat \ {0} /\ b \in Nat \ {0}
    BY <1>1, <1>3, AllocationParts
  <2> HIDE DEF a, b
  <2>3. MaxShare * shareUnit \in Nat \ {0} /\ n \in Nat \ {0}
    BY <1>2, <1>3, <1>4, <2>1
  <2>4. (MaxShare * shareUnit) * n \in Nat \ {0}
    BY <2>3
  <2>5. a * n \in Nat
    BY <2>2, <2>3
  <2>6. (a * n + b) \in Nat \ {0}
    BY <2>2, <2>5
  <2>7. (a * n + b) * WeightUnit \in Nat \ {0}
    BY <1>2, <2>6
  <2> QED BY <2>4, <2>7 DEF Raised, Lesser, a, b
<1>6. /\ DOMAIN listed' = rest
      /\ \A r \in rest : /\ listed'[r] \in Allocations /\ listed'[r].share = Raised(r)
                         /\ listed'[r].capital = listed[r].capital /\ listed'[r].of = listed[r].of
  <2>1. DOMAIN listed' = rest
    BY <1>1
  <2>2. ASSUME NEW r \in rest
        PROVE  /\ listed'[r] \in Allocations /\ listed'[r].share = Raised(r)
               /\ listed'[r].capital = listed[r].capital /\ listed'[r].of = listed[r].of
    <3>1. listed[r] \in Allocations
      BY <1>3 DEF WeightTypeOK
    <3>2. listed'[r] = [listed[r] EXCEPT !.share = Raised(r)]
      BY <1>1
    <3> QED BY <1>5, <3>1, <3>2 DEF Allocations
  <2> QED BY <2>1, <2>2
<1>7. /\ DOMAIN Shares(listed') = rest
      /\ \A r \in rest : Shares(listed')[r] = Raised(r)
  BY <1>6 DEF Shares
<1>8. /\ rest # {} => shareUnit' = SumFunctionOnSet(Shares(listed'), rest)
      /\ shareUnit' \in Nat \ {0}
  <2>1. CASE rest = {}
    <3>1. n = 0
      BY <2>1, FS_EmptySet DEF n
    <3> QED BY <1>1, <1>2, <2>1, <3>1
  <2>2. CASE rest # {}
    <3>1. n # 0
      BY <1>4, <2>2
    <3>2. shareUnit' = SumFunctionOnSet(Shares(listed'), rest)
      BY <1>1, <1>7, <3>1 DEF SumFunction
    <3> DEFINE f == Shares(listed')
               z == [r \in rest |-> 0]
    <3>3. \A r \in rest : f[r] \in Nat \ {0} /\ f[r] \in Int
      BY <1>5, <1>7
    <3>4. PICK x \in rest : TRUE
      BY <2>2
    <3>5. \A r \in rest \ {x} : z[r] = 0 /\ z[r] \in Int
      OBVIOUS
    <3> HIDE DEF f, z, rest
    <3>6. SumFunctionOnSet(f, rest) = f[x] + SumFunctionOnSet(f, rest \ {x}) /\ SumFunctionOnSet(f, rest) \in Int
      BY <1>4, <3>3, SumRemove
    <3> DEFINE R == rest \ {x}
    <3>7. IsFiniteSet(R) /\ R \subseteq rest
      BY <1>4, FS_RemoveElement
    <3>8. \A r \in R : z[r] = 0 /\ z[r] \in Int /\ f[r] \in Int /\ z[r] <= f[r]
      BY <3>3, <3>5
    <3>9. SumFunctionOnSet(z, R) <= SumFunctionOnSet(f, R) /\ SumFunctionOnSet(z, R) = 0
          /\ SumFunctionOnSet(f, R) \in Int
      <4> HIDE DEF R
      <4> QED BY <3>7, <3>8, SumAtMost, SumZero, SumRemove
    <3>10. f[x] \in Nat \ {0}
      BY <3>3
    <3>11. SumFunctionOnSet(f, rest) \in Nat \ {0}
      BY <3>6, <3>9, <3>10
    <3> QED BY <3>2, <3>11 DEF f
  <2> QED BY <2>1, <2>2
<1>9. WeightTypeOK'
  <2>1. since' \subseteq {"registered", "removed"} /\ grown' \in BOOLEAN
    BY <1>1, <1>3 DEF WeightTypeOK
  <2>2. moves' \in 0..MaxMoves
    BY <1>1, <1>2, <1>3
  <2> QED BY <1>3, <1>6, <1>8, <2>1, <2>2 DEF WeightTypeOK
<1>10. ASSUME "registered" \notin since' PROVE FromOneUnit(listed')
  <2>1. PICK U \in Nat \ {0} :
            /\ \A r \in D : listed[r].of = U
            /\ SumFunctionOnSet([r \in D |-> listed[r].capital], D) <= U
    BY <1>1, <1>10 DEF WeightIInv, FromOneUnit
  <2> DEFINE f == [r \in D |-> listed[r].capital]
             g == [r \in rest |-> listed'[r].capital]
  <2>2. \A r \in D : f[r] \in Nat /\ f[r] \in Int
    BY <1>3, AllocationParts
  <2>3. \A r \in rest : g[r] \in Int /\ g[r] = f[r]
    BY <1>6, <2>2
  <2>4. SumFunctionOnSet(f, D) <= U
    BY <2>1
  <2> HIDE DEF f, g
  <2>5. SumFunctionOnSet(g, rest) = SumFunctionOnSet(f, rest) /\ SumFunctionOnSet(f, rest) \in Int
    <3> HIDE DEF rest
    <3> QED BY <1>4, <2>3, SumSame, SumRemove
  <2>6. SumFunctionOnSet(f, D) = f[s] + SumFunctionOnSet(f, rest) /\ f[s] \in Nat
    <3> HIDE DEF D
    <3> QED BY <1>1, <1>3, <2>2, SumRemove DEF D
  <2>7. SumFunctionOnSet(g, rest) <= U
    BY <2>4, <2>5, <2>6
  <2>8. \A r \in rest : listed'[r].of = U
    BY <1>6, <2>1
  <2>9. SumFunctionOnSet([r \in DOMAIN listed' |-> listed'[r].capital], DOMAIN listed') <= U
    BY <1>6, <2>7 DEF g
  <2> QED BY <1>6, <2>1, <2>8, <2>9 DEF FromOneUnit
<1>11. "removed" \in since' /\ since' # {}
  BY <1>1
<1>12. DOMAIN listed' # {} => SumFunctionOnSet(Shares(listed'), DOMAIN listed') = shareUnit'
  BY <1>6, <1>8
<1> QED BY <1>4, <1>6, <1>9, <1>10, <1>11, <1>12 DEF WeightIInv

(* New weights for all.                                                    *)
LEMMA RebalanceStep ==
    ASSUME WeightIInv, RebalanceWeights
    PROVE  WeightIInv'
<1> DEFINE D == DOMAIN listed
           rating == [s \in D |-> Rating(listed[s])]
           T == SumFunction(rating)
           x == [s \in D |-> Rebalanced(Rating(listed[s]), T)]
           S == SumFunction(x)
           n == Cardinality(D)
<1>1. /\ D # {} /\ since' = {} /\ grown' = FALSE /\ moves' = moves /\ shareUnit' = S
      /\ listed' = [s \in D |-> Allocation(Rebalanced(Rating(listed[s]), T), Rebalanced(Rating(listed[s]), T),
                                           S, listed[s].sharpe)]
  BY DEF RebalanceWeights
<1>2. /\ MinShare \in Nat \ {0} /\ MaxShare \in Nat \ {0} /\ WeightUnit \in Nat /\ MinShare <= MaxShare
      /\ SharpeUnit \in Nat /\ SharpeFloor \in Nat \ {0}
  BY AllocationAssumption
<1>3. IsFiniteSet(D) /\ D \subseteq Sids /\ WeightTypeOK /\ moves \in 0..MaxMoves
  BY DEF WeightIInv, WeightTypeOK
<1>4. /\ DOMAIN rating = D
      /\ \A s \in D : rating[s] \in Nat \ {0} /\ rating[s] \in Int /\ rating[s] = Rating(listed[s])
  <2>1. ASSUME NEW s \in D PROVE Rating(listed[s]) \in Nat \ {0}
    <3>1. listed[s].sharpe \in Int
      BY <1>3, AllocationParts
    <3> QED BY <1>2, <3>1 DEF Rating, Greater
  <2> QED BY <2>1
<1>5. T = SumFunctionOnSet(rating, D)
  BY <1>4 DEF SumFunction
<1>6. T \in Nat \ {0}
  <2> DEFINE z == [s \in D |-> 0]
  <2>1. PICK s \in D : TRUE
    BY <1>1
  <2>2. \A r \in D \ {s} : z[r] = 0 /\ z[r] \in Int /\ rating[r] \in Int /\ z[r] <= rating[r]
    BY <1>4
  <2> HIDE DEF z, rating, T, D
  <2>3. SumFunctionOnSet(rating, D) = rating[s] + SumFunctionOnSet(rating, D \ {s})
    BY <1>3, <1>4, SumRemove
  <2> DEFINE R == D \ {s}
  <2>4. IsFiniteSet(R)
    BY <1>3, FS_RemoveElement
  <2>5. SumFunctionOnSet(z, R) <= SumFunctionOnSet(rating, R) /\ SumFunctionOnSet(z, R) = 0
        /\ SumFunctionOnSet(rating, R) \in Int
    <3> HIDE DEF R
    <3> QED BY <2>2, <2>4, SumAtMost, SumZero, SumRemove DEF R
  <2>6. rating[s] \in Nat \ {0}
    BY <1>4
  <2> QED BY <1>5, <2>3, <2>5, <2>6
<1> HIDE DEF T, rating
<1> DEFINE low == MinShare * T
           high == MaxShare * T
<1>7. low \in Nat \ {0} /\ high \in Nat \ {0} /\ low <= high
  <2>1. MinShare * T <= MaxShare * T
    BY <1>2, <1>6, WideProduct
  <2>2. MinShare * T \in Nat \ {0} /\ MaxShare * T \in Nat \ {0}
    BY <1>2, <1>6
  <2> QED BY <2>1, <2>2
<1>8. /\ DOMAIN x = D
      /\ \A s \in D : x[s] \in Int /\ low <= x[s] /\ x[s] <= high /\ x[s] = Rebalanced(Rating(listed[s]), T)
  <2>1. ASSUME NEW s \in D
        PROVE  LET y == Rebalanced(Rating(listed[s]), T) IN y \in Int /\ low <= y /\ y <= high
    <3>1. Rating(listed[s]) \in Nat
      BY <1>4
    <3>2. WeightUnit * Rating(listed[s]) \in Nat
      BY <1>2, <3>1
    <3> HIDE DEF low, high
    <3> QED BY <1>7, <3>2 DEF Rebalanced, Clamped, Greater, Lesser, low, high
  <2> QED BY <2>1
<1>9. S = SumFunctionOnSet(x, D)
  BY <1>8 DEF SumFunction
<1>10. /\ DOMAIN listed' = D
       /\ \A s \in D : listed'[s] = Allocation(x[s], x[s], S, listed[s].sharpe)
  BY <1>1, <1>8
<1> HIDE DEF x, low, high, S, D
<1>11. ASSUME NEW s \in D
       PROVE  /\ n - 1 \in Nat /\ S \in Int
              /\ x[s] + (n - 1) * low <= S /\ S <= x[s] + (n - 1) * high
  BY <1>3, <1>7, <1>8, <1>9, SumOfOthers
<1>12. S \in Nat \ {0}
  <2>1. PICK s \in D : TRUE
    BY <1>1
  <2>2. n - 1 \in Nat /\ S \in Int /\ x[s] + (n - 1) * low <= S
    BY <1>11, <2>1
  <2>3. x[s] \in Nat \ {0}
    BY <1>7, <1>8, <2>1
  <2> DEFINE m == n - 1
  <2>4. m * low \in Nat
    <3> HIDE DEF m
    <3>1. m \in Nat
      BY <2>2 DEF m
    <3> QED BY <1>7, <3>1
  <2> HIDE DEF n
  <2> QED BY <2>2, <2>3, <2>4
<1>13. \A s \in D : /\ listed'[s] \in Allocations
                    /\ listed'[s].share = x[s] /\ listed'[s].capital = x[s] /\ listed'[s].of = S
                    /\ x[s] \in Nat \ {0}
  <2> TAKE s \in D
  <2>1. x[s] \in Nat \ {0}
    BY <1>7, <1>8
  <2>2. listed[s].sharpe \in Sharpes \cup {0}
    BY <1>3, AllocationParts DEF D
  <2> QED BY <1>10, <1>12, <2>1, <2>2 DEF Allocation, Allocations
<1>14. WeightTypeOK'
  <2>1. since' \subseteq {"registered", "removed"} /\ grown' \in BOOLEAN
    BY <1>1
  <2>2. moves' \in 0..MaxMoves /\ shareUnit' \in Nat \ {0}
    BY <1>1, <1>3, <1>12
  <2> QED BY <1>3, <1>10, <1>13, <2>1, <2>2 DEF WeightTypeOK
<1>15. Shares(listed') = x
  <2>1. x = [s \in D |-> x[s]]
    BY DEF x
  <2>2. Shares(listed') = [s \in D |-> listed'[s].share]
    BY <1>10 DEF Shares
  <2> QED BY <1>13, <2>1, <2>2
<1>16. [s \in DOMAIN listed' |-> listed'[s].capital] = x
  <2>1. x = [s \in D |-> x[s]]
    BY DEF x
  <2> QED BY <1>10, <1>13, <2>1
<1>17. FromOneUnit(listed')
  <2>1. SumFunctionOnSet([s \in DOMAIN listed' |-> listed'[s].capital], DOMAIN listed') <= S
    BY <1>9, <1>10, <1>12, <1>16
  <2> QED BY <1>10, <1>12, <1>13, <2>1 DEF FromOneUnit
<1>18. ASSUME NEW s \in D
       PROVE  listed'[s].capital * shareUnit' = listed'[s].share * listed'[s].of
  BY <1>1, <1>13
<1>19. WithinLimits(listed', shareUnit')
  <2>1. SUFFICES ASSUME NEW s \in D
                 PROVE  /\ x[s] * (MaxShare + (n - 1) * MinShare) <= MaxShare * S
                        /\ x[s] * (MinShare + (n - 1) * MaxShare) >= MinShare * S
    BY <1>1, <1>10, <1>13 DEF WithinLimits
  <2> DEFINE m == n - 1
             a == x[s]
  <2>2. /\ m \in Nat /\ a \in Int /\ low <= a /\ a <= high
        /\ a + m * low <= S /\ S <= a + m * high
    BY <1>8, <1>11
  <2> HIDE DEF m, a
  <2>3. a * (MaxShare + m * MinShare) <= MaxShare * S
    <3>1. a * (m * MinShare) <= high * (m * MinShare)
      <4>1. m * MinShare \in Nat
        BY <1>2, <2>2
      <4> QED BY <1>7, <2>2, <4>1, WideProduct
    <3>2. (a + m * low) * MaxShare <= S * MaxShare
      <4>1. a + m * low \in Int /\ MaxShare \in Nat
        BY <1>2, <1>7, <2>2
      <4> QED BY <1>12, <2>2, <4>1, WideProduct
    <3>3. high * (m * MinShare) = (m * low) * MaxShare
      BY <1>2, <1>6, <2>2 DEF low, high
    <3>4. /\ a * (MaxShare + m * MinShare) = a * MaxShare + a * (m * MinShare)
          /\ (a + m * low) * MaxShare = a * MaxShare + (m * low) * MaxShare
      BY <1>2, <1>7, <2>2
    <3>5. /\ a * MaxShare \in Int /\ a * (m * MinShare) \in Int /\ (m * low) * MaxShare \in Int
          /\ S * MaxShare = MaxShare * S /\ MaxShare * S \in Int
      BY <1>2, <1>7, <1>12, <2>2
    <3> HIDE DEF low, high
    <3> QED BY <3>1, <3>2, <3>3, <3>4, <3>5
  <2>4. a * (MinShare + m * MaxShare) >= MinShare * S
    <3>1. low * (m * MaxShare) <= a * (m * MaxShare)
      <4>1. m * MaxShare \in Nat
        BY <1>2, <2>2
      <4> QED BY <1>7, <2>2, <4>1, WideProduct
    <3>2. S * MinShare <= (a + m * high) * MinShare
      <4>1. a + m * high \in Int /\ MinShare \in Nat
        BY <1>2, <1>7, <2>2
      <4> QED BY <1>12, <2>2, <4>1, WideProduct
    <3>3. low * (m * MaxShare) = (m * high) * MinShare
      BY <1>2, <1>6, <2>2 DEF low, high
    <3>4. /\ a * (MinShare + m * MaxShare) = a * MinShare + a * (m * MaxShare)
          /\ (a + m * high) * MinShare = a * MinShare + (m * high) * MinShare
      BY <1>2, <1>7, <2>2
    <3>5. /\ a * MinShare \in Int /\ a * (m * MaxShare) \in Int /\ (m * high) * MinShare \in Int
          /\ S * MinShare = MinShare * S /\ MinShare * S \in Int
      BY <1>2, <1>7, <1>12, <2>2
    <3> HIDE DEF low, high
    <3> QED BY <3>1, <3>2, <3>3, <3>4, <3>5
  <2> QED BY <2>3, <2>4 DEF m, a
<1>20. SumFunctionOnSet(Shares(listed'), DOMAIN listed') = shareUnit'
  BY <1>1, <1>9, <1>10, <1>15
<1> QED BY <1>3, <1>10, <1>14, <1>17, <1>18, <1>19, <1>20 DEF WeightIInv

(* Updating a Sharpe ratio keeps the invariant of the weights.             *)
LEMMA SharpeStep ==
    ASSUME WeightIInv, NEW s \in Sids, NEW sharpe \in Sharpes, UpdateSharpe(s, sharpe)
    PROVE  WeightIInv'
<1> DEFINE D == DOMAIN listed
<1>1. /\ s \in D /\ listed' = [listed EXCEPT ![s].sharpe = sharpe]
      /\ UNCHANGED <<shareUnit, since, grown, moves>>
  BY DEF UpdateSharpe
<1>2. /\ DOMAIN listed' = D
      /\ \A r \in D : /\ listed'[r] \in Allocations /\ listed'[r].share = listed[r].share
                      /\ listed'[r].capital = listed[r].capital /\ listed'[r].of = listed[r].of
  <2>1. DOMAIN listed' = D
    BY <1>1
  <2>2. ASSUME NEW r \in D
        PROVE  /\ listed'[r] \in Allocations /\ listed'[r].share = listed[r].share
               /\ listed'[r].capital = listed[r].capital /\ listed'[r].of = listed[r].of
    <3>1. listed[r] \in Allocations
      BY DEF WeightIInv, WeightTypeOK
    <3>2. listed'[r] = IF r = s THEN [listed[r] EXCEPT !.sharpe = sharpe] ELSE listed[r]
      BY <1>1
    <3> QED BY <3>1, <3>2 DEF Allocations
  <2> QED BY <2>1, <2>2
<1>3. WeightTypeOK'
  BY <1>1, <1>2 DEF WeightIInv, WeightTypeOK
<1>4. /\ Shares(listed') = Shares(listed)
      /\ [r \in DOMAIN listed' |-> listed'[r].capital] = [r \in D |-> listed[r].capital]
  BY <1>2 DEF Shares
<1>5. FromOneUnit(listed) => FromOneUnit(listed')
  BY <1>2, <1>4 DEF FromOneUnit
<1>6. WithinLimits(listed, shareUnit) => WithinLimits(listed', shareUnit')
  BY <1>1, <1>2 DEF WithinLimits
<1>7. /\ grown' = grown /\ since' = since /\ shareUnit' = shareUnit
      /\ DOMAIN listed' = DOMAIN listed
      /\ \A r \in D : /\ listed'[r].capital * shareUnit' = listed[r].capital * shareUnit
                      /\ listed'[r].share * listed'[r].of = listed[r].share * listed[r].of
  BY <1>1, <1>2
<1> QED BY <1>2, <1>3, <1>4, <1>5, <1>6, <1>7 DEF WeightIInv

(* Every step of the orchestrator keeps the invariant of the weights.      *)
LEMMA WeightStep == WeightIInv /\ (WeightNext \/ UNCHANGED weightVars) => WeightIInv'
<1> SUFFICES ASSUME WeightIInv, WeightNext \/ UNCHANGED weightVars PROVE WeightIInv'
  OBVIOUS
<1>1. CASE RebalanceWeights
  BY <1>1, RebalanceStep
<1>2. ASSUME NEW s \in Sids, DelistStrategy(s) PROVE WeightIInv'
  BY <1>2, DelistStep
<1>3. ASSUME NEW s \in Sids, NEW w \in AskedShares, EnlistStrategy(s, w) PROVE WeightIInv'
  BY <1>3, EnlistStep
<1>4. ASSUME NEW s \in Sids, NEW x \in Sharpes, UpdateSharpe(s, x) PROVE WeightIInv'
  BY <1>4, SharpeStep
<1>5. CASE UNCHANGED weightVars
  BY <1>5 DEF weightVars, WeightIInv, WeightTypeOK
<1> QED BY <1>1, <1>2, <1>3, <1>4, <1>5 DEF WeightNext

-----------------------------------------------------------------------------
(* The factory                                                             *)

(* StrategyAllocation: the factory                                         *)

\* The identifiers, the factory's own and those given.
Ids == Sids \cup (0..MaxInstances)
InstanceSet == [status : InstanceStates, serial : 1..MaxCreated, named : BOOLEAN]
LostSet == [serial : 1..MaxCreated, named : BOOLEAN]

FactoryTypeOK ==
    /\ DOMAIN instances \subseteq Ids
    /\ \A i \in DOMAIN instances : instances[i] \in InstanceSet
    /\ Cardinality(DOMAIN instances) <= MaxInstances
    /\ created \in 0..MaxCreated /\ removed \in 0..MaxCreated
    /\ lost \subseteq LostSet /\ paused \subseteq 1..MaxCreated

\* Serial numbers tell all instances apart, those there and those overwritten;
\* until one is removed the factory's own identifiers are below their number
FactoryIInv ==
    /\ FactoryTypeOK /\ InstancesAccounted
    /\ IsFiniteSet(DOMAIN instances) /\ IsFiniteSet(lost)
    /\ \A l \in lost : l.serial <= created
    /\ \A i \in DOMAIN instances :
          /\ instances[i].serial <= created
          /\ instances[i].status = "paused" => instances[i].serial \in paused
          /\ \A l \in lost : l.serial # instances[i].serial
          /\ \A j \in DOMAIN instances : i # j => instances[i].serial # instances[j].serial
    /\ removed = 0 =>
          \A i \in DOMAIN instances : i \in 0..MaxInstances => i < Cardinality(DOMAIN instances)

(* The invariant holds of a factory without instances.                     *)
LEMMA FactoryInitHolds == AllocationInit => FactoryIInv
<1> SUFFICES ASSUME AllocationInit PROVE FactoryIInv
  OBVIOUS
<1>1. /\ DOMAIN instances = {} /\ created = 0 /\ removed = 0 /\ lost = {} /\ paused = {}
      /\ IsFiniteSet({}) /\ Cardinality({}) = 0
  BY FS_EmptySet DEF AllocationInit
<1> QED BY <1>1, AllocationAssumption DEF FactoryIInv, FactoryTypeOK, InstancesAccounted

(* Creating an instance, under a new or a used identifier, keeps the       *)
(* invariant.                                                              *)
LEMMA CreateStep ==
    ASSUME FactoryIInv, NEW name \in Sids \cup {0}, NEW given \in BOOLEAN, given => name \in Sids,
           CreateFromGenome(name, given)
    PROVE  FactoryIInv'
<1> DEFINE D == DOMAIN instances
           n == Cardinality(D)
           id == IF given THEN name ELSE n
           new == Instance("idle", created + 1, given)
           gone == [serial |-> instances[id].serial, named |-> given]
<1>1. /\ created < MaxCreated /\ n < MaxInstances /\ created' = created + 1
      /\ instances' = Put(instances, id, new)
      /\ lost' = IF id \in D THEN lost \cup {gone} ELSE lost
      /\ removed' = removed /\ paused' = paused
  BY DEF CreateFromGenome
<1>2. /\ D \subseteq Ids /\ IsFiniteSet(D) /\ n \in Nat /\ MaxInstances \in Nat /\ MaxCreated \in Nat
      /\ created \in 0..MaxCreated /\ created + 1 \in 1..MaxCreated /\ created' \in 0..MaxCreated
  BY <1>1, AllocationAssumption, FS_CardinalityType DEF FactoryIInv, FactoryTypeOK
<1>3. id \in Ids /\ n \in 0..MaxInstances
  BY <1>1, <1>2 DEF Ids
<1>4. new \in InstanceSet /\ new.serial = created + 1 /\ new.status = "idle"
  BY <1>2 DEF Instance, InstanceSet, InstanceStates
<1> HIDE DEF new
<1>5. /\ DOMAIN instances' = D \cup {id} /\ instances'[id] = new
      /\ \A i \in D : i # id => instances'[i] = instances[i]
  BY <1>1 DEF Put
<1>6. /\ IsFiniteSet(D \cup {id})
      /\ Cardinality(D \cup {id}) = IF id \in D THEN n ELSE n + 1
  BY <1>2, FS_AddElement
<1>7. ASSUME id \in D
      PROVE  /\ gone \in LostSet /\ gone.named = given /\ gone.serial = instances[id].serial
             /\ gone \notin lost
  <2>1. instances[id] \in InstanceSet
    BY <1>7 DEF FactoryIInv, FactoryTypeOK
  <2>2. gone \in LostSet /\ gone.named = given /\ gone.serial = instances[id].serial
    BY <2>1 DEF InstanceSet, LostSet
  <2>3. \A l \in lost : l.serial # instances[id].serial
    BY <1>7 DEF FactoryIInv
  <2> HIDE DEF gone
  <2> QED BY <2>2, <2>3
<1> HIDE DEF gone, id, n, D
<1>8. IsFiniteSet(lost) /\ lost \subseteq LostSet /\ Cardinality(lost) \in Nat
  BY FS_CardinalityType DEF FactoryIInv, FactoryTypeOK
<1>9. /\ IsFiniteSet(lost') /\ lost' \subseteq LostSet
      /\ Cardinality(lost') = IF id \in D THEN Cardinality(lost) + 1 ELSE Cardinality(lost)
  BY <1>1, <1>7, <1>8, FS_AddElement
<1>10. FactoryTypeOK'
  <2>1. Cardinality(DOMAIN instances') <= MaxInstances
    BY <1>1, <1>2, <1>5, <1>6
  <2>2. \A i \in DOMAIN instances' : instances'[i] \in InstanceSet
    BY <1>4, <1>5 DEF FactoryIInv, FactoryTypeOK, D
  <2>3. DOMAIN instances' \subseteq Ids
    BY <1>2, <1>3, <1>5
  <2>4. removed' \in 0..MaxCreated /\ paused' \subseteq 1..MaxCreated
    BY <1>1 DEF FactoryIInv, FactoryTypeOK
  <2> QED BY <1>2, <1>9, <2>1, <2>2, <2>3, <2>4 DEF FactoryTypeOK
<1>11. \A i \in D : /\ instances[i].serial \in Nat /\ instances[i].serial <= created
                    /\ \A l \in lost : l.serial # instances[i].serial
                    /\ \A j \in D : i # j => instances[i].serial # instances[j].serial
  BY DEF FactoryIInv, FactoryTypeOK, InstanceSet, D
<1>12. \A l \in lost : l.serial \in Nat /\ l.serial # created + 1
  <2> TAKE l \in lost
  <2>1. l \in LostSet
    BY <1>8
  <2>2. l.serial \in Nat
    BY <2>1 DEF LostSet
  <2>3. l.serial <= created
    BY DEF FactoryIInv
  <2> QED BY <1>2, <2>2, <2>3
<1>13. \A l \in lost' : l \in lost \/ (id \in D /\ l.serial = instances[id].serial)
  <2>1. CASE id \in D
    <3>1. lost' = lost \cup {gone} /\ gone.serial = instances[id].serial
      BY <1>1, <1>7, <2>1
    <3> QED BY <2>1, <3>1
  <2>2. CASE id \notin D
    BY <1>1, <2>2
  <2> QED BY <2>1, <2>2
<1>14. \A i \in DOMAIN instances' :
          /\ instances'[i].serial <= created'
          /\ \A l \in lost' : l.serial # instances'[i].serial
          /\ \A j \in DOMAIN instances' : i # j => instances'[i].serial # instances'[j].serial
  <2>1. created \in Nat /\ created' = created + 1
    BY <1>1, <1>2
  <2>2. ASSUME NEW i \in D, i # id
        PROVE  /\ instances'[i].serial = instances[i].serial
               /\ instances[i].serial # created + 1 /\ instances[i].serial <= created'
               /\ \A l \in lost' : l.serial # instances[i].serial
    <3>1. instances'[i].serial = instances[i].serial
      BY <1>5, <2>2
    <3>2. instances[i].serial # created + 1 /\ instances[i].serial <= created'
      BY <1>11, <2>1
    <3> QED BY <1>11, <1>13, <2>2, <3>1, <3>2
  <2>3. /\ instances'[id].serial = created + 1
        /\ \A l \in lost' : l.serial # created + 1
    <3>1. id \in D => instances[id].serial # created + 1
      BY <1>11, <2>1
    <3> QED BY <1>4, <1>5, <1>12, <1>13, <3>1
  <2>4. \A i \in DOMAIN instances' : i = id \/ (i \in D /\ i # id)
    BY <1>5
  <2>5. ASSUME NEW i \in DOMAIN instances', NEW j \in DOMAIN instances', i # j
        PROVE  instances'[i].serial # instances'[j].serial
    BY <1>11, <2>2, <2>3, <2>4, <2>5
  <2>6. ASSUME NEW i \in DOMAIN instances'
        PROVE  instances'[i].serial <= created' /\ \A l \in lost' : l.serial # instances'[i].serial
    BY <2>1, <2>2, <2>3, <2>4
  <2> QED BY <2>5, <2>6
<1>15. \A l \in lost' : l.serial <= created'
  <2> TAKE l \in lost'
  <2>1. l \in lost => l.serial <= created /\ l.serial \in Nat
    BY <1>12 DEF FactoryIInv
  <2>2. id \in D => instances[id].serial <= created /\ instances[id].serial \in Nat
    BY <1>11
  <2> QED BY <1>1, <1>2, <1>13, <2>1, <2>2
<1>16. removed' = 0 =>
          /\ \A l \in lost' : l.named
          /\ \A i \in DOMAIN instances' : i \in 0..MaxInstances => i < Cardinality(DOMAIN instances')
  <2> SUFFICES ASSUME removed = 0
               PROVE  /\ \A l \in lost' : l.named
                      /\ \A i \in D \cup {id} : i \in 0..MaxInstances => i < Cardinality(D \cup {id})
    BY <1>1, <1>5
  <2>1. \A i \in D : i \in 0..MaxInstances => i < n
    BY DEF FactoryIInv, D, n
  <2>2. \A s \in Sids : s \notin 0..MaxInstances
    BY AllocationAssumption
  <2>3. CASE given
    <3>1. id \in Sids
      BY <2>3 DEF id
    <3>2. \A l \in lost' : l.named
      BY <1>1, <1>7, <2>3 DEF FactoryIInv, InstancesAccounted
    <3> QED BY <1>2, <1>6, <2>1, <2>2, <3>1, <3>2
  <2>4. CASE ~given
    <3>1. id = n
      BY <2>4 DEF id
    <3>2. id \notin D
      BY <1>2, <1>3, <2>1, <3>1
    <3>3. lost' = lost
      BY <1>1, <3>2
    <3>4. \A l \in lost' : l.named
      BY <3>3 DEF FactoryIInv, InstancesAccounted
    <3>5. \A i \in D \cup {id} : i \in 0..MaxInstances => i < n + 1
      BY <1>2, <2>1, <3>1
    <3> QED BY <1>6, <3>2, <3>4, <3>5
  <2> QED BY <2>3, <2>4
<1>17. \A i \in DOMAIN instances' : instances'[i].status = "running" => instances'[i].serial \in paused'
  BY <1>1, <1>4, <1>5 DEF FactoryIInv, InstancesAccounted, D
<1>20. \A i \in DOMAIN instances' : instances'[i].status = "paused" => instances'[i].serial \in paused'
  BY <1>1, <1>4, <1>5 DEF FactoryIInv, D
<1>18. created' = Cardinality(DOMAIN instances') + removed' + Cardinality(lost')
  <2>1. created = n + removed + Cardinality(lost) /\ removed \in Nat
    BY DEF FactoryIInv, FactoryTypeOK, InstancesAccounted, n, D
  <2> QED BY <1>1, <1>2, <1>5, <1>6, <1>8, <1>9, <2>1
<1>19. InstancesAccounted'
  BY <1>16, <1>17, <1>18 DEF InstancesAccounted
<1> QED BY <1>5, <1>6, <1>9, <1>10, <1>14, <1>15, <1>16, <1>19, <1>20 DEF FactoryIInv

(* Stopping, pausing and resuming an instance keep the invariant.          *)
LEMMA StatusStep ==
    ASSUME FactoryIInv, NEW i \in DOMAIN instances, NEW st \in InstanceStates, SetStatus(i, st),
           paused' \in {paused, paused \cup {instances[i].serial}},
           st \in {"running", "paused"} => instances[i].serial \in paused'
    PROVE  FactoryIInv'
<1> DEFINE new == [instances[i] EXCEPT !.status = st]
<1>1. instances' = [instances EXCEPT ![i] = new] /\ UNCHANGED <<created, removed, lost>>
  BY DEF SetStatus
<1>2. instances[i] \in InstanceSet
  BY DEF FactoryIInv, FactoryTypeOK
<1>3. /\ new \in InstanceSet /\ new.serial = instances[i].serial /\ new.status = st
      /\ instances[i].serial \in 1..MaxCreated
  BY <1>2 DEF InstanceSet
<1> HIDE DEF new
<1>4. /\ DOMAIN instances' = DOMAIN instances /\ instances'[i] = new
      /\ \A j \in DOMAIN instances : j # i => instances'[j] = instances[j]
  BY <1>1
<1>5. \A j \in DOMAIN instances : instances'[j].serial = instances[j].serial
  BY <1>3, <1>4
<1>6. FactoryTypeOK'
  BY <1>1, <1>3, <1>4 DEF FactoryIInv, FactoryTypeOK
<1>7. \A j \in DOMAIN instances : instances'[j].status = "running" => instances'[j].serial \in paused'
  BY <1>3, <1>4, <1>5 DEF FactoryIInv, InstancesAccounted
<1>8. InstancesAccounted'
  BY <1>1, <1>4, <1>7 DEF FactoryIInv, InstancesAccounted
<1>9. \A j \in DOMAIN instances : instances'[j].status = "paused" => instances'[j].serial \in paused'
  BY <1>3, <1>4, <1>5 DEF FactoryIInv
<1> QED BY <1>1, <1>4, <1>5, <1>6, <1>8, <1>9 DEF FactoryIInv

(* Removing an instance keeps the invariant.                               *)
LEMMA RemoveStep ==
    ASSUME FactoryIInv, NEW i \in DOMAIN instances, RemoveInstance(i)
    PROVE  FactoryIInv'
<1> DEFINE D == DOMAIN instances
<1>1. /\ instances' = [x \in D \ {i} |-> instances[x]] /\ removed' = removed + 1
      /\ UNCHANGED <<created, lost, paused>>
  BY DEF RemoveInstance, Restrict
<1>2. DOMAIN instances' = D \ {i} /\ \A x \in D \ {i} : instances'[x] = instances[x]
  BY <1>1
<1>3. /\ IsFiniteSet(D) /\ IsFiniteSet(lost) /\ created = Cardinality(D) + removed + Cardinality(lost)
      /\ created \in 0..MaxCreated /\ removed \in 0..MaxCreated /\ MaxInstances \in Nat
      /\ MaxCreated \in Nat /\ Cardinality(D) <= MaxInstances
  BY AllocationAssumption DEF FactoryIInv, FactoryTypeOK, InstancesAccounted
<1>4. /\ IsFiniteSet(D \ {i}) /\ Cardinality(D \ {i}) = Cardinality(D) - 1
      /\ Cardinality(D) \in Nat /\ Cardinality(lost) \in Nat /\ Cardinality(D \ {i}) \in Nat
  BY <1>3, FS_RemoveElement, FS_CardinalityType
<1>5. /\ removed' \in 0..MaxCreated /\ removed' # 0 /\ Cardinality(D \ {i}) <= MaxInstances
      /\ created' = Cardinality(D \ {i}) + removed' + Cardinality(lost')
  BY <1>1, <1>3, <1>4
<1>6. FactoryTypeOK'
  BY <1>1, <1>2, <1>5 DEF FactoryIInv, FactoryTypeOK
<1>7. InstancesAccounted'
  BY <1>1, <1>2, <1>5 DEF FactoryIInv, InstancesAccounted
<1>8. ASSUME NEW x \in D \ {i}
      PROVE  /\ instances'[x].serial <= created'
             /\ instances'[x].status = "paused" => instances'[x].serial \in paused'
             /\ \A l \in lost' : l.serial # instances'[x].serial
             /\ \A j \in D \ {i} : x # j => instances'[x].serial # instances'[j].serial
  <2>1. /\ instances'[x] = instances[x]
        /\ \A j \in D \ {i} : instances'[j] = instances[j]
    BY <1>2, <1>8
  <2> QED BY <1>1, <1>8, <2>1 DEF FactoryIInv
<1>9. (\A l \in lost' : l.serial <= created') /\ IsFiniteSet(lost')
  BY <1>1 DEF FactoryIInv
<1> HIDE DEF D
<1> QED BY <1>2, <1>4, <1>5, <1>6, <1>7, <1>8, <1>9 DEF FactoryIInv

(* Every step of the factory keeps its invariant.                          *)
LEMMA FactoryStep == FactoryIInv /\ (FactoryNext \/ UNCHANGED factoryVars) => FactoryIInv'
<1> SUFFICES ASSUME FactoryIInv, FactoryNext \/ UNCHANGED factoryVars PROVE FactoryIInv'
  OBVIOUS
<1>1. ASSUME NEW i \in DOMAIN instances, StopInstance(i) \/ PauseInstance(i) \/ ResumeInstance(i)
      PROVE  FactoryIInv'
  <2>1. instances[i].status = "paused" => instances[i].serial \in paused
    BY DEF FactoryIInv
  <2>2. CASE StopInstance(i)
    BY <2>2, StatusStep DEF StopInstance, InstanceStates
  <2>3. CASE PauseInstance(i)
    BY <2>3, StatusStep DEF PauseInstance, InstanceStates
  <2>4. CASE ResumeInstance(i)
    BY <2>1, <2>4, StatusStep DEF ResumeInstance, InstanceStates
  <2> QED BY <1>1, <2>2, <2>3, <2>4
<1>2. CASE CreateFromGenome(0, FALSE)
  BY <1>2, CreateStep
<1>3. ASSUME NEW s \in Sids, CreateFromGenome(s, TRUE) PROVE FactoryIInv'
  BY <1>3, CreateStep
<1>4. CASE UNCHANGED factoryVars
  BY <1>4 DEF factoryVars, FactoryIInv, FactoryTypeOK, InstancesAccounted
<1> QED BY <1>1, <1>2, <1>3, <1>4, RemoveStep DEF FactoryNext

(* The orchestrator leaves the instances of the factory alone, and the     *)
(* factory the weights of the orchestrator.                                *)
LEMMA AllocationParted ==
    /\ WeightNext => UNCHANGED factoryVars
    /\ FactoryNext => UNCHANGED weightVars
<1>1. WeightNext => UNCHANGED factoryVars
  BY DEF WeightNext, RebalanceWeights, DelistStrategy, EnlistStrategy, UpdateSharpe
<1>2. FactoryNext => UNCHANGED weightVars
  BY DEF FactoryNext, CreateFromGenome, SetStatus, StopInstance,
         PauseInstance, ResumeInstance, RemoveInstance
<1> QED BY <1>1, <1>2

(* Weights, signals and instances: unless a strategy was registered since  *)
(* they were normalized, the weights sum to one, and after a rebalancing   *)
(* each is within the bounds stated there; buying and selling signals are  *)
(* resolved alike, at a size the capital allows                            *)
(* (strategies/multi_strategy/orchestrator.py); and every instance created *)
(* is there, was removed or was overwritten                                *)
(* (evolution/strategy_factory.py).                                        *)
THEOREM AllocationsHold ==
    AllocationSpec => [](AllocationTypeOK /\ WeightsHold /\ SignalsResolved /\ InstancesAccounted)
<1>1. AllocationInit => WeightIInv /\ FactoryIInv
  BY WeightInitHolds, FactoryInitHolds
<1>2. [AllocationNext]_allocationVars =>
          /\ WeightNext \/ UNCHANGED weightVars
          /\ FactoryNext \/ UNCHANGED factoryVars
  <2>1. UNCHANGED allocationVars => UNCHANGED weightVars /\ UNCHANGED factoryVars
    BY DEF allocationVars, weightVars, factoryVars
  <2> QED BY <2>1, AllocationParted DEF AllocationNext
<1>3. WeightIInv /\ FactoryIInv /\ [AllocationNext]_allocationVars => WeightIInv' /\ FactoryIInv'
  BY <1>2, WeightStep, FactoryStep
<1>4. WeightIInv /\ FactoryIInv =>
          AllocationTypeOK /\ WeightsHold /\ SignalsResolved /\ InstancesAccounted
  <2> SUFFICES ASSUME WeightIInv, FactoryIInv
               PROVE  AllocationTypeOK /\ WeightsHold /\ SignalsResolved /\ InstancesAccounted
    OBVIOUS
  <2>1. WeightTypeOK /\ FactoryTypeOK /\ InstancesAccounted
    BY DEF WeightIInv, FactoryIInv
  <2>2. AllocationTypeOK
    BY <2>1 DEF WeightTypeOK, FactoryTypeOK, AllocationTypeOK, Allocations, InstanceSet, LostSet, Ids
  <2> QED BY <2>1, <2>2, WeightInvHolds, SignalsAreResolved
<1> QED BY <1>1, <1>3, <1>4, PTL DEF AllocationSpec
=============================================================================
