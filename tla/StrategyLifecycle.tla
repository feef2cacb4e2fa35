-------------------------- MODULE StrategyLifecycle --------------------------
(***************************************************************************)
(* The lifecycle of strategies in monitoring/strategy_lifecycle.py: states *)
(* an operator moves between, trades recorded against each strategy, and   *)
(* two rules that stop a running one: a streak of losses, and a drawdown   *)
(* from the highest equity. Every operation is synchronous.                *)
(*                                                                         *)
(* A strategy is created once under its name and may be deleted and        *)
(* created again. Left out: the profit and win counts, the state history   *)
(* and the callbacks, whose exceptions are caught.                         *)
(***************************************************************************)
EXTENDS Integers

CONSTANTS
    Strategies,     \* the names of strategies
    StreakLimits,   \* values of max_loss_streak
    DrawdownLimit,  \* max_drawdown_pct
    Equities,       \* the equities recorded with trades; NoEquity is none
    MaxTrades       \* bound on the trades recorded

ASSUME LifecycleAssumption ==
    /\ StreakLimits \subseteq Nat /\ StreakLimits # {}
    /\ DrawdownLimit \in Nat /\ Equities \subseteq Nat /\ MaxTrades \in Nat

VARIABLES
    state,      \* state[s], or "absent"
    streakCap,  \* config.max_loss_streak
    streak,     \* loss_streak
    peak,       \* peak_equity
    deep,       \* max_drawdown_pct > config.max_drawdown_pct
    trades,     \* history: trades recorded
    sinceStart  \* history: sinceStart[s]: trades since it was last started,
                \* resumed or had its limits modified

lifeVars == <<state, streakCap, streak, peak, deep, trades, sinceStart>>

NoEquity == -1
Lifecycle == {"absent", "idle", "running", "paused", "stopped"}

LifeTypeOK ==
    /\ state \in [Strategies -> Lifecycle]
    /\ streakCap \in [Strategies -> StreakLimits]
    /\ streak \in [Strategies -> Nat]
    /\ peak \in [Strategies -> {0} \cup Equities]
    /\ deep \in [Strategies -> BOOLEAN]
    /\ trades \in Nat
    /\ sinceStart \in [Strategies -> Nat]

LifeInit ==
    /\ state = [s \in Strategies |-> "absent"]
    /\ streakCap \in [Strategies -> StreakLimits]
    /\ streak = [s \in Strategies |-> 0]
    /\ peak = [s \in Strategies |-> 0]
    /\ deep = [s \in Strategies |-> FALSE]
    /\ trades = 0
    /\ sinceStart = [s \in Strategies |-> 0]

-----------------------------------------------------------------------------
(* The operator                                                            *)

(* create_strategy: a fresh record.                                        *)
CreateStrategy(s) ==
    /\ state[s] = "absent"
    /\ state' = [state EXCEPT ![s] = "idle"]
    /\ streak' = [streak EXCEPT ![s] = 0]
    /\ peak' = [peak EXCEPT ![s] = 0]
    /\ deep' = [deep EXCEPT ![s] = FALSE]
    /\ sinceStart' = [sinceStart EXCEPT ![s] = 0]
    /\ UNCHANGED <<streakCap, trades>>

(* delete_strategy: refused only while it runs.                            *)
DeleteStrategy(s) ==
    /\ state[s] \notin {"absent", "running"}
    /\ state' = [state EXCEPT ![s] = "absent"]
    /\ UNCHANGED <<streakCap, streak, peak, deep, trades, sinceStart>>

(* start_strategy, from any state but running, and resume_strategy: what   *)
(* the record says of losses and drawdown stays as it was.                 *)
StartStrategy(s) ==
    /\ state[s] \notin {"absent", "running"}
    /\ state' = [state EXCEPT ![s] = "running"]
    /\ sinceStart' = [sinceStart EXCEPT ![s] = 0]
    /\ UNCHANGED <<streakCap, streak, peak, deep, trades>>

ResumeStrategy(s) == state[s] = "paused" /\ StartStrategy(s)

PauseStrategy(s) ==
    /\ state[s] = "running"
    /\ state' = [state EXCEPT ![s] = "paused"]
    /\ UNCHANGED <<streakCap, streak, peak, deep, trades, sinceStart>>

StopStrategy(s) ==
    /\ state[s] # "absent"
    /\ state' = [state EXCEPT ![s] = "stopped"]
    /\ UNCHANGED <<streakCap, streak, peak, deep, trades, sinceStart>>

(* modify_strategy, of the streak limit: no rule is checked again.         *)
ModifyStrategy(s, limit) ==
    /\ state[s] # "absent"
    /\ streakCap' = [streakCap EXCEPT ![s] = limit]
    /\ sinceStart' = [sinceStart EXCEPT ![s] = 0]
    /\ UNCHANGED <<state, streak, peak, deep, trades>>

-----------------------------------------------------------------------------
(* record_trade, in whatever state the strategy is                         *)

NewPeak(s, equity) ==
    IF equity # NoEquity /\ equity > peak[s] THEN equity ELSE peak[s]

(* The drawdown of a trade is seen only when it comes with an equity, and  *)
(* only once an equity above zero was seen.                                *)
Deepens(s, equity) ==
    /\ equity # NoEquity
    /\ NewPeak(s, equity) > 0
    /\ 100 * (NewPeak(s, equity) - equity) > DrawdownLimit * NewPeak(s, equity)

\* mutant: the streak rule lets the last loss through
AutoStopsOneLate(s) == deep'[s] \/ streak'[s] > streakCap[s]

(* _check_auto_stop, on what the trade left.                               *)
AutoStops(s) == deep'[s] \/ streak'[s] >= streakCap[s]

RecordTrade(s, won, equity) ==
    /\ state[s] # "absent" /\ trades < MaxTrades
    /\ streak' = [streak EXCEPT ![s] = IF won THEN 0 ELSE @ + 1]
    /\ peak' = [peak EXCEPT ![s] = NewPeak(s, equity)]
    /\ deep' = [deep EXCEPT ![s] = @ \/ Deepens(s, equity)]
    /\ state' = IF state[s] = "running" /\ AutoStops(s)
                THEN [state EXCEPT ![s] = "stopped"] ELSE state
    /\ trades' = trades + 1
    /\ sinceStart' = [sinceStart EXCEPT ![s] = @ + 1]
    /\ UNCHANGED streakCap

LifeNext ==
    \E s \in Strategies :
        \/ CreateStrategy(s) \/ DeleteStrategy(s) \/ StartStrategy(s) \/ ResumeStrategy(s)
        \/ PauseStrategy(s) \/ StopStrategy(s)
        \/ \E limit \in StreakLimits : ModifyStrategy(s, limit)
        \/ \E won \in BOOLEAN, e \in Equities \cup {NoEquity} : RecordTrade(s, won, e)

LifeSpec == LifeInit /\ [][LifeNext]_lifeVars

-----------------------------------------------------------------------------
(* Properties                                                              *)

BeyondLimits(s) == deep[s] \/ streak[s] >= streakCap[s]

(* LifecycleHolds: a strategy beyond its limits runs only until its next   *)
(* trade: it was started, resumed or modified after the trade that took it *)
(* there. A drawdown is never forgotten, so one stopped for it stops again *)
(* at the first trade of every restart                                     *)
(* (strategy_lifecycle.py:121-137, 200-240, 257).                          *)
LifecycleHolds ==
    \A s \in Strategies :
        state[s] = "running" /\ BeyondLimits(s) => sinceStart[s] = 0

(* What makes it inductive: a trade recorded for a strategy that runs      *)
(* leaves it within its limits, or stops it.                               *)
LifeIInv == LifeTypeOK /\ LifecycleHolds

=============================================================================
