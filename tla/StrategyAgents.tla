--------------------------- MODULE StrategyAgents ---------------------------
(***************************************************************************)
(* A strategy agent (agents/strategy_agent.py): it counts the trades of    *)
(* the strategies registered with it and at each bar makes at most one     *)
(* decision about one of them, the most confident. It acts on none: its    *)
(* caller does, or does not.                                               *)
(*                                                                         *)
(* Confidences and Sharpe ratios are in hundredths. Left out: bars since   *)
(* the last trade, which decide nothing, and the coordinator, which holds  *)
(* agents and asks each of them.                                           *)
(***************************************************************************)
EXTENDS Integers, FiniteSets

CONSTANTS
    Managed,           \* identifiers of strategies
    OnPaper,           \* those whose genome says they trade on paper
    MinTrades,         \* min_trades_for_promotion
    MinSharpe,         \* min_sharpe_for_promotion
    MaxStreak,         \* max_consecutive_losses
    RetrainAfter,      \* trades before retraining is considered: 30
    MaxAgentTrades     \* bound on the trades of one strategy

ASSUME AgentAssumption ==
    /\ OnPaper \subseteq Managed
    /\ MinTrades \in Nat /\ MinSharpe \in Nat /\ MaxStreak \in Nat \ {0}
    /\ RetrainAfter \in Nat /\ MaxAgentTrades \in Nat

VARIABLES
    perf,      \* perf[s]: _performance[s], NoPerf if not registered
    decision,  \* what the last tick returned
    alike      \* history: whether nothing has changed since that tick

agentVars == <<perf, decision, alike>>

Perf(known, total, winning, streakOf, sharpe, drawdown) ==
    [known |-> known, total |-> total, winning |-> winning, streak |-> streakOf,
     sharpe |-> sharpe, drawdown |-> drawdown]
NoPerf == Perf(FALSE, 0, 0, 0, 0, 0)

DecisionTypes == {"none", "retire", "demote", "promote", "retrain"}
Decision(type, on, confidence) == [type |-> type, on |-> on, confidence |-> confidence]
Undecided(s) == Decision("none", s, 0)

AgentTypeOK ==
    /\ perf \in [Managed -> [known : BOOLEAN, total : 0..MaxAgentTrades, winning : 0..MaxAgentTrades,
                             streak : 0..MaxAgentTrades, sharpe : Nat, drawdown : Nat]]
    /\ decision \in [type : DecisionTypes, on : Managed, confidence : Nat]
    /\ alike \in BOOLEAN

AgentInit ==
    /\ perf = [s \in Managed |-> NoPerf]
    /\ decision \in {Undecided(s) : s \in Managed}
    /\ alike = FALSE

-----------------------------------------------------------------------------

(* register_strategy, which starts the record anew if there is one.        *)
RegisterStrategy(s) ==
    /\ perf' = [perf EXCEPT ![s] = [NoPerf EXCEPT !.known = TRUE]]
    /\ alike' = FALSE
    /\ UNCHANGED decision

UnregisterStrategy(s) ==
    /\ perf' = [perf EXCEPT ![s] = NoPerf]
    /\ alike' = FALSE
    /\ UNCHANGED decision

(* update_performance: a trade that does not win counts as a loss. Sharpe  *)
(* ratio and drawdown are not touched, here or anywhere.                   *)
UpdatePerformance(s, won) ==
    /\ perf[s].known /\ perf[s].total < MaxAgentTrades
    /\ perf' = [perf EXCEPT ![s].total = @ + 1,
                            ![s].winning = IF won THEN @ + 1 ELSE @,
                            ![s].streak = IF won THEN 0 ELSE @ + 1]
    /\ alike' = FALSE
    /\ UNCHANGED decision

Least(m, n) == IF m <= n THEN m ELSE n

(* _evaluate_strategy: the first rule that applies. The drawdown limit is  *)
(* 20 percent, a good win rate above 55, a poor one below 40.              *)
Evaluated(s) ==
    LET p == perf[s] IN
    IF p.streak >= MaxStreak THEN Decision("retire", s, 90)
    ELSE IF p.drawdown > 20 THEN Decision("demote", s, 85)
    ELSE IF /\ s \in OnPaper /\ p.total >= MinTrades
            /\ 100 * p.winning > 55 * p.total /\ p.sharpe > MinSharpe
         THEN Decision("promote", s, Least(100, p.sharpe \div 3))
    ELSE IF p.total > RetrainAfter /\ 100 * p.winning < 40 * p.total
         THEN Decision("retrain", s, 60)
    ELSE Undecided(s)

\* mutant: the least confident decision is returned
PicksLeast(d, decisions) == \A e \in decisions : d.confidence <= e.confidence

(* The sort by confidence. Among equals the one registered first wins:     *)
(* here any of them.                                                       *)
Picks(d, decisions) == \A e \in decisions : d.confidence >= e.confidence

(* tick                                                                    *)
AgentTick ==
    LET decisions == {Evaluated(s) : s \in {r \in Managed : perf[r].known}} \
                        {Undecided(s) : s \in Managed}
    IN  /\ \/ decisions = {} /\ decision' \in {Undecided(s) : s \in Managed}
           \/ \E d \in decisions : Picks(d, decisions) /\ decision' = d
        /\ alike' = TRUE
        /\ UNCHANGED perf

AgentNext ==
    \/ AgentTick
    \/ \E s \in Managed :
          \/ RegisterStrategy(s) \/ UnregisterStrategy(s)
          \/ \E won \in BOOLEAN : UpdatePerformance(s, won)

AgentSpec == AgentInit /\ [][AgentNext]_agentVars

-----------------------------------------------------------------------------
(* Properties                                                              *)

(* A strategy on a losing streak is retired before anything else is        *)
(* decided: a tick returns a milder decision, or none, only when no        *)
(* registered strategy is at the limit, and retraining only for a poor     *)
(* record. Nobody is ever promoted or demoted: the two figures that would  *)
(* tell stay zero. And since a decision changes nothing here, the next     *)
(* tick returns one as urgent, about the same strategy or another.         *)
AgentDecides ==
    /\ decision.type \in {"none", "retire", "retrain"}
    /\ alike =>
          LET failing == {s \in Managed : perf[s].streak >= MaxStreak} IN
          /\ decision.type = "retire" <=> failing # {}
          /\ decision.type = "retire" => decision.on \in failing
          /\ decision.type = "retrain" =>
                /\ perf[decision.on].total > RetrainAfter
                /\ 5 * perf[decision.on].winning < 2 * perf[decision.on].total
    /\ \A s \in Managed :
          /\ perf[s].winning + perf[s].streak <= perf[s].total
          /\ ~perf[s].known => perf[s].total = 0
=============================================================================
