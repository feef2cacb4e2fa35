------------------------------ MODULE RiskDesk ------------------------------
(***************************************************************************)
(* Two guards over one path of the portfolio's equity: the RiskManager of  *)
(* risk/risk_manager.py with the drawdown get_portfolio_state computes for *)
(* it, and the RiskLimitsEngine of risk/limits.py. Each operation is one   *)
(* step: the only await in them puts an event on the bus, which does not   *)
(* yield.                                                                  *)
(*                                                                         *)
(* Equity is a whole number and thresholds are in percent. Of the limits   *)
(* engine's five checks the drawdown is computed; what the others find is  *)
(* an input. The quantity a check allows and its warnings are left out,    *)
(* and update_portfolio, whose peak nothing reads.                         *)
(***************************************************************************)
EXTENDS Integers, Sequences

CONSTANTS
    EquityLevels,    \* the equities the portfolio may have
    MaxDrawdownPct,  \* max_drawdown_pct, of manager and limits engine
    WarnPct,         \* warning_pct of a limit, in percent
    DailyLossPct,    \* daily_loss_limit_pct
    Notionals,       \* the values of fills
    RecentBreaches,  \* the breaches is_circuit_breaker_active looks at
    MaxUpdates       \* bound on the updates, checks and fills

ASSUME RiskAssumption ==
    /\ EquityLevels \subseteq Nat \ {0}
    /\ MaxDrawdownPct \in Nat \ {0} /\ WarnPct \in 0..100 /\ DailyLossPct \in Nat
    /\ Notionals \subseteq Nat /\ RecentBreaches \in Nat \ {0} /\ MaxUpdates \in Nat

VARIABLES
    equity,       \* external: the portfolio's total equity
    peakEquity,   \* _peak_equity of the portfolio manager
    dailyPnl,     \* _daily_pnl
    breaker,      \* _circuit_breaker_active
    stopped,      \* _emergency_stop
    recent,       \* the last RecentBreaches of _breach_history: "warn" or "hard"
    updates,      \* updates, checks and fills so far
    tripped,      \* history: a check saw too deep a drawdown since the last reset
    approvals,    \* history: approvals given since it did, or since the stop
    sinceHard     \* history: breaches recorded since the last hard one, or -1

riskVars == <<equity, peakEquity, dailyPnl, breaker, stopped, recent, updates,
              tripped, approvals, sinceHard>>
managerVars == <<peakEquity, dailyPnl, breaker, stopped, tripped, approvals>>
limitVars == <<recent, sinceHard>>

RiskTypeOK ==
    /\ equity \in EquityLevels /\ peakEquity \in {0} \cup EquityLevels
    /\ dailyPnl \in Int
    /\ breaker \in BOOLEAN /\ stopped \in BOOLEAN /\ tripped \in BOOLEAN
    /\ recent \in Seq({"warn", "hard"}) /\ Len(recent) <= RecentBreaches
    /\ updates \in 0..MaxUpdates
    /\ approvals \in 0..MaxUpdates /\ sinceHard \in Int

RiskInit ==
    /\ equity \in EquityLevels /\ peakEquity = equity
    /\ dailyPnl = 0
    /\ breaker = FALSE /\ stopped = FALSE /\ tripped = FALSE /\ approvals = 0
    /\ recent = <<>> /\ sinceHard = -1
    /\ updates = 0

Counted == updates < MaxUpdates /\ updates' = updates + 1

(* external: the market moves the equity.                                  *)
MarketMoves ==
    /\ \E e \in EquityLevels \ {equity} : equity' = e
    /\ Counted
    /\ UNCHANGED <<managerVars, limitVars>>

-----------------------------------------------------------------------------
(* RiskManager                                                             *)

Higher(a, b) == IF a > b THEN a ELSE b

(* (peak - equity) / peak, in percent, compared with a limit.              *)
DeeperThan(peak, pct) == 100 * (peak - equity) > pct * peak

LosesTooMuch == 100 * (-dailyPnl) > DailyLossPct * equity

Watched == stopped \/ tripped'

\* mutant: the breaker stands only for the check that trips it
BreakerAfterOneCheck(deep) == deep

(* _trigger_circuit_breaker: once tripped, it stays.                       *)
BreakerAfter(deep) == breaker \/ deep

(* pre_trade_check, on the state get_portfolio_state has just computed,    *)
(* which moves the peak. overLevered: the leverage check refuses.          *)
PreTradeCheck(overLevered) ==
    /\ Counted
    /\ peakEquity' = Higher(equity, peakEquity)
    /\ LET asked == ~stopped /\ ~breaker
           deep == asked /\ DeeperThan(peakEquity', MaxDrawdownPct)
           approved == asked /\ ~deep /\ ~LosesTooMuch /\ ~overLevered
       IN  /\ breaker' = BreakerAfter(deep)
           /\ tripped' = (tripped \/ deep)
           /\ approvals' = IF approved /\ Watched THEN approvals + 1 ELSE approvals
    /\ UNCHANGED <<equity, dailyPnl, stopped, limitVars>>

(* post_trade_update: the whole value of a fill counts as profit or loss.  *)
PostTradeUpdate(sign, notional) ==
    /\ Counted
    /\ dailyPnl' = dailyPnl - sign * notional
    /\ UNCHANGED <<equity, peakEquity, breaker, stopped, tripped, approvals, limitVars>>

EmergencyStop ==
    /\ ~stopped
    /\ stopped' = TRUE
    /\ UNCHANGED <<equity, peakEquity, dailyPnl, breaker, tripped, approvals, updates, limitVars>>

(* reset, of a new day: an emergency stop is not undone by it.             *)
ResetRisk ==
    /\ dailyPnl' = 0
    /\ breaker' = FALSE /\ tripped' = FALSE
    /\ UNCHANGED <<equity, peakEquity, stopped, approvals, updates, limitVars>>

-----------------------------------------------------------------------------
(* RiskLimitsEngine                                                        *)

(* The breach a drawdown is, if any: utilization against 1 and the warning.*)
DrawdownBreach ==
    LET used == 10000 * (peakEquity - equity)
    IN  IF used >= 100 * MaxDrawdownPct * peakEquity THEN <<"hard">>
        ELSE IF used >= WarnPct * MaxDrawdownPct * peakEquity THEN <<"warn">>
        ELSE <<>>

LastOf(s, n) == IF Len(s) <= n THEN s ELSE SubSeq(s, Len(s) - n + 1, Len(s))

\* mutant: a check that finds nothing clears what was recorded
RecordedOrCleared(found) == IF found = <<>> THEN <<>> ELSE LastOf(recent \o found, RecentBreaches)

(* What is recorded of a check: only breaches, and nothing ever clears     *)
(* them.                                                                   *)
Recorded(found) == LastOf(recent \o found, RecentBreaches)

(* check_all: the drawdown first, then the limits whose breaches are given.*)
CheckLimits(others) ==
    /\ Counted
    /\ LET found == DrawdownBreach \o others
           hards == {i \in 1..Len(found) : found[i] = "hard"}
       IN  /\ recent' = Recorded(found)
           /\ sinceHard' =
                IF hards # {} THEN CHOOSE n \in 0..Len(found) :
                                       Len(found) - n \in hards
                                       /\ \A i \in hards : i <= Len(found) - n
                ELSE IF sinceHard = -1 THEN -1 ELSE sinceHard + Len(found)
    /\ UNCHANGED <<equity, managerVars>>

(* is_circuit_breaker_active                                               *)
LimitsBreaker == \E i \in 1..Len(recent) : recent[i] = "hard"

RiskNext ==
    \/ MarketMoves \/ EmergencyStop \/ ResetRisk
    \/ \E o \in BOOLEAN : PreTradeCheck(o)
    \/ \E s \in {1, -1}, n \in Notionals : PostTradeUpdate(s, n)
    \/ \E o \in {<<>>, <<"warn">>, <<"hard">>} : CheckLimits(o)

RiskSpec == RiskInit /\ [][RiskNext]_riskVars

-----------------------------------------------------------------------------
(* Properties                                                              *)

(* The manager's breaker stands from the check that saw too deep a         *)
(* drawdown to the next reset, whatever the equity does in between, and    *)
(* nothing is approved while it stands or after an emergency stop.         *)
BreakerLatched == breaker = tripped /\ approvals = 0

(* The limits engine's breaker outlives the breach: it goes only when as   *)
(* many lesser breaches as it looks at have pushed the hard one out.       *)
HardBreachLasts == LimitsBreaker <=> sinceHard \in 0..(RecentBreaches - 1)

(* RiskHolds: both breakers last as long as the code makes them, and no    *)
(* longer, and the manager's is obeyed (risk_manager.py:53-67, 143-146;    *)
(* limits.py:285-311).                                                     *)
RiskHolds == BreakerLatched /\ HardBreachLasts

(* The inductive invariant: where the last hard breach is in what the      *)
(* limits engine keeps, if it is still there.                              *)
LastHardInv ==
    /\ sinceHard >= -1
    /\ \A i \in 1..Len(recent) :
           sinceHard = -1 \/ i > Len(recent) - sinceHard => recent[i] = "warn"
    /\ sinceHard \in 0..(Len(recent) - 1) => recent[Len(recent) - sinceHard] = "hard"
    /\ sinceHard >= Len(recent) => Len(recent) = RecentBreaches

RiskIInv == RiskTypeOK /\ BreakerLatched /\ LastHardInv

=============================================================================
