----------------------------- MODULE BacktestRun -----------------------------
(***************************************************************************)
(* The loop of the backtesting engine (backtesting/engine.py): one bar at  *)
(* a time it may stop the open position out, and then opens one or closes  *)
(* it as the signal says; after the last bar it closes what is open.       *)
(*                                                                         *)
(* Prices, slippage and commission per unit are whole numbers. Quantities  *)
(* and the width of the stop, which the code computes from equity and from *)
(* indicators, are any of small sets. The fitness of the result and the    *)
(* evaluation of the genome are left out: a signal may come at any bar.    *)
(***************************************************************************)
EXTENDS Integers, Sequences

CONSTANTS
    BarPrices,      \* closing prices
    Quantities,     \* quantities a position may have
    StopPercents,   \* distances of the stop, in percent of the entry price
    TakeRatio,      \* take_profit_ratio
    SlipUnit,       \* slippage per unit
    FeeUnit,        \* commission per unit
    InitialCapital, \* initial_capital
    MaxRunBars      \* number of bars

ASSUME BacktestAssumption ==
    /\ BarPrices \subseteq Nat \ {0} /\ Quantities \subseteq Nat \ {0}
    /\ StopPercents \subseteq Nat /\ TakeRatio \in Nat
    /\ \A p \in BarPrices : SlipUnit \in Nat /\ SlipUnit < p
    /\ FeeUnit \in Nat /\ InitialCapital \in Nat /\ MaxRunBars \in Nat

VARIABLES
    barsSeen,   \* number of bars replayed; one more when the run is over
    lastPrice,  \* the close of the last of them
    capital,    \* equity
    curve,      \* the last value of equity_curve
    holding,    \* position; quantity 0 for None
    tally,      \* the trades: their number and the sum of their pnl
    ledger      \* history: what positions gained by price, and the commissions
                \* due at entries and at exits

backtestVars == <<barsSeen, lastPrice, capital, curve, holding, tally, ledger>>

Position(side, entry, quantity) == [side |-> side, entry |-> entry, quantity |-> quantity]
Flat == Position("buy", 0, 0)
InMarket == holding.quantity > 0

BacktestTypeOK ==
    /\ barsSeen \in 0..MaxRunBars + 1 /\ lastPrice \in BarPrices \cup {0}
    /\ capital \in Int /\ curve \in Int
    /\ holding \in [side : {"buy", "sell"}, entry : Nat, quantity : Quantities \cup {0}]
    /\ tally \in [count : Nat, pnl : Int]
    /\ ledger \in [gained : Int, entries : Nat, entryFees : Nat, exitFees : Nat]

BacktestInit ==
    /\ barsSeen = 0 /\ lastPrice = 0
    /\ capital = InitialCapital /\ curve = InitialCapital
    /\ holding = Flat
    /\ tally = [count |-> 0, pnl |-> 0]
    /\ ledger = [gained |-> 0, entries |-> 0, entryFees |-> 0, exitFees |-> 0]

-----------------------------------------------------------------------------

\* _calc_unrealized_pnl
Gain(p, price) ==
    p.quantity * IF p.side = "buy" THEN price - p.entry ELSE p.entry - price

\* An account is equity, position, trades and ledger between two parts of a bar
Account(eq, position, deals, facts) ==
    [equity |-> eq, pos |-> position, trades |-> deals, facts |-> facts]

\* mutant: the commission at the entry is charged once
ClosedOnceCharged(b, price) ==
    LET pnl == Gain(b.pos, price) - b.pos.quantity * FeeUnit
    IN Account(b.equity + pnl, Flat,
            [count |-> b.trades.count + 1, pnl |-> b.trades.pnl + pnl],
            [b.facts EXCEPT !.gained = @ + Gain(b.pos, price),
                            !.exitFees = @ + b.pos.quantity * FeeUnit])

(* _close_position and what each of its callers does with the result: the  *)
(* pnl carries the commission of the exit and that of the entry.           *)
Closed(b, price) ==
    LET pnl == Gain(b.pos, price) - b.pos.quantity * FeeUnit - b.pos.quantity * FeeUnit
    IN Account(b.equity + pnl, Flat,
            [count |-> b.trades.count + 1, pnl |-> b.trades.pnl + pnl],
            [b.facts EXCEPT !.gained = @ + Gain(b.pos, price),
                            !.exitFees = @ + b.pos.quantity * FeeUnit])

(* Opening takes the commission of the entry from the equity.              *)
Opened(b, side, quantity, price) ==
    Account(b.equity - quantity * FeeUnit,
         Position(side, IF side = "buy" THEN price + SlipUnit ELSE price - SlipUnit, quantity),
         b.trades,
         [b.facts EXCEPT !.entries = @ + 1, !.entryFees = @ + quantity * FeeUnit])

\* The position is so many percent of its entry price down, or up
Stopped(b, price, percent) ==
    /\ b.pos.quantity > 0
    /\ LET change == 100 * Gain(b.pos, price)
           unit == b.pos.entry * b.pos.quantity
       IN change <= -percent * unit \/ change >= TakeRatio * percent * unit

(* One bar: stop loss and take profit, then the signal. A signal against   *)
(* the open position closes it and opens nothing; one along with it does   *)
(* nothing; after a stop the same bar's signal may open again.             *)
Bar(price, percent, signal, quantity) ==
    /\ barsSeen < MaxRunBars
    /\ LET before == Account(capital, holding, tally, ledger)
           halted == IF Stopped(before, price, percent) THEN Closed(before, price) ELSE before
           after == IF signal = "none" THEN halted
                    ELSE IF halted.pos.quantity = 0 THEN Opened(halted, signal, quantity, price)
                    ELSE IF halted.pos.side # signal THEN Closed(halted, price)
                    ELSE halted
       IN  /\ capital' = after.equity /\ holding' = after.pos
           /\ tally' = after.trades /\ ledger' = after.facts
           /\ curve' = after.equity + Gain(after.pos, price)
    /\ barsSeen' = barsSeen + 1 /\ lastPrice' = price

(* The bars are used up: an open position is closed at the last price. The *)
(* equity curve gets no further point.                                     *)
EndRun ==
    /\ barsSeen = MaxRunBars
    /\ LET end == IF InMarket THEN Closed(Account(capital, holding, tally, ledger), lastPrice)
                  ELSE Account(capital, holding, tally, ledger)
       IN capital' = end.equity /\ holding' = end.pos /\ tally' = end.trades /\ ledger' = end.facts
    /\ barsSeen' = MaxRunBars + 1
    /\ UNCHANGED <<lastPrice, curve>>

BacktestNext ==
    \/ EndRun
    \/ \E p \in BarPrices, s \in StopPercents, q \in Quantities, signal \in {"none", "buy", "sell"} :
          Bar(p, s, signal, q)

BacktestSpec == BacktestInit /\ [][BacktestNext]_backtestVars

-----------------------------------------------------------------------------
(* Properties                                                              *)

(* What the run reports in the end: equity is the capital, plus what the   *)
(* positions gained, less the commissions at exits and, of every closed    *)
(* position, twice that at its entry: once when it was opened and once in  *)
(* its pnl. The pnl of the trades, from which the fitness is computed, do  *)
(* not add up to the change of equity: they lack one commission of each    *)
(* entry. Each trade closes one entry; and the curve ends two commissions  *)
(* above the equity reported when the last position is closed by the end   *)
(* of the run, and exactly at it otherwise.                                *)
BacktestAccounted ==
    LET pending == holding.quantity * FeeUnit IN
    /\ capital = InitialCapital + ledger.gained - ledger.exitFees - 2 * ledger.entryFees + pending
    /\ tally.pnl = ledger.gained - ledger.exitFees - ledger.entryFees + pending
    /\ ledger.entries = tally.count + IF InMarket THEN 1 ELSE 0
    /\ barsSeen \in 1..MaxRunBars => curve = capital + Gain(holding, lastPrice)
    /\ barsSeen > MaxRunBars =>
          ~InMarket /\ \E q \in Quantities \cup {0} : curve = capital + 2 * q * FeeUnit
=============================================================================
