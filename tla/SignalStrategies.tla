--------------------------- MODULE SignalStrategies ---------------------------
(***************************************************************************)
(* Strategies of strategies/ that turn bars into signals and remember that *)
(* they are in a trade: what the trade is opened and closed by, and on     *)
(* which side and symbol the signals are. A strategy believes to be in the *)
(* trade from the entry signal on; nothing tells it of orders and fills.   *)
(*                                                                         *)
(* An indicator is a level: 2 and -2 where an entry condition holds, with  *)
(* its filters, up and down; 1 and -1 beyond the exit threshold on the     *)
(* same side, 0 within it. Levels come in any order, since trimmed buffers *)
(* start the averages anew. A symbol's warm-up ends at any of its bars.    *)
(* Time limits of options, which these strategies take from the parameters *)
(* and not from the bars, are as in the defaults, where they never expire. *)
(* At the end two strategies that count instead: purchases at intervals,   *)
(* and a quoted spread skewed by an inventory.                             *)
(***************************************************************************)
EXTENDS Integers, FiniteSets, Functions

CONSTANTS
    Followed,    \* the strategies examined
    MaxHold,     \* max_hold_bars, hold_bars
    MaxSent,     \* bound on the signals of a trading strategy
    RateUnit,    \* a rate of one, for the triangle
    RateMargin,  \* threshold_bps in these units
    Rates,       \* what prices and products of prices are
    DcaInterval, \* dca_interval
    DcaMaxBuys,  \* max_buys
    HalfSpreads, \* half of the spread, in the units of the price
    SkewStep,    \* _skew_factor / _inventory_limit, in the units of the price
    MaxStock     \* _inventory_limit

ASSUME SignalAssumption ==
    /\ MaxHold \in Nat \ {0} /\ MaxSent \in Nat
    /\ RateUnit \in Nat \ {0} /\ RateMargin \in Nat \ {0} /\ Rates \subseteq Nat \ {0}
    /\ DcaInterval \in Nat \ {0} /\ DcaMaxBuys \in Nat \ {0}
    /\ HalfSpreads \subseteq Nat \ {0} /\ SkewStep \in Nat /\ MaxStock \in Nat \ {0}

-----------------------------------------------------------------------------
(* What the strategies do                                                  *)

Levels == -2..2

\* By level: the side of an entry
Following == [v \in Levels |-> CASE v = 2 -> "buy" [] v = -2 -> "sell" [] OTHER -> "none"]
Reverting == [v \in Levels |-> CASE v = 2 -> "sell" [] v = -2 -> "buy" [] OTHER -> "none"]
Longing == [v \in Levels |-> IF v = 2 THEN "buy" ELSE "none"]
Shorting == [v \in Levels |-> IF v = 2 THEN "sell" ELSE "none"]

\* By side of the trade: the levels that end it
Never == [buy |-> {}, sell |-> {}]
Lingering == [buy |-> {-2, -1, 0}, sell |-> {0, 1, 2}]
Reverted == [buy |-> {0, 1, 2}, sell |-> {-2, -1, 0}]
Turned == [buy |-> {-2, -1}, sell |-> {1, 2}]
Overshot == [buy |-> {1, 2}, sell |-> {-2, -1}]
Calmed == [buy |-> {0}, sell |-> {0}]
Collapsed == [buy |-> {-2}, sell |-> {-2}]

\* By side of the trade: the side of the exit signal
Selling == [buy |-> "sell", sell |-> "sell"]
Opposite == [buy |-> "sell", sell |-> "buy"]
Doubling == [buy |-> "buy", sell |-> "sell"]
Unbroken == [buy |-> "none", sell |-> "none"]

(* A strategy. enters: at which level on which side; held: the trade ends  *)
(* after MaxHold bars; leaves: at which levels it ends; closes: with a     *)
(* signal on which side; breaks: the side of the exit on a condition of    *)
(* its own; legs: the symbols it wants; entryOn, exitOn: the symbol of the *)
(* signals, that of the bar unless it is fixed; hedges: whether it sends   *)
(* hedge signals in the trade, against an exposure that is computed anew   *)
(* or frozen at the entry; voids: a bar may be ignored before anything.    *)
Plain == [enters |-> Following, held |-> FALSE, leaves |-> Never, closes |-> Opposite,
          breaks |-> Unbroken, legs |-> {"a"}, entryOn |-> "bar", exitOn |-> "bar",
          hedges |-> "none", voids |-> FALSE]
Spread == [Plain EXCEPT !.enters = Reverting, !.leaves = Reverted, !.legs = {"a", "b"}]

StatArb == [Spread EXCEPT !.held = TRUE, !.closes = Selling, !.voids = TRUE]
PairsTrading == [Spread EXCEPT !.leaves = Lingering, !.entryOn = "a", !.exitOn = "a",
                               !.voids = TRUE]
KalmanReversion == Spread
CalendarSpread == Spread
VolArb == [Spread EXCEPT !.legs = {"a"}]
TermStructure == [VolArb EXCEPT !.leaves = Lingering, !.voids = TRUE]
Triangular == [Plain EXCEPT !.held = TRUE, !.closes = Selling, !.legs = {"a", "b", "c"},
                            !.entryOn = "c", !.voids = TRUE]
BasisTrade == [Plain EXCEPT !.held = TRUE, !.leaves = Calmed, !.closes = Selling]
FundingArb == [BasisTrade EXCEPT !.enters = Reverting]
CarryTrade == [Plain EXCEPT !.held = TRUE, !.breaks = [Unbroken EXCEPT !.buy = "sell"]]
ConversionReversal == [Plain EXCEPT !.enters = Reverting, !.leaves = Calmed, !.closes = Doubling]
BoxSpread == [Plain EXCEPT !.enters = Reverting, !.breaks = Selling]
ButterflySpread == [Plain EXCEPT !.enters = Longing, !.leaves = Collapsed,
                                 !.breaks = Selling, !.hedges = "fresh"]
IronButterfly == [ButterflySpread EXCEPT !.enters = Shorting, !.breaks = Opposite]
RatioSpread == [ButterflySpread EXCEPT !.breaks = Doubling]
VegaNeutral == [Plain EXCEPT !.enters = Longing, !.breaks = Selling, !.hedges = "frozen"]
SmileTrading == [Plain EXCEPT !.enters = Longing, !.leaves = Calmed]
Straddle == [Plain EXCEPT !.enters = Longing, !.held = TRUE]
NewsFollowing == [Plain EXCEPT !.held = TRUE, !.closes = Selling]
NewsFading == [NewsFollowing EXCEPT !.enters = Reverting]
VolumeBreakout == [Plain EXCEPT !.held = TRUE]
Engulfing == [Plain EXCEPT !.held = TRUE]
Seasonality == [Plain EXCEPT !.held = TRUE]
Microstructure == [Plain EXCEPT !.held = TRUE]
OrderFlow == [Plain EXCEPT !.held = TRUE]
RsiReversion == [Plain EXCEPT !.enters = Reverting, !.held = TRUE, !.leaves = Overshot]
EmaCross == [Plain EXCEPT !.held = TRUE, !.leaves = Turned]
AdaptiveMa == [Plain EXCEPT !.leaves = Turned]
RocMomentum == [Plain EXCEPT !.leaves = Lingering]

TradeRules ==
    [stat_arb |-> StatArb, pairs |-> PairsTrading, kalman |-> KalmanReversion,
     calendar |-> CalendarSpread, vol_arb |-> VolArb, term_structure |-> TermStructure,
     triangular |-> Triangular, basis |-> BasisTrade, funding |-> FundingArb,
     carry |-> CarryTrade, conversion |-> ConversionReversal, box |-> BoxSpread,
     butterfly |-> ButterflySpread, iron_butterfly |-> IronButterfly, ratio |-> RatioSpread,
     vega_neutral |-> VegaNeutral, smile |-> SmileTrading, straddle |-> Straddle,
     news |-> NewsFollowing, fading |-> NewsFading, breakout |-> VolumeBreakout,
     engulfing |-> Engulfing, seasonality |-> Seasonality, microstructure |-> Microstructure,
     order_flow |-> OrderFlow, rsi |-> RsiReversion, ema_cross |-> EmaCross,
     adaptive_ma |-> AdaptiveMa, roc |-> RocMomentum]

Trading == DOMAIN TradeRules

ASSUME FollowedAssumption == Followed \subseteq Trading \cup {"dca", "provider"}

(* The level of the triangle of prices: p is that of a times that of b,    *)
(* c that of c.                                                            *)
Deviation(p, c) ==
    IF RateUnit * (p - c) > RateMargin * c THEN 2
    ELSE IF RateUnit * (p - c) > RateMargin * p THEN -2
    ELSE 0

-----------------------------------------------------------------------------
(* Trading                                                                 *)

VARIABLES
    followed, \* the strategy of this behaviour
    warmed,   \* symbols with enough bars
    stance,   \* what the strategy remembers of its trade
    signalled,\* history: per symbol, buys less sells of entries and exits
    finished, \* history: trades ended, by side
    turned,   \* history: the entry's and the exit's level of the last exit by level
    strayed   \* history: whether an exit was on another symbol than its entry

tradingVars == <<warmed, stance, signalled, finished, turned, strayed>>

TradeSides == {"buy", "sell"}
TradeLegs == {"a", "b", "c"}

\* The rule followed; a counting strategy follows none, this is any
Rule == IF followed \in Trading THEN TradeRules[followed] ELSE Plain

NoTrade == [side |-> "none", leg |-> "a", level |-> 0, bars |-> 0,
            exposure |-> "none", hedged |-> {}]
InTrade == stance # NoTrade

TradingInit ==
    /\ warmed = {} /\ stance = NoTrade
    /\ signalled = [l \in TradeLegs |-> 0]
    /\ finished = [s \in TradeSides |-> 0]
    /\ turned = <<>> /\ strayed = FALSE

(* The two that look for prices off the put-call parity take these prices  *)
(* from the formula that the parity holds for.                             *)
AtParity == {"conversion", "box"}

MarketLevels ==
    CASE followed = "triangular" -> {Deviation(p, c) : p \in Rates, c \in Rates}
      [] followed \in AtParity -> {0}
      [] OTHER -> Levels

Worth(side) == CASE side = "buy" -> 1 [] side = "sell" -> -1 [] OTHER -> 0

\* Bounded: two signals for each trade, MaxSent of them
Sent == 2 * (finished["buy"] + finished["sell"]) + IF InTrade THEN 1 ELSE 0

On(place, l) == IF place = "bar" THEN l ELSE place

(* A bar of l with which nothing is decided: the symbols are not warmed up,*)
(* no entry condition holds, or the bar is ignored.                        *)
Skip(l) ==
    /\ ~InTrade \/ Rule.voids
    /\ warmed' = warmed \cup {l}
    /\ UNCHANGED <<stance, signalled, finished, turned, strayed>>

Warm(l) == /\ Rule.legs \subseteq warmed \cup {l}
           /\ warmed' = Rule.legs

EnterTrade(l, v) ==
    LET side == Rule.enters[v]
        leg == On(Rule.entryOn, l)
    IN  /\ Warm(l) /\ ~InTrade /\ side # "none" /\ Sent < MaxSent
        /\ \E e \in IF Rule.hedges = "frozen" THEN TradeSides \cup {"none"} ELSE {"none"} :
              stance' = [side |-> side, leg |-> leg, level |-> v, bars |-> 0,
                        exposure |-> e, hedged |-> {}]
        /\ signalled' = [signalled EXCEPT ![leg] = @ + Worth(side)]
        /\ UNCHANGED <<finished, turned, strayed>>

End(l, side) ==
    LET leg == On(Rule.exitOn, l)
    IN  /\ stance' = NoTrade
        /\ signalled' = [signalled EXCEPT ![leg] = @ + Worth(side)]
        /\ finished' = [finished EXCEPT ![stance.side] = @ + 1]
        /\ strayed' = (strayed \/ leg # stance.leg)

TimeIsUp == Rule.held /\ stance.bars + 1 >= MaxHold
Ends(v) == v \in Rule.leaves[stance.side]

Expire(l) == /\ Warm(l) /\ InTrade /\ TimeIsUp
             /\ End(l, Rule.closes[stance.side])
             /\ UNCHANGED turned

Leave(l, v) == /\ Warm(l) /\ InTrade /\ ~TimeIsUp /\ Ends(v)
               /\ End(l, Rule.closes[stance.side])
               /\ turned' = <<stance.level, v>>

Break(l, v) == /\ Warm(l) /\ InTrade /\ ~TimeIsUp /\ ~Ends(v)
               /\ Rule.breaks[stance.side] # "none"
               /\ End(l, Rule.breaks[stance.side])
               /\ UNCHANGED turned

\* Exposures a hedge signal may be against
Exposures == CASE Rule.hedges = "fresh" -> TradeSides
               [] Rule.hedges = "frozen" -> {stance.exposure} \ {"none"}
               [] OTHER -> {}

(* The bar leaves the trade open; a hedge signal is sent if there is an    *)
(* exposure, which a frozen one is at every bar.                           *)
Stay(l, v) ==
    /\ Warm(l) /\ InTrade /\ ~TimeIsUp /\ ~Ends(v)
    /\ LET bars == IF Rule.held THEN stance.bars + 1 ELSE 0
       IN  \/ \E e \in Exposures :
                 stance' = [stance EXCEPT !.bars = bars, !.hedged = @ \cup {Opposite[e]}]
           \/ /\ Rule.hedges = "frozen" => stance.exposure = "none"
              /\ stance' = [stance EXCEPT !.bars = bars]
    /\ UNCHANGED <<signalled, finished, turned, strayed>>

TradingNext ==
    \E l \in Rule.legs :
        \/ Skip(l)
        \/ Expire(l)
        \/ \E v \in MarketLevels : EnterTrade(l, v) \/ Leave(l, v) \/ Break(l, v) \/ Stay(l, v)

-----------------------------------------------------------------------------
(* Counting                                                                *)

VARIABLES
    pause,    \* _bars_since_last_buy, up to three intervals
    purchases,   \* _consecutive_buys
    unpaused, \* history: purchases since the last pause of three intervals
    inventory,    \* _inventory
    quoted    \* history: signals of the liquidity provider

countingVars == <<pause, purchases, unpaused, inventory, quoted>>

CountingInit == pause = 0 /\ purchases = 0 /\ unpaused = 0 /\ inventory = 0 /\ quoted = 0

LongPause == 3 * DcaInterval
NextPause == IF pause < LongPause THEN pause + 1 ELSE pause

(* A bar without a purchase: too early, too many, or filtered out. Too     *)
(* many are forgotten after a long pause, by a bar that does not buy.      *)
DcaWait ==
    /\ pause' = NextPause
    /\ purchases' = IF purchases >= DcaMaxBuys /\ pause' >= LongPause THEN 0 ELSE purchases
    /\ unpaused' = IF pause' >= LongPause THEN 0 ELSE unpaused
    /\ UNCHANGED <<inventory, quoted>>

DcaBuy ==
    /\ NextPause >= DcaInterval
    /\ purchases < DcaMaxBuys
    /\ pause' = 0
    /\ purchases' = purchases + 1
    /\ unpaused' = IF NextPause >= LongPause THEN 1 ELSE unpaused + 1
    /\ UNCHANGED <<inventory, quoted>>

(* A bar of the liquidity provider. The quotes, here relative to the price *)
(* of the bar, are around that price, skewed by the inventory, and then    *)
(* compared with it.                                                       *)
BidAbove(half) == 0 - half - inventory * SkewStep
AskAbove(half) == half - inventory * SkewStep

AtLimit == inventory \in {-MaxStock, MaxStock}

\* The side of the signal, 0 for none; at the limit the reducing side
Quote(half) ==
    IF AtLimit THEN (IF inventory > 0 THEN -1 ELSE 1)
    ELSE IF 0 <= BidAbove(half) THEN 1
    ELSE IF 0 >= AskAbove(half) THEN -1
    ELSE 0

\* At the limit the inventory is left as it is
Provide(half) ==
    /\ quoted < MaxSent
    /\ quoted' = quoted + Quote(half) * Quote(half)
    /\ inventory' = IF AtLimit THEN inventory ELSE inventory + Quote(half)
    /\ UNCHANGED <<pause, purchases, unpaused>>

CountingNext ==
    \/ followed = "dca" /\ (DcaWait \/ DcaBuy)
    \/ followed = "provider" /\ \E half \in HalfSpreads : Provide(half)

-----------------------------------------------------------------------------

signalVars == <<followed, tradingVars, countingVars>>

SignalInit == followed \in Followed /\ TradingInit /\ CountingInit

SignalNext ==
    /\ UNCHANGED followed
    /\ \/ followed \in Trading /\ TradingNext /\ UNCHANGED countingVars
       \/ CountingNext /\ UNCHANGED tradingVars

SignalSpec == SignalInit /\ [][SignalNext]_signalVars

-----------------------------------------------------------------------------

SignalTypeOK ==
    /\ followed \in Trading \cup {"dca", "provider"}
    /\ warmed \subseteq TradeLegs
    /\ stance = NoTrade \/ (stance.side \in TradeSides /\ stance.leg \in TradeLegs
                           /\ stance.level \in Levels /\ stance.bars \in 0..(MaxHold - 1)
                           /\ stance.hedged \subseteq TradeSides)
    /\ signalled \in [TradeLegs -> -(MaxSent + 1)..(MaxSent + 1)]
    /\ finished \in [TradeSides -> 0..MaxSent]
    /\ turned = <<>> \/ turned \in Levels \X Levels
    /\ strayed \in BOOLEAN
    /\ pause \in 0..LongPause /\ purchases \in Nat /\ unpaused \in Nat
    /\ inventory \in -MaxStock..MaxStock /\ quoted \in Nat

\* What the entries and exits have signalled, in all symbols together
Standing == signalled["a"] + signalled["b"] + signalled["c"]

SellsOut == {"stat_arb", "basis", "funding", "news", "fading"}
InPairs == {"stat_arb", "kalman", "calendar", "triangular"}

(* A strategy's signals undo each other: those of the entries and exits of *)
(* a trade leave the exposure as it was, so that what they add up to is    *)
(* the open trade. This fails in known ways, and only so: where an exit    *)
(* always sells (stat_arb/strategy.py:177), each short trade leaves two    *)
(* sells; a ratio spread that breaks buys once more                        *)
(* (derivatives/ratio_spread.py:157). Exits on a bar of either symbol      *)
(* leave a position in each (mean_reversion/kalman.py:78). The triangle is *)
(* never entered backwards (arbitrage/triangular.py:111), and the two at   *)
(* parity never at all (derivatives/conversion_reversal.py:91).            *)
TradesUndone ==
    LET open == Worth(stance.side)
    IN  /\ CASE followed \in SellsOut -> Standing = open - 2 * finished["sell"]
             [] followed = "ratio" -> \E n \in 0..finished["buy"] : Standing = open + 2 * n
             [] OTHER -> Standing = open
        /\ followed \notin {"ratio"} \cup SellsOut \cup InPairs =>
               ~strayed /\ (~InTrade => \A l \in TradeLegs : signalled[l] = 0)
        /\ followed \in InPairs /\ ~strayed /\ ~InTrade /\ finished["sell"] = 0 =>
               \A l \in TradeLegs : signalled[l] = 0
        /\ followed = "triangular" => finished["sell"] = 0
        /\ followed \in AtParity => ~InTrade

(* A trade that ends by its indicator ends at another level than it was    *)
(* entered at: "Exits when spread reverts to mean."                        *)
(* (strategies/pairs/trading.py:25).                                       *)
ExitsOnReversion == turned # <<>> => turned[1] # turned[2]

(* A hedge against a frozen exposure is repeated on the same side, bar     *)
(* after bar (volatility/vega_neutral.py:197): it never sees what the      *)
(* hedges before it did.                                                   *)
FrozenHedges == Rule.hedges = "frozen" => Cardinality(stance.hedged) <= 1

(* dca/strategy.py:60 buys at most max_buys times without a pause of three *)
(* intervals; market_making/liquidity_provision.py:75 compares a price     *)
(* with quotes around that same price, so that from an empty inventory no  *)
(* signal ever comes.                                                      *)
CountsKept == /\ unpaused <= DcaMaxBuys
              /\ quoted = 0 /\ inventory = 0

\* The two whose exits look the wrong way
Hasty == {"pairs", "term_structure"}

StrategiesKeepTrack ==
    /\ TradesUndone /\ FrozenHedges /\ CountsKept
    /\ followed \notin Hasty => ExitsOnReversion
=============================================================================
