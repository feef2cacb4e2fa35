------------------------------ MODULE TradeBars ------------------------------
(***************************************************************************)
(* The aggregation of ticks into bars by data/trade_aggregator.py: by      *)
(* intervals of time, of several lengths, and by volume. All of them work  *)
(* on one current bar per symbol, which the first call of any of them      *)
(* opens; only bars opened for time carry the sums of the average price,   *)
(* and a call for a time bar that needs them raises KeyError.              *)
(*                                                                         *)
(* One symbol. Ticks may come late and out of order. The moving average    *)
(* and the volume profile, which are computed from given lists, are left   *)
(* out.                                                                    *)
(***************************************************************************)
EXTENDS Integers, Sequences, Functions

CONSTANTS
    TickKinds,    \* ticks: pairs of a price and a quantity
    Frames,       \* lengths of time bars
    TargetVolume, \* target_volume
    LastTick,     \* bound on the time of ticks
    MaxOffered    \* bound on their quantity

ASSUME BarsAssumption ==
    /\ TickKinds \subseteq (Nat \ {0}) \X (Nat \ {0}) /\ Frames \subseteq Nat \ {0}
    /\ TargetVolume \in Nat \ {0} /\ LastTick \in Nat /\ MaxOffered \in Nat

VARIABLES
    bar,      \* _current_bars[symbol], or NoBar
    bars,     \* _completed_bars[symbol]
    tickList, \* the number of ticks in _ticks[symbol]
    uses,     \* history: what bars were asked for: lengths, and 0 for volume
    late,     \* history: a tick came that is older than the current bar
    volumeAt, \* history: volumeAt[t]: the quantity of the ticks of time t
    keptOut   \* history: the quantity of the ticks a KeyError kept out of the bar

tradeBarVars == <<bar, bars, tickList, uses, late, volumeAt, keptOut>>

(* A bar; weighted: it has vwap_num and vwap_den.                          *)
BarOf(open, high, low, close, volume, trades, start, weighted, num, den) ==
    [open |-> open, high |-> high, low |-> low, close |-> close, volume |-> volume,
     trades |-> trades, start |-> start, weighted |-> weighted, num |-> num, den |-> den]
NoBar == BarOf(0, 0, 0, 0, 0, 0, -1, FALSE, 0, 0)

BarsTypeOK ==
    LET Bars == [open : Nat, high : Nat, low : Nat, close : Nat, volume : Nat, trades : Nat,
                 start : -1..LastTick, weighted : BOOLEAN, num : Nat, den : Nat]
    IN  /\ bar \in Bars /\ bars \in Seq(Bars)
        /\ tickList \in Nat /\ uses \subseteq Frames \cup {0} /\ late \in BOOLEAN
        /\ volumeAt \in [0..LastTick -> Nat] /\ keptOut \in Nat

BarsInit ==
    /\ bar = NoBar /\ bars = <<>> /\ tickList = 0
    /\ uses = {} /\ late = FALSE /\ volumeAt = [t \in 0..LastTick |-> 0] /\ keptOut = 0

-----------------------------------------------------------------------------

Floor(t, seconds) == t - (t % seconds)

\* The bar one tick opens
TimeBar(price, qty, start) ==
    BarOf(price, price, price, price, qty, 1, start, TRUE, price * qty, qty)
VolumeBar(price, qty, trades, start) ==
    BarOf(price, price, price, price, qty, trades, start, FALSE, 0, 0)

\* The tick in the bar, without the sums of the average price
Extended(b, price, qty) ==
    [b EXCEPT !.high = IF price > @ THEN price ELSE @, !.low = IF price < @ THEN price ELSE @,
              !.close = price, !.volume = @ + qty, !.trades = @ + 1]

Weighed(b, price, qty) ==
    IF b.weighted THEN [b EXCEPT !.num = @ + price * qty, !.den = @ + qty] ELSE b

Offered(t, use, qty) ==
    /\ uses' = uses \cup {use}
    /\ late' = (late \/ (bar # NoBar /\ t < bar.start))
    /\ volumeAt' = [volumeAt EXCEPT ![t] = @ + qty]

\* mutant: the tick that completes a bar counts in it as well
KeepsTick(b, price, qty) == Extended(b, price, qty)

\* The completed bar does not include the tick past its end
CompletedBar(b, price, qty) == b

(* aggregate_time_bar. The tick is in the list before anything can raise.  *)
(* The boundary is that of this call's length, whatever length opened the  *)
(* bar. On a bar without sums, a tick past the boundary raises before the  *)
(* bar is touched, and one within it after high, low, close, volume and    *)
(* trades are written.                                                     *)
AggregateTimeBar(price, qty, t, seconds) ==
    /\ Offered(t, seconds, qty)
    /\ LET start == Floor(t, seconds)
           crossed == start > bar.start
       IN  \/ /\ bar = NoBar
              /\ bar' = TimeBar(price, qty, start) /\ tickList' = tickList + 1
              /\ UNCHANGED <<bars, keptOut>>
           \/ /\ bar # NoBar /\ crossed /\ bar.weighted
              /\ bars' = Append(bars, CompletedBar(bar, price, qty))
              /\ bar' = TimeBar(price, qty, start) /\ tickList' = 1
              /\ UNCHANGED keptOut
           \/ /\ bar # NoBar /\ crossed /\ ~bar.weighted
              /\ tickList' = tickList + 1 /\ keptOut' = keptOut + qty
              /\ UNCHANGED <<bar, bars>>
           \/ /\ bar # NoBar /\ ~crossed
              /\ bar' = Weighed(Extended(bar, price, qty), price, qty) /\ tickList' = tickList + 1
              /\ UNCHANGED <<bars, keptOut>>

(* aggregate_volume_bar. The bar that is opened by a completion starts     *)
(* empty; the very first one with its tick, which is not compared with the *)
(* target.                                                                 *)
AggregateVolumeBar(price, qty, t) ==
    /\ Offered(t, 0, qty)
    /\ LET grown == Extended(bar, price, qty) IN
       \/ /\ bar = NoBar
          /\ bar' = VolumeBar(price, qty, 1, t) /\ UNCHANGED bars
       \/ /\ bar # NoBar /\ grown.volume >= TargetVolume
          /\ bars' = Append(bars, grown) /\ bar' = VolumeBar(price, 0, 0, t)
       \/ /\ bar # NoBar /\ grown.volume < TargetVolume
          /\ bar' = grown /\ UNCHANGED bars
    /\ UNCHANGED <<tickList, keptOut>>

\* The quantity of all ticks
TotalOffered == SumFunction(volumeAt)

TradeBarsNext ==
    \E tick \in TickKinds, t \in 0..LastTick :
       /\ TotalOffered < MaxOffered
       /\ \/ \E seconds \in Frames : AggregateTimeBar(tick[1], tick[2], t, seconds)
          \/ AggregateVolumeBar(tick[1], tick[2], t)

TradeBarsSpec == BarsInit /\ [][TradeBarsNext]_tradeBarVars

-----------------------------------------------------------------------------
(* Properties                                                              *)

BarVolumes == bar.volume + SumFunction([i \in DOMAIN bars |-> bars[i].volume])

\* The bars of one length hold what was traded in their interval, in ascending order
Aligned(seconds) ==
    LET all == Append(bars, bar)
        In(b) == {t \in 0..LastTick : Floor(t, seconds) = b.start}
    IN  /\ \A i \in DOMAIN all : all[i].volume = SumFunctionOnSet(volumeAt, In(all[i]))
        /\ \A i, j \in DOMAIN all : i < j => all[i].start < all[j].start

(* No quantity is lost or counted twice, whatever kinds of bars are asked  *)
(* for in turn, but for the ticks refused with a KeyError; these only come *)
(* to a symbol whose bar was opened by a volume bar, and from then on no   *)
(* time bar completes again. Asked for one length only, with no tick late, *)
(* the bars hold exactly what was traded in their intervals; for time      *)
(* only, the list of ticks is that of the current bar and the average      *)
(* price lies between low and high; for volume only, a bar waits with its  *)
(* target reached only if it is the first and has one tick                 *)
(* (data/trade_aggregator.py).                                             *)
BarsAccounted ==
    /\ BarVolumes + keptOut = TotalOffered
    /\ keptOut > 0 => bar # NoBar /\ ~bar.weighted
    /\ \A seconds \in Frames : uses = {seconds} /\ ~late => Aligned(seconds)
    /\ 0 \notin uses /\ bar # NoBar =>
          /\ tickList = bar.trades /\ bar.den = bar.volume
          /\ bar.low * bar.den <= bar.num /\ bar.num <= bar.high * bar.den
    /\ uses = {0} =>
          /\ \A i \in DOMAIN bars : bars[i].volume >= TargetVolume
          /\ bar.volume >= TargetVolume => bar.trades = 1 /\ bars = <<>>
=============================================================================
