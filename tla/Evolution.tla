------------------------------ MODULE Evolution ------------------------------
(***************************************************************************)
(* The self-evolver of evolution/self_evolver.py: one generation after     *)
(* another of strategies with a fitness and the hall of fame, and the      *)
(* strategy whose source text generate_strategy_code writes for a genome,  *)
(* from the bar at which its buffer is long enough.                        *)
(*                                                                         *)
(* Fitness is any of a set: what crossover, mutation and backtest make of  *)
(* two parents is free, and so is the selection of parents. Of the written *)
(* strategy, indicators are any entry at any bar; the volatility a         *)
(* trailing stop measures is any of a set. Left out: generating genomes,   *)
(* distances and diversity. The evolver's own _population is never         *)
(* assigned, so that get_state always reports an empty one.                *)
(***************************************************************************)
EXTENDS Integers, Sequences, SequencesExt, FiniteSetsExt

CONSTANTS
    Fitnesses,      \* values of the fitness
    FameThreshold,  \* fitness above which a strategy enters the hall of fame
    PopulationSize, \* population_size
    EliteCount,     \* max(1, int(population_size * elite_pct))
    FameSize,       \* entries the hall of fame keeps
    MaxGenerations, \* bound on the number of generations
    Closes,         \* closing prices
    StopWidths,     \* atr * stop_loss_param
    CooldownBars,   \* cooldown_bars
    TargetPercent,  \* take_profit_ratio
    Thresholds,     \* entry_threshold, in percent
    MaxTraded       \* bound on the bars the strategy sees

ASSUME EvolutionAssumption ==
    /\ Fitnesses \subseteq Int /\ FameThreshold \in Int
    /\ PopulationSize \in Nat \ {0} /\ EliteCount \in 1..PopulationSize /\ FameSize \in Nat \ {0}
    /\ MaxGenerations \in Nat
    /\ Closes \subseteq Nat \ {0} /\ StopWidths \subseteq Nat /\ IsFiniteSet(StopWidths)
    /\ CooldownBars \in Nat \ {0} /\ TargetPercent \in Nat /\ MaxTraded \in Nat
    /\ Thresholds \subseteq 0..100

VARIABLES
    population, \* the population the caller keeps from evolve_generation
    fame,       \* _hall_of_fame
    generation, \* _generation
    bestEver,   \* history: the greatest fitness of any individual
    exitBy,     \* the genome's exit_indicator
    direction,  \* the genome's entry_direction
    trade,      \* _in_trade, _trade_side, _trade_bars, _entry_price
    stopPrice,  \* _stop_price
    barsTraded, \* number of bars seen
    longBefore, \* history: a long trade was opened at some time
    sinceEntry  \* history: the closes since the entry, that of the entry first

evolverVars == <<population, fame, generation, bestEver>>
traderVars == <<exitBy, direction, trade, stopPrice, barsTraded, longBefore, sinceEntry>>

(* An individual is its fitness and the generation it comes from, with a   *)
(* number among those of its generation.                                   *)
Individual(born, number, fitness) == [born |-> born, number |-> number, fitness |-> fitness]

ExitMethods == {"trailing_stop", "fixed_target", "indicator_exit", "time_exit",
                "volatility_exit", "momentum_exit"}
Trade(open, side, heldBars, entry) ==
    [open |-> open, side |-> side, bars |-> heldBars, entry |-> entry]

EvolverTypeOK ==
    LET Individuals == [born : 0..MaxGenerations, number : 1..PopulationSize, fitness : Fitnesses]
    IN  /\ population \in Seq(Individuals) /\ Len(population) = PopulationSize
        /\ fame \in Seq(Individuals) /\ Len(fame) <= FameSize
        /\ generation \in 0..MaxGenerations /\ bestEver \in Fitnesses

TraderTypeOK ==
    /\ exitBy \in ExitMethods /\ direction \in {"long", "short", "both"}
    /\ trade \in [open : BOOLEAN, side : {"", "buy", "sell"}, bars : Nat, entry : Nat]
    /\ stopPrice \in Int /\ barsTraded \in 0..MaxTraded
    /\ longBefore \in BOOLEAN /\ sinceEntry \in Seq(Closes)

Newborn(born, fits) == [n \in DOMAIN fits |-> Individual(born, n, fits[n])]
Fittest(s) == Max({s[i].fitness : i \in DOMAIN s})

EvolverInit ==
    /\ \E fits \in [1..PopulationSize -> Fitnesses] : population = Newborn(0, fits)
    /\ fame = <<>> /\ generation = 0 /\ bestEver = Fittest(population)

TraderInit ==
    /\ exitBy \in ExitMethods /\ direction \in {"long", "short", "both"}
    /\ trade = Trade(FALSE, "", 0, 0) /\ stopPrice = 0 /\ barsTraded = 0
    /\ longBefore = FALSE /\ sinceEntry = <<>>

-----------------------------------------------------------------------------
(* Generations                                                             *)

(* sort(key=fitness, reverse=True), which is stable: equal ones keep their *)
(* order.                                                                  *)
Sorted(s) ==
    LET Place(i) == Cardinality({j \in DOMAIN s : s[j].fitness > s[i].fitness
                                    \/ (s[j].fitness = s[i].fitness /\ j <= i)})
    IN [k \in DOMAIN s |-> s[CHOOSE i \in DOMAIN s : Place(i) = k]]

\* mutant: the population is not sorted before the best are taken
Unsorted(s) == s
Ranked(s) == Sorted(s)

First(s, n) == SubSeq(s, 1, Min({n, Len(s)}))

\* Those above the threshold, in their order
Worthy(s) ==
    LET Found[i \in 0..Len(s)] ==
            IF i = 0 THEN <<>>
            ELSE IF s[i].fitness > FameThreshold THEN Append(Found[i - 1], s[i])
            ELSE Found[i - 1]
    IN Found[Len(s)]

(* evolve_generation: the best survive as they are, the rest is offspring. *)
(* Everybody above the threshold enters the hall of fame, the survivors    *)
(* once more in every generation.                                          *)
EvolveGeneration ==
    /\ generation < MaxGenerations /\ generation' = generation + 1
    /\ \E fits \in [1..PopulationSize - EliteCount -> Fitnesses] :
          population' = First(Ranked(population), EliteCount) \o Newborn(generation + 1, fits)
    /\ fame' = First(Sorted(fame \o Worthy(population')), FameSize)
    /\ bestEver' = Max({bestEver, Fittest(population')})
    /\ UNCHANGED traderVars

-----------------------------------------------------------------------------
(* The written strategy                                                    *)

Better(a, b) == IF trade.side = "buy" THEN Max({a, b}) ELSE Min({a, b})

(* _check_trailing_stop. The stop starts at zero and is not reset between  *)
(* trades.                                                                 *)
Trailed(close, width) ==
    Better(stopPrice, IF trade.side = "buy" THEN close - width ELSE close + width)
Reached(close, level) == IF trade.side = "buy" THEN close <= level ELSE close >= level

\* The bars in trade after which the exits by time take place, or none
Patience ==
    CASE exitBy = "indicator_exit" -> 3 * CooldownBars + 1
      [] exitBy = "time_exit" -> 5 * CooldownBars
      [] exitBy = "momentum_exit" -> CooldownBars
      [] OTHER -> 0

Magnitude(x) == IF x < 0 THEN -x ELSE x

(* _check_fixed_target and _check_volatility_exit, which asks for more     *)
(* than five percent after three bars.                                     *)
TargetReached(close) ==
    LET change == IF trade.side = "buy" THEN close - trade.entry ELSE trade.entry - close
    IN 100 * change >= TargetPercent * trade.entry
Volatile(close, held) == held >= 3 /\ 100 * Magnitude(close - trade.entry) > 5 * trade.entry

ExitSignal(close, width, held) ==
    \/ exitBy = "trailing_stop" /\ Reached(close, Trailed(close, width))
    \/ exitBy = "fixed_target" /\ TargetReached(close)
    \/ exitBy = "volatility_exit" /\ Volatile(close, held)
    \/ exitBy \in {"indicator_exit", "time_exit", "momentum_exit"} /\ held >= Patience

(* The ten checks for an entry, on the value of the indicator at the bar   *)
(* before and at this one: oscillators in percent (of williams_r below     *)
(* zero), roc in percent.                                                  *)
Crosses == {"macd_cross", "ema_cross", "momentum"}
Oscillators == {"rsi", "stochastic", "bb_bounce", "williams_r", "cci"}

LongZone(indicator, threshold, before, now) ==
    CASE indicator = "rsi" -> now < 100 - threshold
      [] indicator \in {"stochastic", "bb_bounce"} -> now < threshold
      [] indicator = "williams_r" -> now < threshold - 100
      [] indicator = "cci" -> now < -Magnitude(2 * threshold - 100)
      [] indicator \in Crosses -> before < 0 /\ now > 0
      [] indicator = "roc" -> 10 * now > threshold
      [] indicator = "adx_trend" -> 2 * now > threshold

ShortZone(indicator, threshold, before, now) ==
    CASE indicator = "rsi" -> now > threshold
      [] indicator \in {"stochastic", "bb_bounce"} -> now > 100 - threshold
      [] indicator = "williams_r" -> now > -threshold
      [] indicator = "cci" -> now > Magnitude(2 * threshold - 100)
      [] indicator \in Crosses -> before > 0 /\ now < 0
      [] indicator = "roc" -> 10 * now < -threshold
      [] indicator = "adx_trend" -> FALSE

\* "long" is asked for first
EntrySignal(indicator, threshold, before, now) ==
    IF LongZone(indicator, threshold, before, now) THEN "long"
    ELSE IF ShortZone(indicator, threshold, before, now) THEN "short" ELSE "none"

\* A bar in trade: the exit, or nothing
HoldOrExit(close, width) ==
    /\ trade.open
    /\ LET held == trade.bars + 1 IN
       IF ExitSignal(close, width, held)
       THEN trade' = [trade EXCEPT !.open = FALSE, !.bars = 0] /\ sinceEntry' = <<>>
       ELSE trade' = [trade EXCEPT !.bars = held] /\ sinceEntry' = Append(sinceEntry, close)
    /\ stopPrice' = IF exitBy = "trailing_stop" THEN Trailed(close, width) ELSE stopPrice
    /\ UNCHANGED longBefore

(* A bar without a trade, at which the indicator says "long" or "short":   *)
(* an entry if the genome's direction allows it.                           *)
Enter(close, entry) ==
    /\ ~trade.open /\ direction \in {"both", entry}
    /\ trade' = Trade(TRUE, IF entry = "long" THEN "buy" ELSE "sell", 0, close)
    /\ sinceEntry' = <<close>> /\ longBefore' = (longBefore \/ entry = "long")
    /\ UNCHANGED stopPrice

\* on_bar; bars without a trade and an entry change nothing
OnBar ==
    /\ barsTraded < MaxTraded /\ barsTraded' = barsTraded + 1
    /\ \E close \in Closes :
          \/ \E width \in StopWidths : HoldOrExit(close, width)
          \/ \E entry \in {"long", "short"} : Enter(close, entry)
    /\ UNCHANGED <<exitBy, direction, evolverVars>>

evolutionVars == <<evolverVars, traderVars>>
EvolutionSpec == EvolverInit /\ TraderInit /\ [][EvolveGeneration \/ OnBar]_evolutionVars

-----------------------------------------------------------------------------
(* Properties                                                              *)

Copies(s) == Cardinality({i \in DOMAIN fame : fame[i] = s})

\* The generations that added s to the hall of fame, if it survived them all
Added(s) == generation - Max({s.born, 1}) + 1

(* Elitism: the best of the current generation is the best there ever was, *)
(* and leads the hall of fame if it is good enough. The hall of fame is in *)
(* descending order, holds nobody below the threshold, and holds a         *)
(* survivor once per generation it lived: the leader and its equals crowd  *)
(* out everybody else when it has lived for as many generations as the     *)
(* hall has entries (evolve_generation).                                   *)
BestSurvives ==
    /\ Fittest(population) = bestEver
    /\ generation > 0 /\ bestEver > FameThreshold => fame # <<>> /\ fame[1].fitness = bestEver
    /\ \A i \in DOMAIN fame :
          /\ fame[i].fitness > FameThreshold
          /\ i > 1 => fame[i - 1].fitness >= fame[i].fitness
          /\ Copies(fame[i]) <= Added(fame[i])
    /\ LET leader == population[1] IN
       generation > 0 /\ leader.fitness > FameThreshold =>
          Cardinality({i \in DOMAIN fame : fame[i].fitness >= leader.fitness})
             >= Min({FameSize, Added(leader)})

(* What an open trade of the written strategy has not met yet. Under a     *)
(* trailing stop the last close is on the right side of a stop that        *)
(* followed the best close; as the stop starts at zero and outlives the    *)
(* trade, a short survives its first bar only if a long came before it,    *)
(* whose stop it inherits, and a long may inherit a stop above its entry.  *)
(* Under a fixed target no close was at the target, and none is too low;   *)
(* under the exits by time the trade is younger than they say, and under   *)
(* that by volatility all closes from the third on are near the entry      *)
(* (the source text in generate_strategy_code).                            *)
TradeBeforeExit ==
    trade.open =>
       LET closes == {sinceEntry[i] : i \in 2..Len(sinceEntry)}
           last == sinceEntry[Len(sinceEntry)]
           widest == Max(StopWidths)
       IN  /\ Len(sinceEntry) = trade.bars + 1 /\ sinceEntry[1] = trade.entry
           /\ direction = (IF trade.side = "buy" THEN "long" ELSE "short") \/ direction = "both"
           /\ exitBy = "trailing_stop" /\ trade.bars > 0 /\ trade.side = "buy" =>
                 last > stopPrice /\ stopPrice >= Max(closes) - widest
           /\ exitBy = "trailing_stop" /\ trade.bars > 0 /\ trade.side = "sell" =>
                 longBefore /\ last < stopPrice /\ stopPrice <= Min(closes) + widest
           /\ exitBy = "fixed_target" => \A c \in closes : ~TargetReached(c)
           /\ Patience > 0 => trade.bars < Patience
           /\ exitBy = "volatility_exit" =>
                 \A i \in 4..Len(sinceEntry) : ~Volatile(sinceEntry[i], i - 1)

(* The oscillators' entries are symmetric, a reading short exactly if its  *)
(* mirror image is long, but not for every threshold a genome may carry:   *)
(* the two zones overlap, and the overlap is long, for rsi below a         *)
(* threshold of a half and for the stochastic, the bands and williams_r    *)
(* above it. The genome's default of 0.3 makes rsi long below 70.          *)
(* Crossings and rates of change are always symmetric.                     *)
Readings(indicator) ==
    CASE indicator = "williams_r" -> -100..0
      [] indicator = "cci" -> -150..150
      [] OTHER -> 0..100
Mirror(indicator, reading) ==
    CASE indicator = "williams_r" -> -100 - reading
      [] indicator = "cci" -> -reading
      [] OTHER -> 100 - reading

EntriesMirror ==
    /\ \A indicator \in Oscillators, threshold \in Thresholds :
          LET Entry(v) == EntrySignal(indicator, threshold, 0, v) IN
          (\A v \in Readings(indicator) :
             Entry(v) = "short" <=> Entry(Mirror(indicator, v)) = "long")
          <=> CASE indicator = "cci" -> TRUE
                [] indicator = "rsi" -> threshold >= 50
                [] OTHER -> threshold <= 50
    /\ \A indicator \in Crosses \cup {"roc"}, threshold \in Thresholds, b, v \in -11..11 :
          EntrySignal(indicator, threshold, b, v) = "short"
          <=> EntrySignal(indicator, threshold, -b, -v) = "long"
=============================================================================
