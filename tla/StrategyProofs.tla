--------------------------- MODULE StrategyProofs ---------------------------
(***************************************************************************)
(* Proofs about Evolution, for any fitnesses, sizes, prices and stops,     *)
(* about SignalStrategies, for any rates and lengths, and about the desk   *)
(* as a whole (MCDesk): a behaviour of it is one of each of its parts, so  *)
(* that it keeps what they keep.                                           *)
(***************************************************************************)
EXTENDS MCDesk, DeskProofs, SequenceTheorems

-----------------------------------------------------------------------------
(* Finite sets of integers                                                 *)

(* A finite set of numbers has a greatest and a least one.                 *)
LEMMA GreatestElement ==
    ASSUME NEW S, IsFiniteSet(S), \A x \in S : x \in Int, S # {}
    PROVE  \E x \in S : \A y \in S : x >= y
<1> DEFINE T == {{y \in S : y >= x} : x \in S}
           Above(x) == {y \in S : y >= x}
<1>1. T \subseteq SUBSET S
  OBVIOUS
<1>6. T # {}
  OBVIOUS
<1>2. PICK A \in T : \A B \in T : B \subseteq A => B = A
  <2> HIDE DEF T
  <2> QED BY <1>1, <1>6, SmallestSet
<1>3. PICK x \in S : A = Above(x)
  BY <1>2
<1>5. \A z \in S : z \in Int
  OBVIOUS
<1>4. ASSUME NEW y \in S, ~(x >= y) PROVE FALSE
  <2>1. x \in Above(x) /\ x \notin Above(y)
    BY <1>4, <1>5
  <2>3. Above(y) \subseteq Above(x)
    <3> SUFFICES ASSUME NEW z \in Above(y) PROVE z \in Above(x)
      OBVIOUS
    <3> QED BY <1>4, <1>5
  <2>2. Above(y) = Above(x)
    BY <1>2, <1>3, <2>3
  <2> QED BY <2>1, <2>2
<1> QED BY <1>4

(* A finite nonempty set of integers has a least element.                  *)
LEMMA LeastElement ==
    ASSUME NEW S, IsFiniteSet(S), \A x \in S : x \in Int, S # {}
    PROVE  \E x \in S : \A y \in S : x <= y
<1> DEFINE T == {{y \in S : y <= x} : x \in S}
           Below(x) == {y \in S : y <= x}
<1>1. T \subseteq SUBSET S
  OBVIOUS
<1>6. T # {}
  OBVIOUS
<1>2. PICK A \in T : \A B \in T : B \subseteq A => B = A
  <2> HIDE DEF T
  <2> QED BY <1>1, <1>6, SmallestSet
<1>3. PICK x \in S : A = Below(x)
  BY <1>2
<1>5. \A z \in S : z \in Int
  OBVIOUS
<1>4. ASSUME NEW y \in S, ~(x <= y) PROVE FALSE
  <2>1. x \in Below(x) /\ x \notin Below(y)
    BY <1>4, <1>5
  <2>3. Below(y) \subseteq Below(x)
    <3> SUFFICES ASSUME NEW z \in Below(y) PROVE z \in Below(x)
      OBVIOUS
    <3> QED BY <1>4, <1>5
  <2>2. Below(y) = Below(x)
    BY <1>2, <1>3, <2>3
  <2> QED BY <2>1, <2>2
<1> QED BY <1>4

(* The maximum of a finite nonempty set of integers.                       *)
LEMMA MaxIs ==
    ASSUME NEW S, IsFiniteSet(S), \A x \in S : x \in Int, S # {}
    PROVE  Max(S) \in S /\ \A y \in S : Max(S) >= y
BY GreatestElement DEF Max

(* The minimum of a finite nonempty set of integers.                       *)
LEMMA MinIs ==
    ASSUME NEW S, IsFiniteSet(S), \A x \in S : x \in Int, S # {}
    PROVE  Min(S) \in S /\ \A y \in S : Min(S) <= y
BY LeastElement DEF Min

(* The image of a finite set is finite.                                    *)
LEMMA RangeIsFinite ==
    ASSUME NEW S, IsFiniteSet(S), NEW f
    PROVE  IsFiniteSet({f[x] : x \in S})
<1> DEFINE T == {f[x] : x \in S}
           g == [x \in S |-> f[x]]
<1>1. g \in [S -> T] /\ \A y \in T : \E x \in S : g[x] = y
  OBVIOUS
<1>2. g \in Surjection(S, T)
  BY <1>1 DEF Surjection
<1> HIDE DEF g, T
<1>3. IsFiniteSet(T)
  BY <1>2, FS_Surjection
<1> QED BY <1>3 DEF T

(* The maximum and the minimum of two integers.                            *)
LEMMA OfTwo ==
    ASSUME NEW a \in Int, NEW b \in Int
    PROVE  /\ Max({a, b}) = IF a >= b THEN a ELSE b
           /\ Min({a, b}) = IF a <= b THEN a ELSE b
<1>1. IsFiniteSet({a, b}) /\ {a, b} \subseteq Int /\ {a, b} # {}
  <2>1. IsFiniteSet({a})
    BY FS_Singleton
  <2>2. IsFiniteSet({a} \cup {b}) /\ {a} \cup {b} = {a, b}
    BY <2>1, FS_AddElement
  <2> QED BY <2>2
<1>2. Max({a, b}) \in {a, b} /\ Max({a, b}) >= a /\ Max({a, b}) >= b
  BY <1>1, MaxIs
<1>3. Min({a, b}) \in {a, b} /\ Min({a, b}) <= a /\ Min({a, b}) <= b
  BY <1>1, MinIs
<1> QED BY <1>2, <1>3

-----------------------------------------------------------------------------
(* Evolution: the written strategy                                         *)

\* An open trade has not met its exit, bar by bar
Unmet ==
    /\ trade.side \in {"buy", "sell"} /\ Len(sinceEntry) = trade.bars + 1
    /\ sinceEntry[1] = trade.entry
    /\ direction = (IF trade.side = "buy" THEN "long" ELSE "short") \/ direction = "both"
    /\ exitBy = "trailing_stop" /\ trade.bars > 0 /\ trade.side = "buy" =>
          /\ sinceEntry[Len(sinceEntry)] > stopPrice
          /\ \A i \in 2..Len(sinceEntry) : stopPrice >= sinceEntry[i] - Max(StopWidths)
    /\ exitBy = "trailing_stop" /\ trade.bars > 0 /\ trade.side = "sell" =>
          /\ longBefore /\ sinceEntry[Len(sinceEntry)] < stopPrice
          /\ \A i \in 2..Len(sinceEntry) : stopPrice <= sinceEntry[i] + Max(StopWidths)
    /\ exitBy = "fixed_target" => \A i \in 2..Len(sinceEntry) : ~TargetReached(sinceEntry[i])
    /\ Patience > 0 => trade.bars < Patience
    /\ exitBy = "volatility_exit" => \A i \in 4..Len(sinceEntry) : ~Volatile(sinceEntry[i], i - 1)

\* Before the first long trade the stop of shorts only went down from zero
TraderIInv ==
    /\ TraderTypeOK
    /\ trade.open => Unmet
    /\ trade.open /\ trade.side = "buy" => longBefore
    /\ exitBy = "trailing_stop" /\ ~longBefore => stopPrice <= 0

(* The fields of the trade and the closes since its entry.                 *)
LEMMA TraderTypes ==
    ASSUME TraderTypeOK
    PROVE  /\ \A i \in 1..Len(sinceEntry) : sinceEntry[i] \in Nat \ {0}
           /\ Len(sinceEntry) \in Nat /\ stopPrice \in Int
           /\ trade.bars \in Nat /\ trade.entry \in Nat /\ trade.open \in BOOLEAN
           /\ trade.side \in {"", "buy", "sell"}
           /\ longBefore \in BOOLEAN
<1>1. sinceEntry \in Seq(Closes) /\ \A c \in Closes : c \in Nat \ {0}
  BY EvolutionAssumption DEF TraderTypeOK
<1>2. Len(sinceEntry) \in Nat /\ \A i \in 1..Len(sinceEntry) : sinceEntry[i] \in Closes
  BY <1>1
<1> QED BY <1>1, <1>2 DEF TraderTypeOK

(* The inductive invariant implies what the run checks.                    *)
LEMMA TraderInvHolds == TraderIInv => TraderTypeOK /\ TradeBeforeExit
<1> SUFFICES ASSUME TraderIInv, trade.open
             PROVE  LET closes == {sinceEntry[i] : i \in 2..Len(sinceEntry)}
                        last == sinceEntry[Len(sinceEntry)]
                        widest == Max(StopWidths)
                    IN  /\ Len(sinceEntry) = trade.bars + 1 /\ sinceEntry[1] = trade.entry
                        /\ direction = (IF trade.side = "buy" THEN "long" ELSE "short") \/ direction = "both"
                        /\ exitBy = "trailing_stop" /\ trade.bars > 0 /\ trade.side = "buy" =>
                              last > stopPrice /\ stopPrice >= Max(closes) - widest
                        /\ exitBy = "trailing_stop" /\ trade.bars > 0 /\ trade.side = "sell" =>
                              longBefore /\ last < stopPrice /\ stopPrice <= Min(closes) + widest
                        /\ exitBy = "fixed_target" => \A c \in closes : ~TargetReached(c)
                        /\ Patience > 0 => trade.bars < Patience
                        /\ exitBy = "volatility_exit" =>
                              \A i \in 4..Len(sinceEntry) : ~Volatile(sinceEntry[i], i - 1)
  BY DEF TraderIInv, TradeBeforeExit
<1> DEFINE closes == {sinceEntry[i] : i \in 2..Len(sinceEntry)}
<1>1. Unmet /\ TraderTypeOK
  BY DEF TraderIInv
<1>2. /\ \A i \in 1..Len(sinceEntry) : sinceEntry[i] \in Nat \ {0}
      /\ Len(sinceEntry) \in Nat /\ trade.bars \in Nat /\ Len(sinceEntry) = trade.bars + 1
  BY <1>1, TraderTypes DEF Unmet
<1>3. ASSUME trade.bars > 0
      PROVE  Max(closes) \in closes /\ Min(closes) \in closes
  <2>1. IsFiniteSet(2..Len(sinceEntry))
    BY <1>2, FS_Interval
  <2>2. IsFiniteSet(closes)
    BY <2>1, RangeIsFinite
  <2>3. closes \subseteq Int /\ closes # {}
    <3>1. 2 \in 2..Len(sinceEntry)
      BY <1>2, <1>3
    <3> QED BY <1>2, <3>1
  <2> HIDE DEF closes
  <2> QED BY <2>2, <2>3, MaxIs, MinIs
<1>4. exitBy = "trailing_stop" /\ trade.bars > 0 /\ trade.side = "buy" =>
          stopPrice >= Max(closes) - Max(StopWidths)
  BY <1>1, <1>3 DEF Unmet
<1>5. exitBy = "trailing_stop" /\ trade.bars > 0 /\ trade.side = "sell" =>
          stopPrice <= Min(closes) + Max(StopWidths)
  BY <1>1, <1>3 DEF Unmet
<1>6. exitBy = "fixed_target" => \A c \in closes : ~TargetReached(c)
  BY <1>1 DEF Unmet
<1> HIDE DEF closes
<1> QED BY <1>1, <1>4, <1>5, <1>6 DEF Unmet, closes

(* The invariant holds before the first bar.                               *)
LEMMA TraderInitHolds == TraderInit => TraderIInv
<1> SUFFICES ASSUME TraderInit PROVE TraderIInv
  OBVIOUS
<1>1. sinceEntry = <<>> /\ trade = Trade(FALSE, "", 0, 0) /\ longBefore \in BOOLEAN
  BY DEF TraderInit
<1>7. stopPrice = 0 /\ barsTraded = 0 /\ MaxTraded \in Nat
  BY EvolutionAssumption DEF TraderInit
<1>2. trade \in [open : BOOLEAN, side : {"", "buy", "sell"}, bars : Nat, entry : Nat] /\ trade.open = FALSE
  BY <1>1 DEF Trade
<1>3. barsTraded \in 0..MaxTraded /\ stopPrice \in Int /\ stopPrice <= 0
  BY <1>7
<1>4. sinceEntry \in Seq(Closes) /\ longBefore \in BOOLEAN
  <2>1. <<>> \in Seq(Closes)
    OBVIOUS
  <2> QED BY <1>1, <2>1
<1>5. TraderTypeOK
  BY <1>2, <1>3, <1>4 DEF TraderInit, TraderTypeOK
<1>6. ~trade.open
  BY <1>2
<1> QED BY <1>3, <1>5, <1>6 DEF TraderIInv

(* A trailed stop only moves with the trade, and not behind the widest     *)
(* stop.                                                                   *)
LEMMA TrailedMeans ==
    ASSUME TraderTypeOK, NEW close \in Closes, NEW width \in StopWidths
    PROVE  /\ Trailed(close, width) \in Int
           /\ trade.side = "buy" =>
                 /\ Trailed(close, width) >= stopPrice
                 /\ Trailed(close, width) >= close - Max(StopWidths)
           /\ trade.side # "buy" =>
                 /\ Trailed(close, width) <= stopPrice
                 /\ Trailed(close, width) <= close + Max(StopWidths)
<1>1. /\ close \in Int /\ width \in Int /\ stopPrice \in Int
      /\ StopWidths \subseteq Int /\ IsFiniteSet(StopWidths)
  <2>1. Closes \subseteq Nat \ {0} /\ StopWidths \subseteq Nat /\ IsFiniteSet(StopWidths)
    BY EvolutionAssumption
  <2>2. stopPrice \in Int
    BY DEF TraderTypeOK
  <2> QED BY <2>1, <2>2
<1>2. Max(StopWidths) \in Int /\ Max(StopWidths) >= width
  BY <1>1, MaxIs
<1>3. CASE trade.side = "buy"
  <2> DEFINE b == close - width
  <2>1. b \in Int /\ b >= close - Max(StopWidths)
    BY <1>1, <1>2
  <2>2. Trailed(close, width) = Max({stopPrice, b})
    BY <1>3 DEF Trailed, Better
  <2> HIDE DEF b
  <2>3. Max({stopPrice, b}) = IF stopPrice >= b THEN stopPrice ELSE b
    BY <1>1, <2>1, OfTwo
  <2> QED BY <1>1, <1>2, <1>3, <2>1, <2>2, <2>3
<1>4. CASE trade.side # "buy"
  <2> DEFINE b == close + width
  <2>1. b \in Int /\ b <= close + Max(StopWidths)
    BY <1>1, <1>2
  <2>2. Trailed(close, width) = Min({stopPrice, b})
    BY <1>4 DEF Trailed, Better
  <2> HIDE DEF b
  <2>3. Min({stopPrice, b}) = IF stopPrice <= b THEN stopPrice ELSE b
    BY <1>1, <2>1, OfTwo
  <2> QED BY <1>1, <1>2, <1>4, <2>1, <2>2, <2>3
<1> QED BY <1>3, <1>4

(* A bar that enters a trade keeps the invariant.                          *)
LEMMA TraderEnters ==
    ASSUME TraderIInv, NEW close \in Closes, NEW entry \in {"long", "short"}, Enter(close, entry),
           UNCHANGED <<exitBy, direction>>, barsTraded' \in 0..MaxTraded
    PROVE  TraderIInv'
<1> DEFINE side == IF entry = "long" THEN "buy" ELSE "sell"
<1>1. /\ direction \in {"both", entry} /\ trade' = Trade(TRUE, side, 0, close)
      /\ sinceEntry' = <<close>> /\ longBefore' = (longBefore \/ entry = "long")
      /\ stopPrice' = stopPrice /\ exitBy' = exitBy /\ direction' = direction
  BY DEF Enter
<1>2. close \in Nat \ {0} /\ TraderTypeOK
  BY EvolutionAssumption DEF TraderIInv
<1>3. /\ trade' \in [open : BOOLEAN, side : {"", "buy", "sell"}, bars : Nat, entry : Nat]
      /\ trade'.side = side
  BY <1>1, <1>2 DEF Trade
<1>9. trade'.bars = 0 /\ trade'.entry = close
  BY <1>1 DEF Trade
<1>4. Len(sinceEntry') = 1 /\ sinceEntry'[1] = close /\ sinceEntry' \in Seq(Closes)
  BY <1>1
<1>5. TraderTypeOK'
  BY <1>1, <1>2, <1>3, <1>4 DEF TraderTypeOK
<1>6. Unmet'
  <2>1. 2..Len(sinceEntry') = {} /\ 4..Len(sinceEntry') = {} /\ Len(sinceEntry') = trade'.bars + 1
    BY <1>4, <1>9
  <2>2. ~(trade'.bars > 0)
    BY <1>9
  <2>3. Patience' > 0 => trade'.bars < Patience'
    BY <1>9
  <2>4. trade'.side \in {"buy", "sell"} /\ sinceEntry'[1] = trade'.entry
    BY <1>3, <1>4, <1>9
  <2>5. direction' = (IF trade'.side = "buy" THEN "long" ELSE "short") \/ direction' = "both"
    BY <1>1, <1>3
  <2> QED BY <2>1, <2>2, <2>3, <2>4, <2>5 DEF Unmet
<1>7. trade'.side = "buy" => longBefore'
  BY <1>1, <1>3
<1>8. exitBy' = "trailing_stop" /\ ~longBefore' => stopPrice' <= 0
  BY <1>1 DEF TraderIInv
<1> QED BY <1>5, <1>6, <1>7, <1>8 DEF TraderIInv

(* A bar that holds or exits the trade keeps the invariant.                *)
LEMMA HoldStep ==
    ASSUME TraderIInv, NEW close \in Closes, NEW width \in StopWidths, HoldOrExit(close, width),
           UNCHANGED <<exitBy, direction>>, barsTraded' \in 0..MaxTraded
    PROVE  TraderIInv'
<1> DEFINE held == trade.bars + 1
           stop == Trailed(close, width)
<1>1. /\ trade.open /\ longBefore' = longBefore /\ exitBy' = exitBy /\ direction' = direction
      /\ stopPrice' = IF exitBy = "trailing_stop" THEN stop ELSE stopPrice
  BY DEF HoldOrExit
<1>2. /\ TraderTypeOK /\ Unmet /\ close \in Nat \ {0}
      /\ trade \in [open : BOOLEAN, side : {"", "buy", "sell"}, bars : Nat, entry : Nat]
      /\ sinceEntry \in Seq(Closes)
  BY <1>1, EvolutionAssumption DEF TraderIInv, TraderTypeOK
<1>3. /\ \A i \in 1..Len(sinceEntry) : sinceEntry[i] \in Nat \ {0}
      /\ Len(sinceEntry) \in Nat /\ stopPrice \in Int /\ trade.bars \in Nat /\ held \in Nat /\ trade.entry \in Nat
      /\ trade.side \in {"buy", "sell"} /\ longBefore \in BOOLEAN
  BY <1>2, TraderTypes DEF Unmet
<1>9. close \in Nat \ {0} /\ Len(sinceEntry) = trade.bars + 1
  BY <1>2 DEF Unmet
<1>4. /\ stop \in Int
      /\ trade.side = "buy" => stop >= stopPrice /\ stop >= close - Max(StopWidths)
      /\ trade.side # "buy" => stop <= stopPrice /\ stop <= close + Max(StopWidths)
  BY <1>2, TrailedMeans
<1> HIDE DEF stop
<1>5. stopPrice' \in Int
  BY <1>1, <1>3, <1>4
<1>6. exitBy' = "trailing_stop" /\ ~longBefore' => stopPrice' <= 0
  <2> SUFFICES ASSUME exitBy = "trailing_stop", ~longBefore PROVE stop <= 0
    BY <1>1
  <2>1. trade.side # "buy" /\ stopPrice <= 0
    BY <1>1 DEF TraderIInv
  <2> QED BY <1>3, <1>4, <2>1
<1>7. CASE ExitSignal(close, width, held)
  <2>1. trade' = [trade EXCEPT !.open = FALSE, !.bars = 0] /\ sinceEntry' = <<>>
    BY <1>7 DEF HoldOrExit
  <2>2. /\ trade' \in [open : BOOLEAN, side : {"", "buy", "sell"}, bars : Nat, entry : Nat]
        /\ trade'.open = FALSE
    BY <1>2, <2>1
  <2>3. sinceEntry' \in Seq(Closes)
    BY <2>1
  <2>4. TraderTypeOK'
    BY <1>1, <1>2, <1>5, <2>2, <2>3 DEF TraderTypeOK
  <2> QED BY <1>6, <2>2, <2>4 DEF TraderIInv
<1>8. CASE ~ExitSignal(close, width, held)
  <2>1. trade' = [trade EXCEPT !.bars = held] /\ sinceEntry' = Append(sinceEntry, close)
    BY <1>8 DEF HoldOrExit
  <2>2. /\ trade' \in [open : BOOLEAN, side : {"", "buy", "sell"}, bars : Nat, entry : Nat]
        /\ trade'.side = trade.side /\ trade'.bars = held /\ trade'.entry = trade.entry
    BY <1>2, <1>3, <2>1
  <2> DEFINE n == Len(sinceEntry)
  <2>3. /\ sinceEntry' \in Seq(Closes) /\ Len(sinceEntry') = n + 1
        /\ sinceEntry'[n + 1] = close
        /\ \A i \in 1..n : sinceEntry'[i] = sinceEntry[i]
    <3>1. sinceEntry' = Append(sinceEntry, close) /\ sinceEntry \in Seq(Closes)
      BY <1>2, <2>1
    <3> QED BY <3>1
  <2>4. TraderTypeOK'
    BY <1>1, <1>2, <1>5, <2>2, <2>3 DEF TraderTypeOK
  <2>5. n = trade.bars + 1 /\ n = held /\ n >= 1
    BY <1>3, <1>9
  <2>6. Len(sinceEntry') = trade'.bars + 1 /\ sinceEntry'[1] = trade'.entry /\ trade'.side \in {"buy", "sell"}
    <3>1. 1 \in 1..n
      BY <1>3, <2>5
    <3>2. sinceEntry[1] = trade.entry
      BY <1>2 DEF Unmet
    <3> QED BY <1>3, <2>2, <2>3, <2>5, <3>1, <3>2
  <2>7. direction' = (IF trade'.side = "buy" THEN "long" ELSE "short") \/ direction' = "both"
    BY <1>1, <1>2, <2>2 DEF Unmet
  <2>8. ASSUME exitBy = "trailing_stop"
        PROVE  ~Reached(close, stop) /\ stopPrice' = stop
    BY <1>1, <1>8, <2>8 DEF ExitSignal, stop
  <2> HIDE DEF n, held
  <2>9. ASSUME exitBy = "trailing_stop", trade.side = "buy"
        PROVE  /\ sinceEntry'[n + 1] > stopPrice'
               /\ \A i \in 2..(n + 1) : stopPrice' >= sinceEntry'[i] - Max(StopWidths)
    <3>1. close > stop /\ stopPrice' = stop
      BY <1>4, <1>9, <2>8, <2>9 DEF Reached
    <3>2. ASSUME NEW i \in 2..n PROVE stop >= sinceEntry'[i] - Max(StopWidths)
      <4>1. trade.bars > 0 /\ i \in 1..n
        BY <1>3, <2>5, <3>2
      <4>2. stopPrice >= sinceEntry[i] - Max(StopWidths)
        BY <1>2, <2>9, <4>1 DEF Unmet, n
      <4>3. sinceEntry'[i] = sinceEntry[i] /\ sinceEntry[i] \in Int
        BY <1>3, <2>3, <4>1 DEF n
      <4>4. Max(StopWidths) \in Int
        <5>1. IsFiniteSet(StopWidths) /\ StopWidths # {} /\ \A w \in StopWidths : w \in Int
          BY EvolutionAssumption
        <5> QED BY <5>1, MaxIs
      <4> QED BY <1>3, <1>4, <2>9, <4>2, <4>3, <4>4
    <3>3. \A i \in 2..(n + 1) : i \in 2..n \/ i = n + 1
      BY <2>5, <1>3
    <3> QED BY <1>4, <2>3, <2>9, <3>1, <3>2, <3>3
  <2>10. ASSUME exitBy = "trailing_stop", trade.side = "sell"
         PROVE  /\ longBefore /\ sinceEntry'[n + 1] < stopPrice'
                /\ \A i \in 2..(n + 1) : stopPrice' <= sinceEntry'[i] + Max(StopWidths)
    <3>1. close < stop /\ stopPrice' = stop
      BY <1>4, <1>9, <2>8, <2>10 DEF Reached
    <3>2. ASSUME NEW i \in 2..n PROVE stop <= sinceEntry'[i] + Max(StopWidths)
      <4>1. trade.bars > 0 /\ i \in 1..n
        BY <1>3, <2>5, <3>2
      <4>2. stopPrice <= sinceEntry[i] + Max(StopWidths)
        BY <1>2, <2>10, <4>1 DEF Unmet, n
      <4>3. sinceEntry'[i] = sinceEntry[i] /\ sinceEntry[i] \in Int
        BY <1>3, <2>3, <4>1 DEF n
      <4>4. Max(StopWidths) \in Int
        <5>1. IsFiniteSet(StopWidths) /\ StopWidths # {} /\ \A w \in StopWidths : w \in Int
          BY EvolutionAssumption
        <5> QED BY <5>1, MaxIs
      <4> QED BY <1>3, <1>4, <2>10, <4>2, <4>3, <4>4
    <3>3. \A i \in 2..(n + 1) : i \in 2..n \/ i = n + 1
      BY <2>5, <1>3
    <3>4. longBefore
      <4>1. ~(stop <= 0)
        BY <1>4, <1>9, <3>1
      <4> QED BY <1>1, <1>6, <2>10, <3>1, <4>1
    <3> QED BY <1>4, <2>3, <2>10, <3>1, <3>2, <3>3, <3>4
  <2>11. ASSUME exitBy = "fixed_target", NEW i \in 2..(n + 1)
         PROVE  ~TargetReached(sinceEntry'[i])
    <3>1. CASE i = n + 1
      BY <1>8, <2>3, <2>11, <3>1 DEF ExitSignal
    <3>2. CASE i # n + 1
      <4>1. i \in 2..n /\ i \in 1..n
        BY <1>3, <2>5, <3>2
      <4>2. ~TargetReached(sinceEntry[i])
        BY <1>2, <2>11, <4>1 DEF Unmet, n
      <4> QED BY <2>3, <4>1, <4>2
    <3> QED BY <3>1, <3>2
  <2>12. Patience > 0 => held < Patience
    <3>1. SUFFICES ASSUME Patience > 0 PROVE held < Patience
      OBVIOUS
    <3>2. exitBy \in {"indicator_exit", "time_exit", "momentum_exit"}
      BY <3>1 DEF Patience
    <3>3. ~(held >= Patience)
      BY <1>8, <3>2 DEF ExitSignal
    <3>4. Patience \in Int
      BY <3>2, EvolutionAssumption DEF Patience
    <3> QED BY <1>3, <3>3, <3>4
  <2>13. ASSUME exitBy = "volatility_exit", NEW i \in 4..(n + 1)
         PROVE  ~Volatile(sinceEntry'[i], i - 1)
    <3>1. CASE i = n + 1
      <4>1. i - 1 = held
        BY <1>3, <2>5, <3>1
      <4> QED BY <1>8, <2>3, <2>13, <3>1, <4>1 DEF ExitSignal
    <3>2. CASE i # n + 1
      <4>1. i \in 4..n /\ i \in 1..n
        BY <1>3, <2>5, <3>2
      <4>2. ~Volatile(sinceEntry[i], i - 1)
        BY <1>2, <2>13, <4>1 DEF Unmet, n
      <4> QED BY <2>3, <4>1, <4>2
    <3> QED BY <3>1, <3>2
  <2>14. Patience' = Patience
    BY <1>1 DEF Patience
  <2>15. exitBy' = "fixed_target" => \A i \in 2..Len(sinceEntry') : ~TargetReached(sinceEntry[i])'
    BY <1>1, <2>2, <2>3, <2>11 DEF TargetReached
  <2>16. exitBy' = "volatility_exit" => \A i \in 4..Len(sinceEntry') : ~Volatile(sinceEntry[i], i - 1)'
    BY <1>1, <2>2, <2>3, <2>13 DEF Volatile
  <2>17. exitBy' = "trailing_stop" /\ trade'.bars > 0 /\ trade'.side = "buy" =>
            /\ sinceEntry'[Len(sinceEntry')] > stopPrice'
            /\ \A i \in 2..Len(sinceEntry') : stopPrice' >= sinceEntry'[i] - Max(StopWidths)
    BY <1>1, <2>2, <2>3, <2>9
  <2>18. exitBy' = "trailing_stop" /\ trade'.bars > 0 /\ trade'.side = "sell" =>
            /\ longBefore' /\ sinceEntry'[Len(sinceEntry')] < stopPrice'
            /\ \A i \in 2..Len(sinceEntry') : stopPrice' <= sinceEntry'[i] + Max(StopWidths)
    BY <1>1, <2>2, <2>3, <2>10
  <2>19. Patience' > 0 => trade'.bars < Patience'
    BY <2>2, <2>12, <2>14
  <2>20. Unmet'
    BY <2>6, <2>7, <2>15, <2>16, <2>17, <2>18, <2>19 DEF Unmet
  <2>21. trade'.side = "buy" => longBefore'
    BY <1>1, <2>2 DEF TraderIInv
  <2> QED BY <1>6, <2>4, <2>20, <2>21 DEF TraderIInv
<1> QED BY <1>7, <1>8

(* Every bar keeps the invariant of the written strategy.                  *)
LEMMA TraderStep == TraderIInv /\ (OnBar \/ UNCHANGED traderVars) => TraderIInv'
<1> SUFFICES ASSUME TraderIInv, OnBar \/ UNCHANGED traderVars PROVE TraderIInv'
  OBVIOUS
<1>1. CASE OnBar
  <2>1. barsTraded' \in 0..MaxTraded /\ UNCHANGED <<exitBy, direction>>
    <3>1. barsTraded \in 0..MaxTraded /\ barsTraded < MaxTraded /\ barsTraded' = barsTraded + 1 /\ MaxTraded \in Nat
      BY <1>1, EvolutionAssumption DEF OnBar, TraderIInv, TraderTypeOK
    <3>2. barsTraded' \in 0..MaxTraded
      BY <3>1
    <3> QED BY <1>1, <3>2 DEF OnBar
  <2>2. PICK close \in Closes : \/ \E width \in StopWidths : HoldOrExit(close, width)
                                \/ \E entry \in {"long", "short"} : Enter(close, entry)
    BY <1>1 DEF OnBar
  <2>3. CASE \E width \in StopWidths : HoldOrExit(close, width)
    BY <2>1, <2>3, HoldStep
  <2>4. CASE \E entry \in {"long", "short"} : Enter(close, entry)
    BY <2>1, <2>4, TraderEnters
  <2> QED BY <2>2, <2>3, <2>4
<1>2. CASE UNCHANGED traderVars
  BY <1>2 DEF traderVars, TraderIInv, TraderTypeOK, Unmet, TargetReached, Volatile, Patience
<1> QED BY <1>1, <1>2

-----------------------------------------------------------------------------
(* Evolution: sequences of individuals, and how often something is in one  *)

\* The places of s at which there is an element of P
Spots(s, P) == {i \in 1..Len(s) : s[i] \in P}
\* How many there are.
Hits(s, P) == Cardinality(Spots(s, P))

(* There are k numbers from 1 to k.                                        *)
LEMMA CountUpTo ==
    ASSUME NEW k \in Nat
    PROVE  IsFiniteSet(1..k) /\ Cardinality(1..k) = k
<1>1. 1 \in Int /\ k \in Int
  OBVIOUS
<1>2. IsFiniteSet(1..k) /\ Cardinality(1..k) = IF 1 > k THEN 0 ELSE k - 1 + 1
  BY <1>1, FS_Interval
<1> QED BY <1>2

(* How many places of a sequence hold a member of P.                       *)
LEMMA HitsAre ==
    ASSUME NEW S, NEW s \in Seq(S), NEW P
    PROVE  /\ IsFiniteSet(Spots(s, P)) /\ Hits(s, P) \in 0..Len(s) /\ Hits(s, P) \in Nat
           /\ Hits(s, P) = 0 <=> \A i \in 1..Len(s) : s[i] \notin P
<1>1. IsFiniteSet(1..Len(s)) /\ Cardinality(1..Len(s)) = Len(s)
  <2>1. Len(s) \in Nat
    OBVIOUS
  <2> QED BY <2>1, CountUpTo
<1>2. Spots(s, P) \in SUBSET (1..Len(s))
  BY DEF Spots
<1>3. IsFiniteSet(Spots(s, P)) /\ Hits(s, P) <= Len(s)
  BY <1>1, <1>2, FS_Subset DEF Hits
<1>4. Hits(s, P) \in Nat
  BY <1>3, FS_CardinalityType DEF Hits
<1>5. Hits(s, P) = 0 <=> Spots(s, P) = {}
  BY <1>3, FS_EmptySet DEF Hits
<1> QED BY <1>3, <1>4, <1>5 DEF Spots

(* Appending an element adds its hit, if it is one.                        *)
LEMMA HitsAppend ==
    ASSUME NEW S, NEW s \in Seq(S), NEW x \in S, NEW P
    PROVE  Hits(Append(s, x), P) = Hits(s, P) + IF x \in P THEN 1 ELSE 0
<1> DEFINE t == Append(s, x)
           n == Len(s)
<1>1. t \in Seq(S) /\ Len(t) = n + 1 /\ t[n + 1] = x /\ \A i \in 1..n : t[i] = s[i]
  OBVIOUS
<1>2. n \in Nat /\ IsFiniteSet(Spots(s, P)) /\ n + 1 \notin Spots(s, P)
  <2>1. n \in Nat /\ n + 1 \notin Spots(s, P)
    BY DEF Spots
  <2> QED BY <2>1, HitsAre
<1> HIDE DEF t
<1>3. Spots(t, P) = IF x \in P THEN Spots(s, P) \cup {n + 1} ELSE Spots(s, P)
  <2>1. 1..Len(t) = 1..n \cup {n + 1}
    BY <1>1, <1>2
  <2> HIDE DEF n
  <2> QED BY <1>1, <1>2, <2>1 DEF Spots, n
<1>4. Cardinality(Spots(s, P) \cup {n + 1}) = Cardinality(Spots(s, P)) + 1
  BY <1>2, FS_AddElement
<1>5. Hits(s, P) \in Nat
  BY <1>2, FS_CardinalityType DEF Hits
<1> HIDE DEF n
<1>6. Hits(t, P) = Hits(s, P) + IF x \in P THEN 1 ELSE 0
  BY <1>3, <1>4, <1>5 DEF Hits
<1> QED BY <1>6 DEF t

(* The hits of a concatenation are those of its parts.                     *)
LEMMA HitsConcat ==
    ASSUME NEW S, NEW s \in Seq(S), NEW t \in Seq(S), NEW P
    PROVE  Hits(s \o t, P) = Hits(s, P) + Hits(t, P)
<1> DEFINE u == s \o t
           n == Len(s)
           m == Len(t)
           Late == {i \in Spots(u, P) : i > n}
           f == [i \in Spots(t, P) |-> i + n]
<1>1. /\ u \in Seq(S) /\ Len(u) = n + m /\ n \in Nat /\ m \in Nat
      /\ \A i \in 1..(n + m) : u[i] = IF i <= n THEN s[i] ELSE t[i - n]
  BY ConcatProperties
<1> HIDE DEF u, n, m
<1>2. Spots(u, P) = Spots(s, P) \cup Late
  BY <1>1 DEF Spots, n
<1>3. Spots(s, P) \cap Late = {}
  BY <1>1 DEF Spots, n
<1>4. IsFiniteSet(Spots(s, P)) /\ IsFiniteSet(Spots(t, P)) /\ IsFiniteSet(Spots(u, P))
  BY <1>1, HitsAre
<1>5. Cardinality(Late) = Cardinality(Spots(t, P)) /\ IsFiniteSet(Late)
  <2>1. f \in [Spots(t, P) -> Late]
    <3>1. ASSUME NEW i \in Spots(t, P)
          PROVE  i + n \in Late
      <4>1. i \in 1..m /\ t[i] \in P
        BY DEF Spots, m
      <4>2. i + n \in 1..(n + m) /\ ~(i + n <= n) /\ (i + n) - n = i /\ i + n > n
        BY <1>1, <4>1
      <4>3. u[i + n] = t[i]
        BY <1>1, <4>2
      <4> QED BY <1>1, <4>1, <4>2, <4>3 DEF Spots
    <3> QED BY <3>1
  <2>2. \A i, j \in Spots(t, P) : f[i] = f[j] => i = j
    BY <1>1 DEF Spots, m
  <2>3. ASSUME NEW j \in Late
        PROVE  \E i \in Spots(t, P) : f[i] = j
    <3>1. j \in 1..(n + m) /\ u[j] \in P /\ j > n
      BY <1>1 DEF Spots
    <3>2. j - n \in 1..m /\ ~(j <= n) /\ (j - n) + n = j
      BY <1>1, <3>1
    <3>3. t[j - n] \in P
      BY <1>1, <3>1, <3>2
    <3>4. j - n \in Spots(t, P)
      BY <3>2, <3>3 DEF Spots, m
    <3> QED BY <3>2, <3>4
  <2> HIDE DEF f, Late
  <2>4. f \in Bijection(Spots(t, P), Late)
    BY <2>1, <2>2, <2>3 DEF Bijection, Injection, Surjection, IsInjective
  <2>5. ExistsBijection(Spots(t, P), Late)
    BY <2>4 DEF ExistsBijection
  <2> QED BY <1>4, <2>5, FS_Bijection
<1> HIDE DEF Late
<1>6. /\ Cardinality(Spots(u, P)) =
            Cardinality(Spots(s, P)) + Cardinality(Late) - Cardinality(Spots(s, P) \cap Late)
      /\ Cardinality(Spots(s, P) \cap Late) = 0
  BY <1>2, <1>3, <1>4, <1>5, FS_Union, FS_EmptySet
<1>7. Hits(s, P) \in Nat /\ Hits(t, P) \in Nat
  BY HitsAre
<1>8. Hits(u, P) = Hits(s, P) + Hits(t, P)
  BY <1>5, <1>6, <1>7 DEF Hits
<1> QED BY <1>8 DEF u

\* t is s in another order
Reorders(t, s, q) ==
    /\ q \in [1..Len(s) -> 1..Len(s)] /\ Len(t) = Len(s)
    /\ \A i, j \in 1..Len(s) : q[i] = q[j] => i = j
    /\ \A i \in 1..Len(s) : \E k \in 1..Len(s) : q[k] = i
    /\ \A k \in 1..Len(s) : t[k] = s[q[k]]

(* Reordering a sequence keeps its hits.                                   *)
LEMMA HitsReordered ==
    ASSUME NEW S, NEW s \in Seq(S), NEW t \in Seq(S), NEW q, Reorders(t, s, q), NEW P
    PROVE  Hits(t, P) = Hits(s, P)
<1> DEFINE f == [k \in Spots(t, P) |-> q[k]]
<1>1. /\ f \in [Spots(t, P) -> Spots(s, P)]
      /\ \A i, j \in Spots(t, P) : f[i] = f[j] => i = j
      /\ \A i \in Spots(s, P) : \E k \in Spots(t, P) : f[k] = i
  BY DEF Spots, Reorders
<1> HIDE DEF f
<1>2. f \in Bijection(Spots(t, P), Spots(s, P))
  BY <1>1 DEF Bijection, Injection, Surjection, IsInjective
<1>3. ExistsBijection(Spots(t, P), Spots(s, P))
  BY <1>2 DEF ExistsBijection
<1>4. IsFiniteSet(Spots(t, P))
  BY HitsAre
<1> QED BY <1>3, <1>4, FS_Bijection DEF Hits

-----------------------------------------------------------------------------
(* Evolution: the order of fitness                                         *)

\* A sequence of individuals with a fitness, in descending order of it.
Rated(s) == \A i \in 1..Len(s) : s[i].fitness \in Int

Descending(s) == \A i, j \in 1..Len(s) : i <= j => s[i].fitness >= s[j].fitness

(* Sorting by fitness reorders a sequence into descending order.           *)
LEMMA SortedIs ==
    ASSUME NEW S, NEW s \in Seq(S), Rated(s)
    PROVE  /\ Sorted(s) \in Seq(S) /\ Rated(Sorted(s)) /\ Descending(Sorted(s))
           /\ \E q : Reorders(Sorted(s), s, q)
<1> DEFINE n == Len(s)
           Upto(i) == {j \in DOMAIN s : s[j].fitness > s[i].fitness
                                           \/ (s[j].fitness = s[i].fitness /\ j <= i)}
           place == [i \in 1..n |-> Cardinality(Upto(i))]
           q == [k \in 1..n |-> CHOOSE i \in 1..n : place[i] = k]
<1>1. n \in Nat /\ DOMAIN s = 1..n /\ \A i \in 1..n : s[i].fitness \in Int /\ s[i] \in S
  BY DEF Rated
<1>2. Sorted(s) = [k \in 1..n |-> s[CHOOSE i \in 1..n : Cardinality(Upto(i)) = k]]
  BY <1>1 DEF Sorted
<1>3. Sorted(s) = [k \in 1..n |-> s[CHOOSE i \in 1..n : place[i] = k]]
  <2>1. ASSUME NEW k \in 1..n
        PROVE  (CHOOSE i \in 1..n : Cardinality(Upto(i)) = k) = (CHOOSE i \in 1..n : place[i] = k)
    <3>1. \A i \in 1..n : Cardinality(Upto(i)) = k <=> place[i] = k
      OBVIOUS
    <3> HIDE DEF Upto, place
    <3> QED BY <3>1
  <2> HIDE DEF place, Upto
  <2> QED BY <1>2, <2>1
<1> HIDE DEF n
<1>4. \A i \in 1..n : Upto(i) \subseteq 1..n /\ i \in Upto(i)
  BY <1>1
<1>5. IsFiniteSet(1..n) /\ Cardinality(1..n) = n
  BY <1>1, FS_Interval
<1>6. ASSUME NEW i \in 1..n
      PROVE  IsFiniteSet(Upto(i)) /\ place[i] \in 1..n /\ place[i] = Cardinality(Upto(i))
  <2>1. Upto(i) \in SUBSET (1..n) /\ Upto(i) # {}
    BY <1>4
  <2>2. place[i] = Cardinality(Upto(i))
    OBVIOUS
  <2> HIDE DEF Upto, place
  <2>3. IsFiniteSet(Upto(i)) /\ Cardinality(Upto(i)) <= n
    BY <1>5, <2>1, FS_Subset
  <2>4. Cardinality(Upto(i)) \in Nat /\ Cardinality(Upto(i)) # 0
    BY <2>1, <2>3, FS_CardinalityType, FS_EmptySet
  <2> QED BY <1>1, <2>2, <2>3, <2>4
<1>7. ASSUME NEW i \in 1..n, NEW j \in 1..n, i # j, i \in Upto(j)
      PROVE  place[i] < place[j]
  <2>1. Upto(i) \subseteq Upto(j) /\ j \in Upto(j) /\ j \notin Upto(i)
    BY <1>1, <1>7
  <2>2. IsFiniteSet(Upto(i)) /\ IsFiniteSet(Upto(j))
    BY <1>6
  <2> HIDE DEF Upto, place
  <2>3. /\ place[i] = Cardinality(Upto(i)) /\ place[j] = Cardinality(Upto(j))
        /\ place[i] \in Nat /\ place[j] \in Nat
    BY <1>1, <1>6
  <2>4. Cardinality(Upto(i)) <= Cardinality(Upto(j)) /\ Cardinality(Upto(i)) # Cardinality(Upto(j))
    BY <2>1, <2>2, FS_Subset
  <2> QED BY <2>3, <2>4
<1>8. \A i, j \in 1..n : i \in Upto(j) \/ j \in Upto(i)
  BY <1>1
<1>9. \A i, j \in 1..n : place[i] = place[j] => i = j
  <2> HIDE DEF Upto, place
  <2>1. \A i \in 1..n : place[i] \in Int
    BY <1>1, <1>6
  <2> QED BY <1>7, <1>8, <2>1
<1>10. \A k \in 1..n : \E i \in 1..n : place[i] = k
  <2>1. place \in [1..n -> 1..n]
    BY <1>6
  <2> HIDE DEF Upto, place
  <2>2. place \in Injection(1..n, 1..n)
    BY <1>9, <2>1 DEF Injection, IsInjective
  <2>3. place \in Surjection(1..n, 1..n)
    BY <1>5, <2>2, FS_Injection
  <2> QED BY <2>3 DEF Surjection
<1>11. \A k \in 1..n : q[k] \in 1..n /\ place[q[k]] = k
  <2> HIDE DEF place
  <2> QED BY <1>10
<1>12. Sorted(s) = [k \in 1..n |-> s[q[k]]]
  <2> HIDE DEF place
  <2> QED BY <1>3
<1>13. /\ q \in [1..n -> 1..n]
       /\ \A i, j \in 1..n : q[i] = q[j] => i = j
       /\ \A i \in 1..n : \E k \in 1..n : q[k] = i
  <2>1. \A i \in 1..n : place[i] \in 1..n
    BY <1>6
  <2>2. q \in [1..n -> 1..n]
    BY <1>11
  <2> HIDE DEF place, Upto, q
  <2> QED BY <1>9, <1>11, <2>1, <2>2
<1> HIDE DEF q
<1>14. Sorted(s) \in Seq(S) /\ Len(Sorted(s)) = n /\ \A k \in 1..n : Sorted(s)[k] = s[q[k]]
  <2>1. Sorted(s) \in [1..n -> S]
    BY <1>1, <1>12, <1>13
  <2>2. \A f \in [1..n -> S] : f \in Seq(S) /\ Len(f) = n
    BY <1>1
  <2>3. \A k \in 1..n : Sorted(s)[k] = s[q[k]]
    BY <1>12
  <2> QED BY <2>1, <2>2, <2>3
<1>15. Reorders(Sorted(s), s, q)
  BY <1>13, <1>14 DEF Reorders, n
<1>16. Rated(Sorted(s))
  BY <1>1, <1>13, <1>14 DEF Rated
<1>17. Descending(Sorted(s))
  <2> SUFFICES ASSUME NEW k \in 1..n, NEW l \in 1..n, k <= l,
                      ~(s[q[k]].fitness >= s[q[l]].fitness)
               PROVE  FALSE
    BY <1>14 DEF Descending
  <2>1. q[k] \in 1..n /\ q[l] \in 1..n
    BY <1>13
  <2>2. s[q[l]].fitness > s[q[k]].fitness /\ q[l] # q[k]
    BY <1>1, <2>1
  <2>3. q[l] \in Upto(q[k])
    BY <1>1, <2>1, <2>2
  <2>4. place[q[l]] < place[q[k]]
    <3> HIDE DEF place, Upto
    <3> QED BY <1>7, <2>1, <2>2, <2>3
  <2>5. place[q[l]] = l /\ place[q[k]] = k
    <3> HIDE DEF place
    <3> QED BY <1>11
  <2> HIDE DEF place
  <2> QED BY <1>1, <2>4, <2>5
<1> QED BY <1>14, <1>15, <1>16, <1>17

(* The first of a sequence: an element of it is one of the whole, and      *)
(* of those at the front of a descending one as many as fit.               *)
AtLeast(S, v) == {x \in S : x.fitness >= v}

(* The first n elements of a sequence, or all there are.                   *)
LEMMA FirstIs ==
    ASSUME NEW S, NEW s \in Seq(S), NEW n \in Nat
    PROVE  /\ First(s, n) \in Seq(S)
           /\ Len(First(s, n)) = IF n <= Len(s) THEN n ELSE Len(s)
           /\ \A i \in 1..Len(First(s, n)) : i \in 1..Len(s) /\ First(s, n)[i] = s[i]
<1> DEFINE m == Min({n, Len(s)})
<1>1. Len(s) \in Nat /\ \A i \in 1..Len(s) : s[i] \in S
  OBVIOUS
<1>2. m = IF n <= Len(s) THEN n ELSE Len(s)
  <2>1. n \in Int /\ Len(s) \in Int
    BY <1>1
  <2> QED BY <2>1, OfTwo
<1>3. First(s, n) = SubSeq(s, 1, m)
  BY DEF First
<1> HIDE DEF m
<1>4. m \in Nat /\ m <= Len(s) /\ \A i \in 1..m : i \in 1..Len(s) /\ s[i] \in S
  BY <1>1, <1>2
<1>5. /\ SubSeq(s, 1, m) \in Seq(S) /\ Len(SubSeq(s, 1, m)) = IF 1 <= m THEN m - 1 + 1 ELSE 0
      /\ \A i \in 1..(m - 1 + 1) : SubSeq(s, 1, m)[i] = s[1 + i - 1]
  BY <1>4, SubSeqProperties
<1>6. Len(SubSeq(s, 1, m)) = m /\ \A i \in 1..m : SubSeq(s, 1, m)[i] = s[i]
  BY <1>4, <1>5
<1> QED BY <1>2, <1>3, <1>4, <1>5, <1>6

(* Cutting a sequence loses hits only.                                     *)
LEMMA FirstHits ==
    ASSUME NEW S, NEW s \in Seq(S), NEW n \in Nat, NEW P
    PROVE  Hits(First(s, n), P) <= Hits(s, P)
<1>1. Spots(First(s, n), P) \in SUBSET Spots(s, P)
  BY FirstIs DEF Spots
<1>2. IsFiniteSet(Spots(s, P))
  BY HitsAre
<1> QED BY <1>1, <1>2, FS_Subset DEF Hits

(* Cutting a descending sequence to n loses none of those at or above a    *)
(* fitness, unless n of them stay.                                         *)
LEMMA BestHits ==
    ASSUME NEW S, NEW s \in Seq(S), Rated(s), Descending(s), NEW n \in Nat, NEW v \in Int
    PROVE  Hits(First(s, n), AtLeast(S, v)) >= n \/ Hits(First(s, n), AtLeast(S, v)) = Hits(s, AtLeast(S, v))
<1> DEFINE P == AtLeast(S, v)
           t == First(s, n)
<1>1. /\ t \in Seq(S) /\ Len(s) \in Nat /\ Len(t) = IF n <= Len(s) THEN n ELSE Len(s)
      /\ \A i \in 1..Len(t) : i \in 1..Len(s) /\ t[i] = s[i]
  BY FirstIs
<1>2. \A i \in 1..Len(s) : s[i] \in P <=> s[i].fitness >= v
  BY DEF AtLeast
<1> HIDE DEF P, t
<1>3. CASE \A i \in 1..Len(t) : t[i] \in P
  <2>1. Spots(t, P) = 1..Len(t)
    BY <1>3 DEF Spots
  <2>2. Len(t) \in Nat
    BY <1>1
  <2>3. Hits(t, P) = Len(t)
    <3>1. Cardinality(1..Len(t)) = Len(t)
      BY <2>2, CountUpTo
    <3> QED BY <2>1, <3>1 DEF Hits
  <2>4. CASE n <= Len(s)
    BY <1>1, <2>3, <2>4 DEF P, t
  <2>5. CASE ~(n <= Len(s))
    <3>1. Len(t) = Len(s)
      BY <1>1, <2>5
    <3>2. Spots(s, P) = Spots(t, P)
      BY <1>1, <3>1 DEF Spots
    <3> QED BY <3>2 DEF Hits, P, t
  <2> QED BY <2>4, <2>5
<1>4. CASE \E i \in 1..Len(t) : t[i] \notin P
  <2>1. PICK i \in 1..Len(t) : t[i] \notin P
    BY <1>4
  <2>2. i \in 1..Len(s) /\ ~(s[i].fitness >= v)
    BY <1>1, <1>2, <2>1
  <2>3. ASSUME NEW j \in 1..Len(s), s[j] \in P
        PROVE  j \in 1..Len(t) /\ t[j] \in P
    <3>1. s[j].fitness >= v /\ s[j].fitness \in Int /\ s[i].fitness \in Int
      BY <1>2, <2>2, <2>3 DEF Rated
    <3>2. ~(i <= j)
      BY <2>2, <3>1 DEF Descending
    <3>3. j \in 1..Len(t)
      BY <1>1, <2>1, <3>2
    <3> QED BY <1>1, <2>3, <3>3
  <2>4. Spots(s, P) = Spots(t, P)
    BY <1>1, <2>3 DEF Spots
  <2> QED BY <2>4 DEF Hits, P, t
<1> QED BY <1>3, <1>4

\* Elements above the threshold
Above(P) == {x \in P : x.fitness > FameThreshold}

\* The loop that picks the worthy out of s
Picking(found, s) ==
    /\ found[0] = <<>>
    /\ \A i \in 1..Len(s) :
          found[i] = IF s[i].fitness > FameThreshold THEN Append(found[i - 1], s[i]) ELSE found[i - 1]

(* The individuals above the threshold are picked one by one, in order.    *)
LEMMA WorthyPicks ==
    ASSUME NEW S, NEW s \in Seq(S)
    PROVE  \E found \in [0..Len(s) -> Seq(S)] : Picking(found, s) /\ Worthy(s) = found[Len(s)]
<1> DEFINE n == Len(s)
           step == [i \in 1..n |-> [found \in Seq(S) |->
                      IF s[i].fitness > FameThreshold THEN Append(found, s[i]) ELSE found]]
           Loop(found) == found = [i \in 0..n |->
                      IF i = 0 THEN <<>>
                      ELSE IF s[i].fitness > FameThreshold THEN Append(found[i - 1], s[i])
                      ELSE found[i - 1]]
           last == CHOOSE found : Loop(found)
<1>1. Worthy(s) = last[n]
  BY DEF Worthy
<1>2. n \in Nat /\ \A i \in 1..n : s[i] \in S
  OBVIOUS
<1>3. step \in StepsOn(n, Seq(S))
  <2>1. ASSUME NEW i \in 1..n, NEW found \in Seq(S)
        PROVE  (IF s[i].fitness > FameThreshold THEN Append(found, s[i]) ELSE found) \in Seq(S)
    BY <1>2
  <2> QED BY <2>1 DEF StepsOn
<1>4. PICK g \in [0..n -> Seq(S)] : g[0] = <<>> /\ \A i \in 1..n : g[i] = step[i][g[i - 1]]
  <2>1. \E found : Follows(found, n, Seq(S), <<>>, step)
    <3>1. <<>> \in Seq(S)
      OBVIOUS
    <3> HIDE DEF step, n
    <3> QED BY <1>2, <1>3, <3>1, RecursionUpTo
  <2> HIDE DEF step, n
  <2> QED BY <2>1 DEF Follows
<1>5. ASSUME NEW i \in 1..n
      PROVE  g[i] = IF s[i].fitness > FameThreshold THEN Append(g[i - 1], s[i]) ELSE g[i - 1]
  <2>1. i - 1 \in 0..n
    BY <1>2
  <2>2. g[i - 1] \in Seq(S)
    BY <1>4, <2>1
  <2>3. g[i] = step[i][g[i - 1]]
    BY <1>4
  <2> QED BY <2>2, <2>3
<1>6. Loop(g)
  <2> DEFINE rhs == [i \in 0..n |->
                       IF i = 0 THEN <<>>
                       ELSE IF s[i].fitness > FameThreshold THEN Append(g[i - 1], s[i])
                       ELSE g[i - 1]]
  <2>1. ASSUME NEW i \in 0..n PROVE g[i] = rhs[i]
    <3>1. CASE i = 0
      BY <1>4, <3>1
    <3>2. CASE i # 0
      <4>1. i \in 1..n
        BY <1>2, <3>2
      <4> QED BY <1>5, <3>2, <4>1
    <3> QED BY <3>1, <3>2
  <2>2. g = rhs
    <3> HIDE DEF rhs
    <3>1. g = [i \in 0..n |-> g[i]]
      BY <1>4
    <3>2. rhs = [i \in 0..n |-> rhs[i]]
      BY DEF rhs
    <3> QED BY <2>1, <3>1, <3>2
  <2> QED BY <2>2
<1>7. Loop(last)
  <2> HIDE DEF Loop
  <2> QED BY <1>6
<1>8. last = g
  <2> DEFINE B == {i \in 0..n : last[i] = g[i]}
  <2>1. /\ last = [i \in 0..n |-> last[i]] /\ last[0] = <<>>
        /\ \A i \in 1..n : last[i] = IF s[i].fitness > FameThreshold THEN Append(last[i - 1], s[i])
                                     ELSE last[i - 1]
    <3> HIDE DEF last
    <3> DEFINE body == [i \in 0..n |->
                          IF i = 0 THEN <<>>
                          ELSE IF s[i].fitness > FameThreshold THEN Append(last[i - 1], s[i])
                          ELSE last[i - 1]]
    <3>1. last = body
      BY <1>7
    <3>2. body = [i \in 0..n |-> body[i]] /\ body[0] = <<>>
      BY <1>2
    <3>3. ASSUME NEW i \in 1..n
          PROVE  body[i] = IF s[i].fitness > FameThreshold THEN Append(last[i - 1], s[i])
                           ELSE last[i - 1]
      <4>1. i \in 0..n /\ i # 0
        BY <1>2
      <4> QED BY <4>1
    <3> HIDE DEF body
    <3> QED BY <3>1, <3>2, <3>3
  <2> HIDE DEF last
  <2>2. 0 \in B
    BY <1>2, <1>4, <2>1
  <2>3. ASSUME NEW i \in 1..n, i - 1 \in B PROVE i \in B
    <3>1. i \in 0..n /\ last[i - 1] = g[i - 1]
      BY <1>2, <2>3
    <3>2. last[i] = IF s[i].fitness > FameThreshold THEN Append(last[i - 1], s[i]) ELSE last[i - 1]
      BY <2>1
    <3> QED BY <1>5, <3>1, <3>2
  <2>4. 0..n \subseteq B
    <3> HIDE DEF B
    <3> QED BY <1>2, <2>2, <2>3, EveryNumberUpTo
  <2>5. \A i \in 0..n : last[i] = g[i]
    BY <2>4
  <2>6. g = [i \in 0..n |-> g[i]]
    BY <1>4
  <2> QED BY <2>1, <2>5, <2>6
<1> HIDE DEF last, Loop, step
<1>9. Picking(g, s)
  BY <1>4, <1>5 DEF Picking
<1> QED BY <1>1, <1>4, <1>8, <1>9

(* Exactly the individuals above the threshold are worthy of the hall of   *)
(* fame.                                                                   *)
LEMMA WorthyHits ==
    ASSUME NEW S, NEW s \in Seq(S), NEW P
    PROVE  Worthy(s) \in Seq(S) /\ Hits(Worthy(s), P) = Hits(s, Above(P))
<1> DEFINE n == Len(s)
           Count(m) == Cardinality({j \in 1..m : s[j] \in Above(P)})
<1>1. n \in Nat /\ \A i \in 1..n : s[i] \in S
  OBVIOUS
<1>2. PICK found \in [0..n -> Seq(S)] : Picking(found, s) /\ Worthy(s) = found[n]
  BY WorthyPicks
<1> DEFINE B == {m \in 0..n : Hits(found[m], P) = Count(m)}
<1>3. 0 \in B
  <2>1. found[0] = <<>> /\ 0 \in 0..n
    BY <1>1, <1>2 DEF Picking
  <2>2. Spots(<<>>, P) = {} /\ {j \in 1..0 : s[j] \in Above(P)} = {}
    BY DEF Spots
  <2> QED BY <2>1, <2>2 DEF Hits
<1>4. ASSUME NEW m \in 1..n, m - 1 \in B PROVE m \in B
  <2> DEFINE Old == {j \in 1..(m - 1) : s[j] \in Above(P)}
             New == {j \in 1..m : s[j] \in Above(P)}
  <2>1. m - 1 \in 0..n /\ m \in 0..n /\ m \in Nat /\ m - 1 \in Nat /\ s[m] \in S
    BY <1>1
  <2>2. found[m - 1] \in Seq(S) /\ Hits(found[m - 1], P) = Cardinality(Old)
    BY <1>2, <1>4, <2>1
  <2>3. found[m] = IF s[m].fitness > FameThreshold THEN Append(found[m - 1], s[m]) ELSE found[m - 1]
    BY <1>2 DEF Picking
  <2>4. Hits(found[m - 1], P) \in Nat
    BY <2>2, HitsAre
  <2>5. Old \subseteq 1..(m - 1) /\ m \notin Old /\ IsFiniteSet(Old)
    <3>1. Old \in SUBSET (1..(m - 1)) /\ m \notin Old
      BY <2>1
    <3>2. IsFiniteSet(1..(m - 1))
      BY <2>1, FS_Interval
    <3> HIDE DEF Old
    <3> QED BY <3>1, <3>2, FS_Subset
  <2>6. 1..m = 1..(m - 1) \cup {m}
    BY <2>1
  <2>7. New = IF s[m] \in Above(P) THEN Old \cup {m} ELSE Old
    <3> HIDE DEF n
    <3> QED BY <2>6
  <2> HIDE DEF Old, New
  <2>8. Cardinality(Old \cup {m}) = Cardinality(Old) + 1
    BY <2>5, FS_AddElement
  <2>9. Hits(found[m], P) = Cardinality(New)
    <3>1. CASE s[m].fitness > FameThreshold
      <4>1. Hits(found[m], P) = Hits(found[m - 1], P) + IF s[m] \in P THEN 1 ELSE 0
        BY <2>1, <2>2, <2>3, <3>1, HitsAppend
      <4>2. s[m] \in Above(P) <=> s[m] \in P
        BY <3>1 DEF Above
      <4>3. CASE s[m] \in P
        BY <2>2, <2>4, <2>7, <2>8, <4>1, <4>2, <4>3
      <4>4. CASE s[m] \notin P
        BY <2>2, <2>4, <2>7, <2>8, <4>1, <4>2, <4>4
      <4> QED BY <4>3, <4>4
    <3>2. CASE ~(s[m].fitness > FameThreshold)
      <4>1. s[m] \notin Above(P)
        BY <3>2 DEF Above
      <4> QED BY <2>2, <2>3, <2>7, <3>2, <4>1
    <3> QED BY <3>1, <3>2
  <2> QED BY <2>1, <2>9 DEF New
<1>5. 0..n \subseteq B
  <2> HIDE DEF B, n
  <2> QED BY <1>1, <1>3, <1>4, EveryNumberUpTo
<1>6. n \in B
  BY <1>1, <1>5
<1>7. Hits(Worthy(s), P) = Cardinality(Spots(s, Above(P)))
  BY <1>2, <1>6 DEF Spots
<1>8. Worthy(s) \in Seq(S)
  BY <1>1, <1>2
<1> QED BY <1>7, <1>8 DEF Hits

-----------------------------------------------------------------------------
(* Evolution: generations                                                  *)

\* The individuals there may be.
Pool == [born : 0..MaxGenerations, number : 1..PopulationSize, fitness : Fitnesses]

\* How many generations up to g have added s to the hall, if it lived on
Age(s, g) == IF s.born >= 1 THEN g - s.born + 1 ELSE g

\* A population of generation g, whose best has fitness best
Peopled(p, g, best) ==
    /\ p \in Seq(Pool) /\ Len(p) = PopulationSize
    /\ \A i, j \in 1..PopulationSize : p[i] = p[j] => i = j
    /\ \A i \in 1..PopulationSize : p[i].born <= g /\ p[i].fitness <= best
    /\ \E i \in 1..PopulationSize : p[i].fitness = best

\* A hall of fame in generation g: nobody is in it more often than added
Famed(h, g, best) ==
    /\ h \in Seq(Pool) /\ Len(h) <= FameSize /\ Descending(h)
    /\ \A i \in 1..Len(h) : /\ h[i].fitness > FameThreshold /\ h[i].fitness <= best
                            /\ h[i].born <= g
                            /\ Hits(h, {h[i]}) <= Age(h[i], g)

\* Everybody above the threshold is there with its betters, or has no room.
Crowded(p, h, g) ==
    \A i \in 1..PopulationSize : p[i].fitness > FameThreshold =>
       \/ Hits(h, AtLeast(Pool, p[i].fitness)) >= FameSize
       \/ Hits(h, AtLeast(Pool, p[i].fitness)) >= Age(p[i], g)

\* Individuals differ, the hall of fame holds a survivor at most once per
\* generation it lived, and everybody above the threshold as often, unless
\* its betters filled the hall.
EvolverIInv ==
    /\ generation \in 0..MaxGenerations /\ bestEver \in Fitnesses
    /\ Peopled(population, generation, bestEver)
    /\ Famed(fame, generation, bestEver)
    /\ Crowded(population, fame, generation)

(* The fields of an individual.                                            *)
LEMMA PoolIs ==
    ASSUME NEW s \in Pool
    PROVE  s.fitness \in Int /\ s.fitness \in Fitnesses /\ s.born \in Nat /\ s.born \in Int
<1>1. s.born \in 0..MaxGenerations /\ s.fitness \in Fitnesses
  BY DEF Pool
<1>2. Fitnesses \subseteq Int /\ MaxGenerations \in Nat
  BY EvolutionAssumption
<1>3. s.fitness \in Int
  BY <1>1, <1>2
<1>4. s.born \in Nat /\ s.born \in Int
  BY <1>1, <1>2
<1> QED BY <1>1, <1>3, <1>4

(* Every individual has a fitness.                                         *)
LEMMA PoolRated ==
    ASSUME NEW s \in Seq(Pool)
    PROVE  Rated(s)
BY PoolIs DEF Rated

(* How many generations an individual lived up to generation g.            *)
LEMMA AgeIs ==
    ASSUME NEW s \in Pool, NEW g \in Nat
    PROVE  /\ g - Max({s.born, 1}) + 1 = Age(s, g)
           /\ Age(s, g) \in Int /\ Age(s, g + 1) = Age(s, g) + 1
           /\ s.born <= g /\ g > 0 => Age(s, g) >= 1
<1>1. s.born \in Nat /\ s.born \in Int /\ 1 \in Int
  BY PoolIs
<1>2. Max({s.born, 1}) = IF s.born >= 1 THEN s.born ELSE 1
  BY <1>1, OfTwo
<1>3. g - Max({s.born, 1}) + 1 = Age(s, g)
  BY <1>1, <1>2 DEF Age
<1>4. Age(s, g) \in Int /\ Age(s, g + 1) = Age(s, g) + 1
  BY <1>1 DEF Age
<1>5. s.born <= g /\ g > 0 => Age(s, g) >= 1
  BY <1>1 DEF Age
<1> QED BY <1>3, <1>4, <1>5

(* The best fitness of a population is that of one of its individuals.     *)
LEMMA FittestIs ==
    ASSUME NEW p \in Seq(Pool), Len(p) = PopulationSize
    PROVE  /\ \E i \in 1..PopulationSize : p[i].fitness = Fittest(p)
           /\ \A i \in 1..PopulationSize : p[i].fitness <= Fittest(p)
           /\ Fittest(p) \in Fitnesses /\ Fittest(p) \in Int
<1> DEFINE f == [i \in 1..PopulationSize |-> p[i].fitness]
           S == {f[i] : i \in 1..PopulationSize}
<1>1. PopulationSize \in Nat \ {0} /\ DOMAIN p = 1..PopulationSize
  BY EvolutionAssumption
<1>2. \A i \in 1..PopulationSize : f[i] = p[i].fitness /\ p[i].fitness \in Int /\ p[i].fitness \in Fitnesses
  BY <1>1, PoolIs
<1>3. Fittest(p) = Max({p[i].fitness : i \in 1..PopulationSize})
  BY <1>1 DEF Fittest
<1>4. {p[i].fitness : i \in 1..PopulationSize} = S
  BY <1>2
<1> HIDE DEF f
<1>5. IsFiniteSet(1..PopulationSize) /\ 1 \in 1..PopulationSize
  BY <1>1, CountUpTo
<1>6. IsFiniteSet(S) /\ S # {} /\ \A x \in S : x \in Int
  BY <1>2, <1>5, RangeIsFinite
<1> HIDE DEF S
<1>7. Max(S) \in S /\ \A y \in S : Max(S) >= y
  BY <1>6, MaxIs
<1> QED BY <1>2, <1>3, <1>4, <1>6, <1>7 DEF S

(* The inductive invariant implies what the run checks.                    *)
LEMMA EvolverInvHolds ==
    ASSUME EvolverIInv
    PROVE  EvolverTypeOK /\ BestSurvives
<1>1. /\ generation \in 0..MaxGenerations /\ generation \in Nat /\ bestEver \in Fitnesses
      /\ population \in Seq(Pool) /\ Len(population) = PopulationSize
      /\ fame \in Seq(Pool) /\ Len(fame) <= FameSize /\ bestEver \in Int
      /\ PopulationSize \in Nat \ {0} /\ FameSize \in Nat \ {0}
  BY EvolutionAssumption DEF EvolverIInv, Peopled, Famed
<1>2. EvolverTypeOK
  BY <1>1 DEF EvolverTypeOK, Pool
<1>3. DOMAIN fame = 1..Len(fame) /\ DOMAIN population = 1..PopulationSize /\ Len(fame) \in Nat
  BY <1>1
<1>4. \A i \in 1..Len(fame) : fame[i] \in Pool /\ fame[i].fitness \in Int
  BY <1>1, PoolIs
<1>5. \A i \in 1..PopulationSize : population[i] \in Pool /\ population[i].fitness \in Int
  BY <1>1, PoolIs
<1>6. Fittest(population) = bestEver
  <2>1. /\ \E i \in 1..PopulationSize : population[i].fitness = Fittest(population)
        /\ \A i \in 1..PopulationSize : population[i].fitness <= Fittest(population)
        /\ Fittest(population) \in Int
    BY <1>1, FittestIs
  <2>2. /\ \A i \in 1..PopulationSize : population[i].fitness <= bestEver
        /\ \E i \in 1..PopulationSize : population[i].fitness = bestEver
    BY DEF EvolverIInv, Peopled
  <2> QED BY <1>1, <2>1, <2>2
<1>7. ASSUME generation > 0, bestEver > FameThreshold
      PROVE  fame # <<>> /\ fame[1].fitness = bestEver
  <2>1. PICK i \in 1..PopulationSize : population[i].fitness = bestEver
    BY DEF EvolverIInv, Peopled
  <2> DEFINE P == AtLeast(Pool, bestEver)
  <2>2. Age(population[i], generation) >= 1
    <3>1. population[i].born <= generation
      BY DEF EvolverIInv, Peopled
    <3> QED BY <1>1, <1>5, <1>7, <3>1, AgeIs
  <2>3. Hits(fame, P) >= FameSize \/ Hits(fame, P) >= Age(population[i], generation)
    BY <1>7, <2>1 DEF EvolverIInv, Crowded
  <2>4. Hits(fame, P) \in Nat /\ Age(population[i], generation) \in Int
    <3>1. Age(population[i], generation) \in Int
      BY <1>1, <1>5, AgeIs
    <3> HIDE DEF P
    <3> QED BY <1>1, <3>1, HitsAre
  <2>5. Hits(fame, P) # 0
    BY <1>1, <2>2, <2>3, <2>4
  <2>6. PICK k \in 1..Len(fame) : fame[k] \in P
    <3> HIDE DEF P
    <3> QED BY <1>1, <2>5, HitsAre
  <2>7. fame[k].fitness >= bestEver
    BY <2>6 DEF AtLeast
  <2>8. 1 \in 1..Len(fame) /\ 1 <= k
    BY <1>3
  <2>9. fame[1].fitness >= fame[k].fitness /\ fame[1].fitness <= bestEver
    BY <2>8 DEF EvolverIInv, Famed, Descending
  <2> QED BY <1>1, <1>4, <2>7, <2>8, <2>9
<1>8. ASSUME NEW i \in DOMAIN fame
      PROVE  /\ fame[i].fitness > FameThreshold
             /\ i > 1 => fame[i - 1].fitness >= fame[i].fitness
             /\ Copies(fame[i]) <= Added(fame[i])
  <2>1. i \in 1..Len(fame)
    BY <1>3
  <2>2. fame[i].fitness > FameThreshold /\ Hits(fame, {fame[i]}) <= Age(fame[i], generation)
    BY <2>1 DEF EvolverIInv, Famed
  <2>3. i > 1 => fame[i - 1].fitness >= fame[i].fitness
    <3>1. i > 1 => i - 1 \in 1..Len(fame) /\ i - 1 <= i
      BY <2>1
    <3> QED BY <2>1, <3>1 DEF EvolverIInv, Famed, Descending
  <2>4. Copies(fame[i]) = Hits(fame, {fame[i]})
    <3>1. {j \in DOMAIN fame : fame[j] = fame[i]} = Spots(fame, {fame[i]})
      BY <1>3 DEF Spots
    <3> QED BY <3>1 DEF Copies, Hits
  <2>5. Added(fame[i]) = Age(fame[i], generation)
    BY <1>1, <1>4, <2>1, AgeIs DEF Added
  <2> QED BY <2>2, <2>3, <2>4, <2>5
<1>9. ASSUME generation > 0, population[1].fitness > FameThreshold
      PROVE  Cardinality({i \in DOMAIN fame : fame[i].fitness >= population[1].fitness})
                >= Min({FameSize, Added(population[1])})
  <2> DEFINE leader == population[1]
             P == AtLeast(Pool, leader.fitness)
  <2>1. 1 \in 1..PopulationSize /\ leader \in Pool
    BY <1>1, <1>5
  <2>2. Hits(fame, P) >= FameSize \/ Hits(fame, P) >= Age(leader, generation)
    BY <1>9, <2>1 DEF EvolverIInv, Crowded
  <2>3. {i \in DOMAIN fame : fame[i].fitness >= leader.fitness} = Spots(fame, P)
    BY <1>3, <1>4 DEF Spots, AtLeast
  <2>4. Added(leader) = Age(leader, generation) /\ Age(leader, generation) \in Int
    <3> HIDE DEF leader
    <3> QED BY <1>1, <2>1, AgeIs DEF Added
  <2>5. Hits(fame, P) \in Nat
    <3> HIDE DEF P
    <3> QED BY <1>1, HitsAre
  <2> HIDE DEF leader
  <2>6. FameSize \in Int /\ Added(leader) \in Int
    BY <1>1, <2>4
  <2>7. Min({FameSize, Added(leader)}) = IF FameSize <= Added(leader) THEN FameSize ELSE Added(leader)
    BY <2>6, OfTwo
  <2> HIDE DEF P
  <2>8. Hits(fame, P) >= Min({FameSize, Added(leader)})
    BY <1>1, <2>2, <2>4, <2>5, <2>6, <2>7
  <2> QED BY <2>3, <2>8 DEF Hits, leader
<1>10. BestSurvives
  BY <1>6, <1>7, <1>8, <1>9 DEF BestSurvives
<1> QED BY <1>2, <1>10

(* The newborns of a generation, numbered.                                 *)
LEMMA NewbornIs ==
    ASSUME NEW m \in 0..PopulationSize, NEW fits \in [1..m -> Fitnesses], NEW g \in 0..MaxGenerations
    PROVE  /\ Newborn(g, fits) \in Seq(Pool) /\ Len(Newborn(g, fits)) = m
           /\ \A i \in 1..m : Newborn(g, fits)[i].born = g /\ Newborn(g, fits)[i].number = i
<1>1. m \in Nat /\ PopulationSize \in Nat
  BY EvolutionAssumption
<1>2. Newborn(g, fits) = [i \in 1..m |-> [born |-> g, number |-> i, fitness |-> fits[i]]]
  BY DEF Newborn, Individual
<1>3. ASSUME NEW i \in 1..m
      PROVE  [born |-> g, number |-> i, fitness |-> fits[i]] \in Pool
  BY <1>1 DEF Pool
<1>4. Newborn(g, fits) \in [1..m -> Pool]
  BY <1>2, <1>3
<1>5. \A f \in [1..m -> Pool] : f \in Seq(Pool) /\ Len(f) = m
  BY <1>1
<1>6. \A i \in 1..m : Newborn(g, fits)[i].born = g /\ Newborn(g, fits)[i].number = i
  BY <1>2
<1> QED BY <1>4, <1>5, <1>6

(* The invariant holds of the first population.                            *)
LEMMA EvolverInitHolds ==
    ASSUME EvolverInit
    PROVE  EvolverIInv
<1>1. /\ PopulationSize \in Nat \ {0} /\ MaxGenerations \in Nat /\ FameSize \in Nat \ {0}
      /\ generation = 0 /\ fame = <<>> /\ bestEver = Fittest(population)
      /\ generation \in 0..MaxGenerations /\ PopulationSize \in 0..PopulationSize
  BY EvolutionAssumption DEF EvolverInit
<1>2. PICK fits \in [1..PopulationSize -> Fitnesses] : population = Newborn(0, fits)
  BY DEF EvolverInit
<1>3. /\ population \in Seq(Pool) /\ Len(population) = PopulationSize
      /\ \A i \in 1..PopulationSize : population[i].born = 0 /\ population[i].number = i
  BY <1>1, <1>2, NewbornIs
<1>4. Peopled(population, generation, bestEver) /\ bestEver \in Fitnesses
  <2>1. \A i, j \in 1..PopulationSize : population[i] = population[j] => i = j
    BY <1>3
  <2>2. \A i \in 1..PopulationSize : population[i].born <= generation
    BY <1>1, <1>3
  <2> QED BY <1>1, <1>3, <2>1, <2>2, FittestIs DEF Peopled
<1>5. fame \in Seq(Pool) /\ Len(fame) = 0 /\ 1..Len(fame) = {}
  BY <1>1
<1>6. Famed(fame, generation, bestEver)
  BY <1>1, <1>5 DEF Famed, Descending
<1>7. Crowded(population, fame, generation)
  <2>1. ASSUME NEW i \in 1..PopulationSize
        PROVE  Hits(fame, AtLeast(Pool, population[i].fitness)) >= Age(population[i], generation)
    <3>1. Age(population[i], generation) = 0
      BY <1>1, <1>3 DEF Age
    <3> DEFINE P == AtLeast(Pool, population[i].fitness)
    <3> HIDE DEF P
    <3>2. Hits(fame, P) \in Nat
      BY <1>5, HitsAre
    <3> USE DEF P
    <3> QED BY <3>1, <3>2
  <2> QED BY <2>1 DEF Crowded
<1> QED BY <1>1, <1>4, <1>6, <1>7 DEF EvolverIInv

\* What evolve_generation makes of p, with newborns n
Elite(p) == First(Ranked(p), EliteCount)

\* The next population is a generation on, with the best of all as its best.
Follow(p, g, best, next, now) ==
    /\ Peopled(next, g + 1, now) /\ now \in Fitnesses /\ best <= now
    /\ \A i \in 1..PopulationSize :
          next[i].born = g + 1 \/ \E k \in 1..PopulationSize : next[i] = p[k]

(* The elite and the newborns make a population again, and the best        *)
(* fitness ever is kept.                                                   *)
LEMMA Succeeds ==
    ASSUME NEW g \in 0..(MaxGenerations - 1), NEW best \in Fitnesses, NEW p, Peopled(p, g, best),
           NEW fits \in [1..PopulationSize - EliteCount -> Fitnesses], NEW next,
           next = Elite(p) \o Newborn(g + 1, fits)
    PROVE  Follow(p, g, best, next, Max({best, Fittest(next)}))
<1> DEFINE m == PopulationSize - EliteCount
           elite == Elite(p)
           young == Newborn(g + 1, fits)
<1>1. /\ PopulationSize \in Nat \ {0} /\ EliteCount \in 1..PopulationSize /\ MaxGenerations \in Nat
      /\ m \in 0..PopulationSize /\ g \in Nat /\ g + 1 \in 0..MaxGenerations /\ EliteCount \in Nat
      /\ best \in Int
  <2>1. /\ PopulationSize \in Nat \ {0} /\ EliteCount \in 1..PopulationSize /\ MaxGenerations \in Nat
        /\ Fitnesses \subseteq Int
    BY EvolutionAssumption
  <2> QED BY <2>1
<1>2. /\ p \in Seq(Pool) /\ Len(p) = PopulationSize
      /\ \A i, j \in 1..PopulationSize : p[i] = p[j] => i = j
      /\ \A i \in 1..PopulationSize : p[i].born <= g /\ p[i].fitness <= best
      /\ \E i \in 1..PopulationSize : p[i].fitness = best
      /\ \A i \in 1..PopulationSize : p[i] \in Pool
  BY DEF Peopled
<1>3. /\ Sorted(p) \in Seq(Pool) /\ Rated(Sorted(p)) /\ Descending(Sorted(p))
      /\ \E q : Reorders(Sorted(p), p, q)
  BY <1>2, PoolRated, SortedIs
<1>4. PICK q : Reorders(Sorted(p), p, q)
  BY <1>3
<1>5. /\ q \in [1..PopulationSize -> 1..PopulationSize] /\ Len(Sorted(p)) = PopulationSize
      /\ \A i, j \in 1..PopulationSize : q[i] = q[j] => i = j
      /\ \A i \in 1..PopulationSize : \E k \in 1..PopulationSize : q[k] = i
      /\ \A k \in 1..PopulationSize : Sorted(p)[k] = p[q[k]]
  BY <1>2, <1>4 DEF Reorders
<1>6. /\ elite \in Seq(Pool) /\ Len(elite) = EliteCount
      /\ \A i \in 1..EliteCount : i \in 1..PopulationSize /\ elite[i] = p[q[i]]
  <2>1. elite = First(Sorted(p), EliteCount)
    BY DEF Elite, Ranked
  <2>2. /\ First(Sorted(p), EliteCount) \in Seq(Pool)
        /\ Len(First(Sorted(p), EliteCount)) =
              IF EliteCount <= Len(Sorted(p)) THEN EliteCount ELSE Len(Sorted(p))
        /\ \A i \in 1..Len(First(Sorted(p), EliteCount)) :
              i \in 1..Len(Sorted(p)) /\ First(Sorted(p), EliteCount)[i] = Sorted(p)[i]
    BY <1>1, <1>3, FirstIs
  <2> HIDE DEF elite
  <2>3. Len(elite) = EliteCount
    BY <1>1, <1>5, <2>1, <2>2
  <2> QED BY <1>1, <1>5, <2>1, <2>2, <2>3
<1> HIDE DEF elite, young, m
<1>7. /\ young \in Seq(Pool) /\ Len(young) = m
      /\ \A i \in 1..m : young[i].born = g + 1 /\ young[i].number = i
  <2>1. fits \in [1..m -> Fitnesses]
    BY DEF m
  <2>2. /\ Newborn(g + 1, fits) \in Seq(Pool) /\ Len(Newborn(g + 1, fits)) = m
        /\ \A i \in 1..m : Newborn(g + 1, fits)[i].born = g + 1 /\ Newborn(g + 1, fits)[i].number = i
    <3> DEFINE h == g + 1
    <3>1. h \in 0..MaxGenerations
      BY <1>1
    <3> HIDE DEF h
    <3>2. /\ Newborn(h, fits) \in Seq(Pool) /\ Len(Newborn(h, fits)) = m
          /\ \A i \in 1..m : Newborn(h, fits)[i].born = h /\ Newborn(h, fits)[i].number = i
      BY <1>1, <2>1, <3>1, NewbornIs
    <3> QED BY <3>2 DEF h
  <2> QED BY <2>2 DEF young
<1>8. /\ next \in Seq(Pool) /\ Len(next) = PopulationSize
      /\ \A i \in 1..PopulationSize : next[i] = IF i <= EliteCount THEN elite[i] ELSE young[i - EliteCount]
  <2>1. next = elite \o young
    BY DEF elite, young
  <2>2. EliteCount + m = PopulationSize
    BY <1>1 DEF m
  <2>3. /\ elite \o young \in Seq(Pool) /\ Len(elite \o young) = Len(elite) + Len(young)
        /\ \A i \in 1..Len(elite) + Len(young) :
              (elite \o young)[i] = IF i <= Len(elite) THEN elite[i] ELSE young[i - Len(elite)]
    BY <1>6, <1>7, ConcatProperties
  <2> QED BY <1>6, <1>7, <2>1, <2>2, <2>3
<1>9. ASSUME NEW i \in 1..PopulationSize
      PROVE  \/ i <= EliteCount /\ i \in 1..EliteCount /\ next[i] = p[q[i]] /\ q[i] \in 1..PopulationSize
             \/ ~(i <= EliteCount) /\ i - EliteCount \in 1..m /\ next[i] = young[i - EliteCount]
                /\ next[i].born = g + 1 /\ next[i].number = i - EliteCount
  <2>1. CASE i <= EliteCount
    <3>1. i \in 1..EliteCount
      BY <1>1, <2>1
    <3> QED BY <1>5, <1>6, <1>8, <2>1, <3>1
  <2>2. CASE ~(i <= EliteCount)
    <3>1. i - EliteCount \in 1..m
      BY <1>1, <2>2 DEF m
    <3> QED BY <1>7, <1>8, <2>2, <3>1
  <2> QED BY <2>1, <2>2
<1>10. ASSUME NEW i \in 1..PopulationSize, NEW j \in 1..PopulationSize, next[i] = next[j]
       PROVE  i = j
  <2>1. CASE i <= EliteCount /\ j <= EliteCount
    <3>1. p[q[i]] = p[q[j]] /\ q[i] \in 1..PopulationSize /\ q[j] \in 1..PopulationSize
      BY <1>9, <1>10, <2>1
    <3>2. q[i] = q[j]
      BY <1>2, <3>1
    <3> QED BY <1>5, <3>2
  <2>2. CASE ~(i <= EliteCount) /\ ~(j <= EliteCount)
    <3>1. i - EliteCount = j - EliteCount
      BY <1>9, <1>10, <2>2
    <3> QED BY <1>1, <3>1
  <2>3. ASSUME NEW k \in 1..PopulationSize, NEW l \in 1..PopulationSize,
               k <= EliteCount, ~(l <= EliteCount)
        PROVE  next[k] # next[l]
    <3>1. next[k] = p[q[k]] /\ q[k] \in 1..PopulationSize /\ next[l].born = g + 1
      BY <1>9, <2>3
    <3>2. next[k].born <= g /\ next[k] \in Pool
      BY <1>2, <3>1
    <3>3. ~(g + 1 <= g)
      BY <1>1
    <3> QED BY <3>1, <3>2, <3>3
  <2> QED BY <1>10, <2>1, <2>2, <2>3
<1>11. \A i \in 1..PopulationSize :
          next[i].born = g + 1 \/ \E k \in 1..PopulationSize : next[i] = p[k]
  BY <1>9
<1>12. \A i \in 1..PopulationSize : next[i].born <= g + 1
  <2>1. ASSUME NEW i \in 1..PopulationSize
        PROVE  next[i].born <= g + 1
    <3>1. CASE next[i].born = g + 1
      <4>1. g + 1 <= g + 1
        BY <1>1
      <4> QED BY <3>1, <4>1
    <3>2. CASE \E k \in 1..PopulationSize : next[i] = p[k]
      <4>1. PICK k \in 1..PopulationSize : next[i] = p[k]
        BY <3>2
      <4>2. p[k] \in Pool /\ p[k].born <= g
        BY <1>2
      <4>3. p[k].born \in Nat
        BY <4>2, PoolIs
      <4>4. p[k].born <= g + 1
        BY <1>1, <4>2, <4>3
      <4> QED BY <4>1, <4>4
    <3> QED BY <1>11, <3>1, <3>2
  <2> QED BY <2>1
<1>13. 1 \in 1..PopulationSize /\ next[1].fitness = best
  <2>1. 1 \in 1..PopulationSize /\ 1 \in 1..EliteCount /\ 1 <= EliteCount
    BY <1>1
  <2>2. next[1] = p[q[1]] /\ q[1] \in 1..PopulationSize /\ Sorted(p)[1] = p[q[1]]
    BY <1>5, <1>9, <2>1
  <2>3. PICK k \in 1..PopulationSize : p[q[k]].fitness = best
    BY <1>2, <1>5
  <2>4. 1 <= k /\ k \in 1..Len(Sorted(p)) /\ 1 \in 1..Len(Sorted(p)) /\ Sorted(p)[k] = p[q[k]]
    BY <1>5, <2>1
  <2>5. Sorted(p)[1].fitness >= Sorted(p)[k].fitness
    BY <1>3, <2>4 DEF Descending
  <2>6. p[q[1]].fitness >= best /\ p[q[1]].fitness <= best
    BY <1>2, <2>2, <2>3, <2>4, <2>5
  <2>7. p[q[1]].fitness \in Int
    BY <1>2, <2>2, PoolIs
  <2>8. p[q[1]].fitness = best
    BY <1>1, <2>6, <2>7
  <2> QED BY <2>1, <2>2, <2>8
<1>14. /\ \E i \in 1..PopulationSize : next[i].fitness = Fittest(next)
       /\ \A i \in 1..PopulationSize : next[i].fitness <= Fittest(next)
       /\ Fittest(next) \in Fitnesses /\ Fittest(next) \in Int
  BY <1>8, FittestIs
<1>15. Max({best, Fittest(next)}) = Fittest(next) /\ best <= Fittest(next)
  <2>1. best <= Fittest(next)
    BY <1>13, <1>14
  <2>2. Max({best, Fittest(next)}) = IF best >= Fittest(next) THEN best ELSE Fittest(next)
    BY <1>1, <1>14, OfTwo
  <2> QED BY <1>1, <1>14, <2>1, <2>2
<1>16. Peopled(next, g + 1, Fittest(next))
  BY <1>8, <1>10, <1>12, <1>14 DEF Peopled
<1> QED BY <1>11, <1>14, <1>15, <1>16 DEF Follow

\* What the hall becomes when the worthy of p are added
Hall(h, p) == First(Sorted(h \o Worthy(p)), FameSize)

(* What the next hall of fame holds of any kind of individual.             *)
LEMMA HallHits ==
    ASSUME NEW h \in Seq(Pool), NEW p \in Seq(Pool)
    PROVE  /\ Hall(h, p) \in Seq(Pool) /\ Len(Hall(h, p)) <= FameSize /\ Descending(Hall(h, p))
           /\ \A P : Hits(Hall(h, p), P) <= Hits(h, P) + Hits(p, Above(P))
           /\ \A v \in Int : \/ Hits(Hall(h, p), AtLeast(Pool, v)) >= FameSize
                             \/ Hits(Hall(h, p), AtLeast(Pool, v)) =
                                   Hits(h, AtLeast(Pool, v)) + Hits(p, Above(AtLeast(Pool, v)))
<1> DEFINE w == Worthy(p)
           x == h \o w
           t == Sorted(x)
           hall == First(t, FameSize)
<1>1. w \in Seq(Pool) /\ \A P : Hits(w, P) = Hits(p, Above(P))
  BY WorthyHits
<1> HIDE DEF w
<1>2. x \in Seq(Pool) /\ \A P : Hits(x, P) = Hits(h, P) + Hits(w, P)
  BY <1>1, ConcatProperties, HitsConcat
<1> HIDE DEF x
<1>3. t \in Seq(Pool) /\ Rated(t) /\ Descending(t) /\ \E q : Reorders(t, x, q)
  BY <1>2, PoolRated, SortedIs
<1> HIDE DEF t
<1>4. \A P : Hits(t, P) = Hits(x, P)
  BY <1>2, <1>3, HitsReordered
<1>5. FameSize \in Nat \ {0}
  BY EvolutionAssumption
<1>6. /\ hall \in Seq(Pool) /\ Len(hall) = IF FameSize <= Len(t) THEN FameSize ELSE Len(t)
      /\ \A i \in 1..Len(hall) : i \in 1..Len(t) /\ hall[i] = t[i]
  BY <1>3, <1>5, FirstIs
<1>7. \A P : Hits(hall, P) <= Hits(t, P)
  BY <1>3, <1>5, FirstHits
<1>8. \A v \in Int : \/ Hits(hall, AtLeast(Pool, v)) >= FameSize
                     \/ Hits(hall, AtLeast(Pool, v)) = Hits(t, AtLeast(Pool, v))
  BY <1>3, <1>5, BestHits
<1>9. Hall(h, p) = hall
  BY DEF Hall, hall, t, x, w
<1> HIDE DEF hall
<1>10. Len(hall) <= FameSize
  <2>1. Len(t) \in Nat
    BY <1>3
  <2> QED BY <1>5, <1>6, <2>1
<1>11. Descending(hall)
  BY <1>3, <1>6 DEF Descending
<1>12. \A P : Hits(t, P) = Hits(h, P) + Hits(p, Above(P))
  BY <1>1, <1>2, <1>4
<1> QED BY <1>6, <1>7, <1>8, <1>9, <1>10, <1>11, <1>12

\* Who is in the hall was there before or is a worthy one of p.
LEMMA HallMembers ==
    ASSUME NEW h \in Seq(Pool), NEW p \in Seq(Pool), NEW i \in 1..Len(Hall(h, p))
    PROVE  LET x == Hall(h, p)[i]
           IN  \/ \E k \in 1..Len(h) : h[k] = x
               \/ x.fitness > FameThreshold /\ \E k \in 1..Len(p) : p[k] = x
<1> DEFINE hall == Hall(h, p)
           x == hall[i]
           One == {x}
<1>1. hall \in Seq(Pool) /\ \A P : Hits(hall, P) <= Hits(h, P) + Hits(p, Above(P))
  BY HallHits
<1>2. hall[i] \in One /\ i \in 1..Len(hall)
  OBVIOUS
<1> HIDE DEF One, hall
<1>3. Hits(hall, One) \in Nat /\ Hits(h, One) \in Nat /\ Hits(p, Above(One)) \in Nat
  BY <1>1, HitsAre
<1>4. Hits(hall, One) # 0
  BY <1>1, <1>2, HitsAre
<1>5. Hits(h, One) # 0 \/ Hits(p, Above(One)) # 0
  <2>1. Hits(hall, One) <= Hits(h, One) + Hits(p, Above(One))
    BY <1>1
  <2> QED BY <1>3, <1>4, <2>1
<1>6. CASE Hits(h, One) # 0
  <2>1. PICK k \in 1..Len(h) : h[k] \in One
    BY <1>6, HitsAre
  <2> QED BY <2>1 DEF One, hall
<1>7. CASE Hits(p, Above(One)) # 0
  <2>1. PICK k \in 1..Len(p) : p[k] \in Above(One)
    BY <1>7, HitsAre
  <2>2. p[k] = x /\ x.fitness > FameThreshold
    BY <2>1 DEF Above, One
  <2> QED BY <2>2 DEF hall
<1> QED BY <1>5, <1>6, <1>7

\* Nobody is twice in a population.
LEMMA DistinctHits ==
    ASSUME NEW p \in Seq(Pool), \A i, j \in 1..Len(p) : p[i] = p[j] => i = j, NEW x
    PROVE  /\ Hits(p, Above({x})) <= 1
           /\ (\A i \in 1..Len(p) : p[i] # x) => Hits(p, Above({x})) = 0
<1> DEFINE P == Above({x})
<1>1. \A y \in P : y = x
  BY DEF Above
<1> HIDE DEF P
<1>2. ASSUME \A i \in 1..Len(p) : p[i] # x
      PROVE  Hits(p, P) = 0
  <2>1. Spots(p, P) = {}
    BY <1>1, <1>2 DEF Spots
  <2> QED BY <2>1, FS_EmptySet DEF Hits
<1>3. ASSUME NEW i \in 1..Len(p), p[i] = x
      PROVE  Hits(p, P) <= 1
  <2>1. Spots(p, P) \in SUBSET {i}
    BY <1>1, <1>3 DEF Spots
  <2>2. IsFiniteSet({i}) /\ Cardinality({i}) = 1
    BY FS_Singleton
  <2>3. Cardinality(Spots(p, P)) <= Cardinality({i})
    BY <2>1, <2>2, FS_Subset
  <2> QED BY <2>2, <2>3 DEF Hits
<1>4. Hits(p, P) <= 1
  <2>1. Hits(p, P) = 0 => Hits(p, P) <= 1
    OBVIOUS
  <2> QED BY <1>2, <1>3, <2>1
<1> QED BY <1>2, <1>4 DEF P

(* The hall of fame stays sorted, bounded and of individuals that lived.   *)
LEMMA HallStays ==
    ASSUME NEW g \in Nat, NEW best \in Int, NEW next, NEW h, NEW was \in Int, was <= best,
           Peopled(next, g + 1, best), Famed(h, g, was)
    PROVE  Famed(Hall(h, next), g + 1, best)
<1> DEFINE hall == Hall(h, next)
<1>1. /\ next \in Seq(Pool) /\ Len(next) = PopulationSize
      /\ \A i, j \in 1..Len(next) : next[i] = next[j] => i = j
      /\ \A i \in 1..Len(next) : next[i].born <= g + 1 /\ next[i].fitness <= best
  BY DEF Peopled
<1>2. /\ h \in Seq(Pool)
      /\ \A i \in 1..Len(h) : /\ h[i].fitness > FameThreshold /\ h[i].fitness <= was
                              /\ h[i].born <= g
                              /\ Hits(h, {h[i]}) <= Age(h[i], g)
  BY DEF Famed
<1>3. /\ hall \in Seq(Pool) /\ Len(hall) <= FameSize /\ Descending(hall)
      /\ \A P : Hits(hall, P) <= Hits(h, P) + Hits(next, Above(P))
  BY <1>1, <1>2, HallHits
<1>4. ASSUME NEW i \in 1..Len(hall)
      PROVE  /\ hall[i].fitness > FameThreshold /\ hall[i].fitness <= best
             /\ hall[i].born <= g + 1
             /\ Hits(hall, {hall[i]}) <= Age(hall[i], g + 1)
  <2> DEFINE x == hall[i]
             P == {x}
  <2>1. \/ \E k \in 1..Len(h) : h[k] = x
        \/ x.fitness > FameThreshold /\ \E k \in 1..Len(next) : next[k] = x
    BY <1>1, <1>2, HallMembers
  <2>2. x \in Pool
    BY <1>3
  <2> HIDE DEF hall
  <2>3. x.fitness \in Int /\ x.born \in Nat /\ FameThreshold \in Int
    BY <2>2, PoolIs, EvolutionAssumption
  <2>4. Age(x, g) \in Int /\ Age(x, g + 1) = Age(x, g) + 1 /\ (x.born <= g + 1 => Age(x, g + 1) >= 1)
    <3>1. Age(x, g) \in Int /\ Age(x, g + 1) = Age(x, g) + 1
      BY <2>2, AgeIs
    <3>2. x.born <= g + 1 => Age(x, g + 1) >= 1
      BY <2>3 DEF Age
    <3> QED BY <3>1, <3>2
  <2> HIDE DEF x
  <2>5. Hits(hall, P) <= Hits(h, P) + Hits(next, Above(P)) /\ Hits(next, Above(P)) <= 1
    BY <1>1, <1>3, DistinctHits
  <2>6. Hits(hall, P) \in Nat /\ Hits(h, P) \in Nat /\ Hits(next, Above(P)) \in Nat
    <3> HIDE DEF P
    <3> QED BY <1>1, <1>2, <1>3, HitsAre
  <2>7. CASE \E k \in 1..Len(h) : h[k] = x
    <3>1. PICK k \in 1..Len(h) : h[k] = x
      BY <2>7
    <3>2. /\ x.fitness > FameThreshold /\ x.fitness <= was /\ x.born <= g
          /\ Hits(h, P) <= Age(x, g)
      BY <1>2, <3>1
    <3> HIDE DEF P
    <3>3. Hits(hall, P) <= Age(x, g + 1)
      BY <2>4, <2>5, <2>6, <3>2
    <3>4. x.fitness <= best /\ x.born <= g + 1
      BY <2>3, <3>2
    <3> QED BY <3>2, <3>3, <3>4 DEF x, P
  <2>8. CASE /\ ~\E k \in 1..Len(h) : h[k] = x
             /\ x.fitness > FameThreshold /\ \E k \in 1..Len(next) : next[k] = x
    <3>1. x.fitness > FameThreshold /\ x.fitness <= best /\ x.born <= g + 1
      BY <1>1, <2>8
    <3>2. Hits(h, P) = 0
      <4>1. \A k \in 1..Len(h) : h[k] \notin P
        BY <2>8
      <4> HIDE DEF P
      <4> QED BY <1>2, <4>1, HitsAre
    <3> HIDE DEF P
    <3>3. Hits(hall, P) <= Age(x, g + 1)
      BY <2>4, <2>5, <2>6, <3>1, <3>2
    <3> QED BY <3>1, <3>3 DEF x, P
  <2> QED BY <2>1, <2>7, <2>8
<1> HIDE DEF hall
<1>5. Famed(hall, g + 1, best)
  BY <1>3, <1>4 DEF Famed
<1> QED BY <1>5 DEF hall

(* Whoever is worth it and not in the hall of fame as often as it lived    *)
(* was crowded out by better ones.                                         *)
LEMMA CrowdStays ==
    ASSUME NEW g \in Nat, NEW best, NEW next, NEW h \in Seq(Pool), NEW p \in Seq(Pool),
           Len(p) = PopulationSize, Peopled(next, g + 1, best), Crowded(p, h, g),
           \A i \in 1..PopulationSize :
              next[i].born = g + 1 \/ \E k \in 1..PopulationSize : next[i] = p[k]
    PROVE  Crowded(next, Hall(h, next), g + 1)
<1> DEFINE hall == Hall(h, next)
<1>1. next \in Seq(Pool) /\ Len(next) = PopulationSize
  BY DEF Peopled
<1>2. ASSUME NEW i \in 1..PopulationSize, next[i].fitness > FameThreshold
      PROVE  \/ Hits(hall, AtLeast(Pool, next[i].fitness)) >= FameSize
             \/ Hits(hall, AtLeast(Pool, next[i].fitness)) >= Age(next[i], g + 1)
  <2> DEFINE x == next[i]
             v == x.fitness
             P == AtLeast(Pool, v)
  <2>1. x \in Pool /\ v \in Int /\ x.born \in Nat /\ FameThreshold \in Int
    <3>1. x \in Pool
      BY <1>1
    <3> QED BY <3>1, PoolIs, EvolutionAssumption
  <2>2. Age(x, g) \in Int /\ Age(x, g + 1) = Age(x, g) + 1
    BY <2>1, AgeIs
  <2>3. x \in Above(P)
    BY <1>2, <2>1 DEF Above, AtLeast
  <2>4. \/ Hits(hall, P) >= FameSize
        \/ Hits(hall, P) = Hits(h, P) + Hits(next, Above(P))
    BY <1>1, <2>1, HallHits
  <2>5. x.born = g + 1 \/ \E k \in 1..PopulationSize : x = p[k]
    OBVIOUS
  <2>6. v > FameThreshold
    BY <1>2
  <2>7. \A k \in 1..PopulationSize : x = p[k] => Hits(h, P) >= FameSize \/ Hits(h, P) >= Age(x, g)
    BY <2>6 DEF Crowded
  <2>8. i \in 1..Len(next) /\ next[i] \in Above(P)
    BY <1>1, <2>3
  <2>9. hall \in Seq(Pool)
    BY <1>1, HallHits
  <2> HIDE DEF P, x, v, hall
  <2>10. Hits(next, Above(P)) \in Nat /\ Hits(h, P) \in Nat /\ Hits(next, Above(P)) # 0 /\ Hits(hall, P) \in Nat
    BY <1>1, <2>8, <2>9, HitsAre
  <2>11. FameSize \in Nat
    BY EvolutionAssumption
  <2>12. CASE x.born = g + 1
    <3>1. Age(x, g + 1) = 1
      BY <2>12 DEF Age
    <3> QED BY <2>4, <2>10, <2>11, <3>1 DEF P, x, v
  <2>13. CASE \E k \in 1..PopulationSize : x = p[k]
    <3>1. Hits(h, P) >= FameSize \/ Hits(h, P) >= Age(x, g)
      BY <2>7, <2>13
    <3>2. Hits(hall, P) >= FameSize \/ Hits(hall, P) >= Age(x, g + 1)
      BY <2>2, <2>4, <2>10, <2>11, <3>1
    <3> QED BY <3>2 DEF P, x, v
  <2> QED BY <2>5, <2>12, <2>13
<1> HIDE DEF hall
<1>3. Crowded(next, hall, g + 1)
  BY <1>2 DEF Crowded
<1> QED BY <1>3 DEF hall

(* Every generation keeps the invariant of the evolver.                    *)
LEMMA EvolverStep ==
    ASSUME EvolverIInv, EvolveGeneration \/ UNCHANGED evolverVars
    PROVE  EvolverIInv'
<1>1. CASE UNCHANGED evolverVars
  <2>1. UNCHANGED <<population, fame, generation, bestEver>>
    BY <1>1 DEF evolverVars
  <2> QED BY <2>1 DEF EvolverIInv
<1>2. CASE EvolveGeneration
  <2>1. /\ generation \in 0..MaxGenerations /\ bestEver \in Fitnesses /\ MaxGenerations \in Nat
        /\ Peopled(population, generation, bestEver) /\ Famed(fame, generation, bestEver)
        /\ Crowded(population, fame, generation)
    BY EvolutionAssumption DEF EvolverIInv
  <2>2. generation < MaxGenerations /\ generation' = generation + 1
    BY <1>2 DEF EvolveGeneration
  <2>3. PICK fits \in [1..PopulationSize - EliteCount -> Fitnesses] :
                population' = Elite(population) \o Newborn(generation + 1, fits)
    BY <1>2 DEF EvolveGeneration, Elite
  <2>4. fame' = Hall(fame, population') /\ bestEver' = Max({bestEver, Fittest(population')})
    BY <1>2 DEF EvolveGeneration, Hall
  <2>5. generation \in 0..(MaxGenerations - 1) /\ generation \in Nat /\ generation' \in 0..MaxGenerations
    BY <2>1, <2>2
  <2>6. /\ Peopled(population', generation + 1, bestEver') /\ bestEver' \in Fitnesses
        /\ bestEver <= bestEver'
        /\ \A i \in 1..PopulationSize :
              \/ population'[i].born = generation + 1
              \/ \E k \in 1..PopulationSize : population'[i] = population[k]
    <3>1. Peopled(population, generation, bestEver) /\ bestEver \in Fitnesses
      BY <2>1
    <3>2. Follow(population, generation, bestEver, population', Max({bestEver, Fittest(population')}))
      BY <2>3, <2>5, <3>1, Succeeds
    <3> QED BY <2>4, <3>2 DEF Follow
  <2>7. bestEver \in Int /\ bestEver' \in Int
    <3>1. Fitnesses \subseteq Int
      BY EvolutionAssumption
    <3> QED BY <2>1, <2>6, <3>1
  <2>8. Famed(Hall(fame, population'), generation + 1, bestEver')
    BY <2>1, <2>5, <2>6, <2>7, HallStays
  <2>9. Crowded(population', Hall(fame, population'), generation + 1)
    <3>1. fame \in Seq(Pool) /\ population \in Seq(Pool) /\ Len(population) = PopulationSize
      BY <2>1 DEF Famed, Peopled
    <3> QED BY <2>1, <2>5, <2>6, <3>1, CrowdStays
  <2> QED BY <2>2, <2>4, <2>5, <2>6, <2>8, <2>9 DEF EvolverIInv
<1> QED BY <1>1, <1>2

-----------------------------------------------------------------------------
(* Evolution: the entries of the written strategy                          *)

\* An entry signals a word.
Says(indicator, threshold, b, v, word) == EntrySignal(indicator, threshold, b, v) = word

(* The signal of an entry is long in the long zone and else short in the   *)
(* short zone.                                                             *)
LEMMA EntryMeans ==
    ASSUME NEW indicator, NEW t, NEW b, NEW v
    PROVE  /\ Says(indicator, t, b, v, "long") <=> LongZone(indicator, t, b, v)
           /\ Says(indicator, t, b, v, "short") <=>
                 ~LongZone(indicator, t, b, v) /\ ShortZone(indicator, t, b, v)
BY DEF Says, EntrySignal

\* The oscillators but one
Simple == {"rsi", "stochastic", "bb_bounce", "williams_r"}

(* The zones of the indicators, as comparisons of numbers.                 *)
LEMMA ZonesMean ==
    ASSUME NEW t \in Int, NEW b \in Int, NEW v \in Int
    PROVE  /\ LongZone("rsi", t, b, v) <=> v < 100 - t
           /\ ShortZone("rsi", t, b, v) <=> v > t
           /\ \A i \in {"stochastic", "bb_bounce"} :
                 (LongZone(i, t, b, v) <=> v < t) /\ (ShortZone(i, t, b, v) <=> v > 100 - t)
           /\ LongZone("williams_r", t, b, v) <=> v < t - 100
           /\ ShortZone("williams_r", t, b, v) <=> v > -t
           /\ LongZone("cci", t, b, v) <=> v < -Magnitude(2 * t - 100)
           /\ ShortZone("cci", t, b, v) <=> v > Magnitude(2 * t - 100)
           /\ \A i \in Crosses :
                 (LongZone(i, t, b, v) <=> b < 0 /\ v > 0) /\ (ShortZone(i, t, b, v) <=> b > 0 /\ v < 0)
           /\ LongZone("roc", t, b, v) <=> 10 * v > t
           /\ ShortZone("roc", t, b, v) <=> 10 * v < -t
<1>1. (LongZone("rsi", t, b, v) <=> v < 100 - t) /\ (ShortZone("rsi", t, b, v) <=> v > t)
  BY DEF LongZone, ShortZone, Crosses
<1>2. ASSUME NEW i \in {"stochastic", "bb_bounce"}
      PROVE  (LongZone(i, t, b, v) <=> v < t) /\ (ShortZone(i, t, b, v) <=> v > 100 - t)
  BY <1>2 DEF LongZone, ShortZone, Crosses
<1>3. (LongZone("williams_r", t, b, v) <=> v < t - 100) /\ (ShortZone("williams_r", t, b, v) <=> v > -t)
  BY DEF LongZone, ShortZone, Crosses
<1>4. /\ LongZone("cci", t, b, v) <=> v < -Magnitude(2 * t - 100)
      /\ ShortZone("cci", t, b, v) <=> v > Magnitude(2 * t - 100)
  BY DEF LongZone, ShortZone, Crosses
<1>5. ASSUME NEW i \in Crosses
      PROVE  (LongZone(i, t, b, v) <=> b < 0 /\ v > 0) /\ (ShortZone(i, t, b, v) <=> b > 0 /\ v < 0)
  BY <1>5 DEF LongZone, ShortZone, Crosses
<1>6. (LongZone("roc", t, b, v) <=> 10 * v > t) /\ (ShortZone("roc", t, b, v) <=> 10 * v < -t)
  BY DEF LongZone, ShortZone, Crosses
<1> QED BY <1>1, <1>2, <1>3, <1>4, <1>5, <1>6

\* All readings of an oscillator and their images
Mirrored(indicator, t) ==
    \A v \in Readings(indicator) :
       Says(indicator, t, 0, v, "short") <=> Says(indicator, t, 0, Mirror(indicator, v), "long")

(* Where the zones of an oscillator do not overlap, its entries mirror     *)
(* each other.                                                             *)
LEMMA MirroredMeans ==
    ASSUME NEW t \in 0..100, NEW indicator \in Oscillators
    PROVE  Mirrored(indicator, t) <=> CASE indicator = "cci" -> TRUE
                                       [] indicator = "rsi" -> t >= 50
                                       [] OTHER -> t <= 50
<1>1. CASE indicator = "rsi"
  <2> DEFINE V == 0..100
  <2>1. Readings(indicator) = V /\ \A v : Mirror(indicator, v) = 100 - v
    BY <1>1 DEF Readings, Mirror
  <2>2. ASSUME NEW v \in V
        PROVE  /\ Says("rsi", t, 0, v, "short") <=> ~(v < 100 - t) /\ v > t
               /\ Says("rsi", t, 0, 100 - v, "long") <=> 100 - v < 100 - t
    <3>1. ASSUME NEW w \in Int
          PROVE  /\ Says("rsi", t, 0, w, "long") <=> w < 100 - t
                 /\ Says("rsi", t, 0, w, "short") <=> ~(w < 100 - t) /\ w > t
      <4>1. t \in Int /\ 0 \in Int
        OBVIOUS
      <4>2. (LongZone("rsi", t, 0, w) <=> w < 100 - t) /\ (ShortZone("rsi", t, 0, w) <=> w > t)
        BY <4>1, ZonesMean
      <4> QED BY <4>2, EntryMeans
    <3>2. v \in Int /\ 100 - v \in Int
      BY <2>2
    <3> QED BY <3>1, <3>2
  <2>3. Mirrored(indicator, t) <=> \A v \in V : (~(v < 100 - t) /\ v > t) <=> (100 - v < 100 - t)
    BY <1>1, <2>1, <2>2 DEF Mirrored
  <2>4. t >= 50 => \A v \in V : (~(v < 100 - t) /\ v > t) <=> (100 - v < 100 - t)
    OBVIOUS
  <2>5. t < 50 => ~((~(50 < 100 - t) /\ 50 > t) <=> (100 - 50 < 100 - t)) /\ 50 \in V
    OBVIOUS
  <2>6. t < 50 => ~\A v \in V : (~(v < 100 - t) /\ v > t) <=> (100 - v < 100 - t)
    BY <2>5
  <2>7. t >= 50 \/ t < 50
    OBVIOUS
  <2> QED BY <1>1, <2>3, <2>4, <2>6, <2>7
<1>2. CASE indicator \in {"stochastic", "bb_bounce"}
  <2> DEFINE V == 0..100
  <2>1. Readings(indicator) = V /\ \A v : Mirror(indicator, v) = 100 - v
    BY <1>2 DEF Readings, Mirror
  <2>2. ASSUME NEW v \in V
        PROVE  /\ Says(indicator, t, 0, v, "short") <=> ~(v < t) /\ v > 100 - t
               /\ Says(indicator, t, 0, 100 - v, "long") <=> 100 - v < t
    <3>1. ASSUME NEW w \in Int
          PROVE  /\ Says(indicator, t, 0, w, "long") <=> w < t
                 /\ Says(indicator, t, 0, w, "short") <=> ~(w < t) /\ w > 100 - t
      <4>1. t \in Int /\ 0 \in Int
        OBVIOUS
      <4>2. (LongZone(indicator, t, 0, w) <=> w < t) /\ (ShortZone(indicator, t, 0, w) <=> w > 100 - t)
        BY <4>1, <1>2 DEF LongZone, ShortZone, Crosses
      <4> QED BY <4>2, EntryMeans
    <3>2. v \in Int /\ 100 - v \in Int
      BY <2>2
    <3> QED BY <3>1, <3>2
  <2>3. Mirrored(indicator, t) <=> \A v \in V : (~(v < t) /\ v > 100 - t) <=> (100 - v < t)
    BY <2>1, <2>2 DEF Mirrored
  <2>4. t <= 50 => \A v \in V : (~(v < t) /\ v > 100 - t) <=> (100 - v < t)
    OBVIOUS
  <2>5. t > 50 => ~((~(50 < t) /\ 50 > 100 - t) <=> (100 - 50 < t)) /\ 50 \in V
    OBVIOUS
  <2>6. t > 50 => ~\A v \in V : (~(v < t) /\ v > 100 - t) <=> (100 - v < t)
    BY <2>5
  <2>7. t <= 50 \/ t > 50
    OBVIOUS
  <2> QED BY <1>2, <2>3, <2>4, <2>6, <2>7
<1>3. CASE indicator = "williams_r"
  <2> DEFINE V == -100..0
  <2>1. Readings(indicator) = V /\ \A v : Mirror(indicator, v) = -100 - v
    BY <1>3 DEF Readings, Mirror
  <2>2. ASSUME NEW v \in V
        PROVE  /\ Says("williams_r", t, 0, v, "short") <=> ~(v < t - 100) /\ v > -t
               /\ Says("williams_r", t, 0, -100 - v, "long") <=> -100 - v < t - 100
    <3>1. ASSUME NEW w \in Int
          PROVE  /\ Says("williams_r", t, 0, w, "long") <=> w < t - 100
                 /\ Says("williams_r", t, 0, w, "short") <=> ~(w < t - 100) /\ w > -t
      <4>1. t \in Int /\ 0 \in Int
        OBVIOUS
      <4>2. (LongZone("williams_r", t, 0, w) <=> w < t - 100) /\ (ShortZone("williams_r", t, 0, w) <=> w > -t)
        BY <4>1, ZonesMean
      <4> QED BY <4>2, EntryMeans
    <3>2. v \in Int /\ -100 - v \in Int
      BY <2>2
    <3> QED BY <3>1, <3>2
  <2>3. Mirrored(indicator, t) <=> \A v \in V : (~(v < t - 100) /\ v > -t) <=> (-100 - v < t - 100)
    BY <1>3, <2>1, <2>2 DEF Mirrored
  <2>4. t <= 50 => \A v \in V : (~(v < t - 100) /\ v > -t) <=> (-100 - v < t - 100)
    OBVIOUS
  <2>5. t > 50 => ~((~(-50 < t - 100) /\ -50 > -t) <=> (-100 - (-50) < t - 100)) /\ -50 \in V
    OBVIOUS
  <2>6. t > 50 => ~\A v \in V : (~(v < t - 100) /\ v > -t) <=> (-100 - v < t - 100)
    BY <2>5
  <2>7. t <= 50 \/ t > 50
    OBVIOUS
  <2> QED BY <1>3, <2>3, <2>4, <2>6, <2>7
<1>4. CASE indicator = "cci"
  <2> DEFINE V == -150..150
             m == Magnitude(2 * t - 100)
  <2>1. Readings(indicator) = V /\ \A v : Mirror(indicator, v) = -v
    BY <1>4 DEF Readings, Mirror
  <2>2. m \in Nat
    BY DEF Magnitude
  <2>3. ASSUME NEW v \in V
        PROVE  /\ Says("cci", t, 0, v, "short") <=> ~(v < -m) /\ v > m
               /\ Says("cci", t, 0, -v, "long") <=> -v < -m
    <3>1. ASSUME NEW w \in Int
          PROVE  /\ Says("cci", t, 0, w, "long") <=> w < -m
                 /\ Says("cci", t, 0, w, "short") <=> ~(w < -m) /\ w > m
      <4>1. t \in Int /\ 0 \in Int
        OBVIOUS
      <4>2. (LongZone("cci", t, 0, w) <=> w < -m) /\ (ShortZone("cci", t, 0, w) <=> w > m)
        BY <4>1, ZonesMean
      <4> QED BY <4>2, EntryMeans
    <3>2. v \in Int /\ -v \in Int
      BY <2>3
    <3> HIDE DEF m
    <3> QED BY <3>1, <3>2
  <2> HIDE DEF m
  <2>4. \A v \in V : (~(v < -m) /\ v > m) <=> (-v < -m)
    BY <2>2
  <2>5. Mirrored(indicator, t)
    BY <1>4, <2>1, <2>3, <2>4 DEF Mirrored
  <2> QED BY <1>4, <2>5
<1> QED BY <1>1, <1>2, <1>3, <1>4 DEF Oscillators

(* The entries of crossing indicators and of the rate of change mirror     *)
(* each other.                                                             *)
LEMMA CrossesMirror ==
    ASSUME NEW t \in Nat, NEW indicator \in Crosses \cup {"roc"}, NEW b \in Int, NEW v \in Int
    PROVE  Says(indicator, t, b, v, "short") <=> Says(indicator, t, -b, -v, "long")
<1>1. -b \in Int /\ -v \in Int /\ t \in Int
  OBVIOUS
<1>2. CASE indicator \in Crosses
  <2>1. /\ LongZone(indicator, t, b, v) <=> b < 0 /\ v > 0
        /\ ShortZone(indicator, t, b, v) <=> b > 0 /\ v < 0
        /\ LongZone(indicator, t, -b, -v) <=> -b < 0 /\ -v > 0
    BY <1>1, <1>2, ZonesMean
  <2>2. (~(b < 0 /\ v > 0) /\ (b > 0 /\ v < 0)) <=> (-b < 0 /\ -v > 0)
    OBVIOUS
  <2> QED BY <2>1, <2>2, EntryMeans
<1>3. CASE indicator = "roc"
  <2>1. /\ LongZone("roc", t, b, v) <=> 10 * v > t
        /\ ShortZone("roc", t, b, v) <=> 10 * v < -t
        /\ LongZone("roc", t, -b, -v) <=> 10 * (-v) > t
    BY <1>1, ZonesMean
  <2>2. (~(10 * v > t) /\ 10 * v < -t) <=> 10 * (-v) > t
    OBVIOUS
  <2> QED BY <1>3, <2>1, <2>2, EntryMeans
<1> QED BY <1>2, <1>3

(* EntriesMirror: a reading is short exactly if its mirror image is long,  *)
(* for the thresholds said there and no others.                            *)
LEMMA EntriesAreMirrored == EntriesMirror
<1>1. ASSUME NEW indicator \in Oscillators, NEW threshold \in Thresholds
      PROVE  (\A v \in Readings(indicator) :
                EntrySignal(indicator, threshold, 0, v) = "short"
                <=> EntrySignal(indicator, threshold, 0, Mirror(indicator, v)) = "long")
             <=> CASE indicator = "cci" -> TRUE
                   [] indicator = "rsi" -> threshold >= 50
                   [] OTHER -> threshold <= 50
  <2>1. threshold \in 0..100
    BY EvolutionAssumption
  <2>2. Mirrored(indicator, threshold) <=> CASE indicator = "cci" -> TRUE
                                             [] indicator = "rsi" -> threshold >= 50
                                             [] OTHER -> threshold <= 50
    BY <2>1, MirroredMeans
  <2> QED BY <2>2 DEF Mirrored, Says
<1>2. ASSUME NEW indicator \in Crosses \cup {"roc"}, NEW threshold \in Thresholds,
             NEW b \in -11..11, NEW v \in -11..11
      PROVE  EntrySignal(indicator, threshold, b, v) = "short"
             <=> EntrySignal(indicator, threshold, -b, -v) = "long"
  <2>1. threshold \in 0..100
    BY EvolutionAssumption
  <2>2. threshold \in Nat /\ b \in Int /\ v \in Int
    BY <2>1
  <2> QED BY <2>2, CrossesMirror DEF Says
<1> QED BY <1>1, <1>2 DEF EntriesMirror

(* A generation does not trade, and a bar breeds nobody.                   *)
LEMMA EvolutionParted ==
    /\ EvolveGeneration => UNCHANGED traderVars
    /\ OnBar => UNCHANGED evolverVars
BY DEF EvolveGeneration, OnBar

(* The best of the population is the best there ever was and leads the     *)
(* hall of fame, an open trade of the written strategy has met none of its *)
(* exits, and the entries of an indicator mirror each other exactly for    *)
(* the thresholds said there (evolution/self_evolver.py).                  *)
THEOREM EvolutionKeepsTheBest ==
    EvolutionSpec => []( /\ EvolverTypeOK /\ BestSurvives
                         /\ TraderTypeOK /\ TradeBeforeExit /\ EntriesMirror )
<1>1. EvolverInit /\ TraderInit => EvolverIInv /\ TraderIInv
  BY EvolverInitHolds, TraderInitHolds
<1>2. [EvolveGeneration \/ OnBar]_evolutionVars =>
          /\ EvolveGeneration \/ UNCHANGED evolverVars
          /\ OnBar \/ UNCHANGED traderVars
  <2>1. UNCHANGED evolutionVars => UNCHANGED evolverVars /\ UNCHANGED traderVars
    BY DEF evolutionVars
  <2> QED BY <2>1, EvolutionParted
<1>3. EvolverIInv /\ TraderIInv /\ [EvolveGeneration \/ OnBar]_evolutionVars
      => EvolverIInv' /\ TraderIInv'
  BY <1>2, EvolverStep, TraderStep
<1>4. EvolverIInv /\ TraderIInv =>
          EvolverTypeOK /\ BestSurvives /\ TraderTypeOK /\ TradeBeforeExit /\ EntriesMirror
  BY EvolverInvHolds, TraderInvHolds, EntriesAreMirrored
<1> QED BY <1>1, <1>3, <1>4, PTL DEF EvolutionSpec

-----------------------------------------------------------------------------
(* The strategies' trades                                                  *)

\* What a rule opens and closes a trade by, and with which signals
Does(rule, enters, leaves, closes, breaks) ==
    rule.enters = enters /\ rule.leaves = leaves /\ rule.closes = closes /\ rule.breaks = breaks

\* The symbols it wants, those of its signals, and its hedges
Deals(rule, legs, entryOn, exitOn, hedges) ==
    rule.legs = legs /\ rule.entryOn = entryOn /\ rule.exitOn = exitOn /\ rule.hedges = hedges

\* It is about one symbol
DealsInOne(rule, hedges) == Deals(rule, {"a"}, "bar", "bar", hedges)

\* The strategies of two legs, arbitrage and carry
LEMMA SpreadRules ==
    /\ Does(StatArb, Reverting, Reverted, Selling, Unbroken)
    /\ Deals(StatArb, {"a", "b"}, "bar", "bar", "none")
    /\ Does(PairsTrading, Reverting, Lingering, Opposite, Unbroken)
    /\ Deals(PairsTrading, {"a", "b"}, "a", "a", "none")
    /\ Does(KalmanReversion, Reverting, Reverted, Opposite, Unbroken)
    /\ Deals(KalmanReversion, {"a", "b"}, "bar", "bar", "none")
    /\ Does(CalendarSpread, Reverting, Reverted, Opposite, Unbroken)
    /\ Deals(CalendarSpread, {"a", "b"}, "bar", "bar", "none")
    /\ Does(VolArb, Reverting, Reverted, Opposite, Unbroken) /\ DealsInOne(VolArb, "none")
    /\ Does(TermStructure, Reverting, Lingering, Opposite, Unbroken)
    /\ DealsInOne(TermStructure, "none")
    /\ Does(Triangular, Following, Never, Selling, Unbroken)
    /\ Deals(Triangular, {"a", "b", "c"}, "c", "bar", "none")
    /\ Does(BasisTrade, Following, Calmed, Selling, Unbroken) /\ DealsInOne(BasisTrade, "none")
    /\ Does(FundingArb, Reverting, Calmed, Selling, Unbroken) /\ DealsInOne(FundingArb, "none")
    /\ Does(CarryTrade, Following, Never, Opposite, [Unbroken EXCEPT !.buy = "sell"])
    /\ DealsInOne(CarryTrade, "none")
<1>1. Does(StatArb, Reverting, Reverted, Selling, Unbroken)
      /\ Deals(StatArb, {"a", "b"}, "bar", "bar", "none")
  BY DEF StatArb, Spread, Plain, Does, Deals, DealsInOne
<1>2. Does(PairsTrading, Reverting, Lingering, Opposite, Unbroken)
      /\ Deals(PairsTrading, {"a", "b"}, "a", "a", "none")
  BY DEF PairsTrading, Spread, Plain, Does, Deals, DealsInOne
<1>3. Does(KalmanReversion, Reverting, Reverted, Opposite, Unbroken)
      /\ Deals(KalmanReversion, {"a", "b"}, "bar", "bar", "none")
  BY DEF KalmanReversion, Spread, Plain, Does, Deals, DealsInOne
<1>4. Does(CalendarSpread, Reverting, Reverted, Opposite, Unbroken)
      /\ Deals(CalendarSpread, {"a", "b"}, "bar", "bar", "none")
  BY DEF CalendarSpread, Spread, Plain, Does, Deals, DealsInOne
<1>5. Does(VolArb, Reverting, Reverted, Opposite, Unbroken) /\ DealsInOne(VolArb, "none")
  BY DEF VolArb, Spread, Plain, Does, Deals, DealsInOne
<1>6. Does(TermStructure, Reverting, Lingering, Opposite, Unbroken)
      /\ DealsInOne(TermStructure, "none")
  BY DEF TermStructure, VolArb, Spread, Plain, Does, Deals, DealsInOne
<1>7. Does(Triangular, Following, Never, Selling, Unbroken)
      /\ Deals(Triangular, {"a", "b", "c"}, "c", "bar", "none")
  BY DEF Triangular, Plain, Does, Deals, DealsInOne
<1>8. Does(BasisTrade, Following, Calmed, Selling, Unbroken) /\ DealsInOne(BasisTrade, "none")
  BY DEF BasisTrade, Plain, Does, Deals, DealsInOne
<1>9. Does(FundingArb, Reverting, Calmed, Selling, Unbroken) /\ DealsInOne(FundingArb, "none")
  BY DEF FundingArb, BasisTrade, Plain, Does, Deals, DealsInOne
<1>10. Does(CarryTrade, Following, Never, Opposite, [Unbroken EXCEPT !.buy = "sell"])
      /\ DealsInOne(CarryTrade, "none")
  BY DEF CarryTrade, Plain, Does, Deals, DealsInOne
<1> QED BY <1>1, <1>2, <1>3, <1>4, <1>5, <1>6, <1>7, <1>8, <1>9, <1>10

\* The strategies of options
LEMMA OptionRules ==
    /\ Does(ConversionReversal, Reverting, Calmed, Doubling, Unbroken)
    /\ DealsInOne(ConversionReversal, "none")
    /\ Does(BoxSpread, Reverting, Never, Opposite, Selling) /\ DealsInOne(BoxSpread, "none")
    /\ Does(ButterflySpread, Longing, Collapsed, Opposite, Selling)
    /\ DealsInOne(ButterflySpread, "fresh")
    /\ Does(IronButterfly, Shorting, Collapsed, Opposite, Opposite)
    /\ DealsInOne(IronButterfly, "fresh")
    /\ Does(RatioSpread, Longing, Collapsed, Opposite, Doubling) /\ DealsInOne(RatioSpread, "fresh")
    /\ Does(VegaNeutral, Longing, Never, Opposite, Selling) /\ DealsInOne(VegaNeutral, "frozen")
    /\ Does(SmileTrading, Longing, Calmed, Opposite, Unbroken) /\ DealsInOne(SmileTrading, "none")
    /\ Does(Straddle, Longing, Never, Opposite, Unbroken) /\ DealsInOne(Straddle, "none")
<1>1. Does(ConversionReversal, Reverting, Calmed, Doubling, Unbroken)
      /\ DealsInOne(ConversionReversal, "none")
  BY DEF ConversionReversal, Plain, Does, Deals, DealsInOne
<1>2. Does(BoxSpread, Reverting, Never, Opposite, Selling) /\ DealsInOne(BoxSpread, "none")
  BY DEF BoxSpread, Plain, Does, Deals, DealsInOne
<1>3. Does(ButterflySpread, Longing, Collapsed, Opposite, Selling)
      /\ DealsInOne(ButterflySpread, "fresh")
  BY DEF ButterflySpread, Plain, Does, Deals, DealsInOne
<1>4. Does(IronButterfly, Shorting, Collapsed, Opposite, Opposite)
      /\ DealsInOne(IronButterfly, "fresh")
  BY DEF IronButterfly, ButterflySpread, Plain, Does, Deals, DealsInOne
<1>5. Does(RatioSpread, Longing, Collapsed, Opposite, Doubling) /\ DealsInOne(RatioSpread, "fresh")
  BY DEF RatioSpread, ButterflySpread, Plain, Does, Deals, DealsInOne
<1>6. Does(VegaNeutral, Longing, Never, Opposite, Selling) /\ DealsInOne(VegaNeutral, "frozen")
  BY DEF VegaNeutral, Plain, Does, Deals, DealsInOne
<1>7. Does(SmileTrading, Longing, Calmed, Opposite, Unbroken) /\ DealsInOne(SmileTrading, "none")
  BY DEF SmileTrading, Plain, Does, Deals, DealsInOne
<1>8. Does(Straddle, Longing, Never, Opposite, Unbroken) /\ DealsInOne(Straddle, "none")
  BY DEF Straddle, Plain, Does, Deals, DealsInOne
<1> QED BY <1>1, <1>2, <1>3, <1>4, <1>5, <1>6, <1>7, <1>8

\* The strategies of one instrument and its indicator
LEMMA TrendRules ==
    /\ Does(NewsFollowing, Following, Never, Selling, Unbroken) /\ DealsInOne(NewsFollowing, "none")
    /\ Does(NewsFading, Reverting, Never, Selling, Unbroken) /\ DealsInOne(NewsFading, "none")
    /\ Does(RsiReversion, Reverting, Overshot, Opposite, Unbroken)
    /\ DealsInOne(RsiReversion, "none")
    /\ Does(EmaCross, Following, Turned, Opposite, Unbroken) /\ DealsInOne(EmaCross, "none")
    /\ Does(AdaptiveMa, Following, Turned, Opposite, Unbroken) /\ DealsInOne(AdaptiveMa, "none")
    /\ Does(RocMomentum, Following, Lingering, Opposite, Unbroken)
    /\ DealsInOne(RocMomentum, "none")
    /\ \A rule \in {VolumeBreakout, Engulfing, Seasonality, Microstructure, OrderFlow} :
          Does(rule, Following, Never, Opposite, Unbroken) /\ DealsInOne(rule, "none")
<1>1. Does(NewsFollowing, Following, Never, Selling, Unbroken) /\ DealsInOne(NewsFollowing, "none")
  BY DEF NewsFollowing, Plain, Does, Deals, DealsInOne
<1>2. Does(NewsFading, Reverting, Never, Selling, Unbroken) /\ DealsInOne(NewsFading, "none")
  BY DEF NewsFading, NewsFollowing, Plain, Does, Deals, DealsInOne
<1>3. Does(RsiReversion, Reverting, Overshot, Opposite, Unbroken)
      /\ DealsInOne(RsiReversion, "none")
  BY DEF RsiReversion, Plain, Does, Deals, DealsInOne
<1>4. Does(EmaCross, Following, Turned, Opposite, Unbroken) /\ DealsInOne(EmaCross, "none")
  BY DEF EmaCross, Plain, Does, Deals, DealsInOne
<1>5. Does(AdaptiveMa, Following, Turned, Opposite, Unbroken) /\ DealsInOne(AdaptiveMa, "none")
  BY DEF AdaptiveMa, Plain, Does, Deals, DealsInOne
<1>6. Does(RocMomentum, Following, Lingering, Opposite, Unbroken) /\ DealsInOne(RocMomentum, "none")
  BY DEF RocMomentum, Plain, Does, Deals, DealsInOne
<1>7. ASSUME NEW rule \in {VolumeBreakout, Engulfing, Seasonality, Microstructure, OrderFlow}
      PROVE  Does(rule, Following, Never, Opposite, Unbroken) /\ DealsInOne(rule, "none")
  BY DEF VolumeBreakout, Engulfing, Seasonality, Microstructure, OrderFlow, Plain, Does, Deals, DealsInOne
<1> QED BY <1>1, <1>2, <1>3, <1>4, <1>5, <1>6, <1>7

\* The strategies by name
LEMMA RuleByName ==
    ASSUME followed \in Trading
    PROVE  \/ followed = "stat_arb" /\ Rule = StatArb
           \/ followed = "pairs" /\ Rule = PairsTrading
           \/ followed = "kalman" /\ Rule = KalmanReversion
           \/ followed = "calendar" /\ Rule = CalendarSpread
           \/ followed = "vol_arb" /\ Rule = VolArb
           \/ followed = "term_structure" /\ Rule = TermStructure
           \/ followed = "triangular" /\ Rule = Triangular
           \/ followed = "basis" /\ Rule = BasisTrade
           \/ followed = "funding" /\ Rule = FundingArb
           \/ followed = "carry" /\ Rule = CarryTrade
           \/ followed = "conversion" /\ Rule = ConversionReversal
           \/ followed = "box" /\ Rule = BoxSpread
           \/ followed = "butterfly" /\ Rule = ButterflySpread
           \/ followed = "iron_butterfly" /\ Rule = IronButterfly
           \/ followed = "ratio" /\ Rule = RatioSpread
           \/ followed = "vega_neutral" /\ Rule = VegaNeutral
           \/ followed = "smile" /\ Rule = SmileTrading
           \/ followed = "straddle" /\ Rule = Straddle
           \/ followed = "news" /\ Rule = NewsFollowing
           \/ followed = "fading" /\ Rule = NewsFading
           \/ followed = "breakout" /\ Rule = VolumeBreakout
           \/ followed = "engulfing" /\ Rule = Engulfing
           \/ followed = "seasonality" /\ Rule = Seasonality
           \/ followed = "microstructure" /\ Rule = Microstructure
           \/ followed = "order_flow" /\ Rule = OrderFlow
           \/ followed = "rsi" /\ Rule = RsiReversion
           \/ followed = "ema_cross" /\ Rule = EmaCross
           \/ followed = "adaptive_ma" /\ Rule = AdaptiveMa
           \/ followed = "roc" /\ Rule = RocMomentum
<1>1. Trading = {"stat_arb", "pairs", "kalman", "calendar", "vol_arb", "term_structure",
                  "triangular", "basis", "funding", "carry", "conversion", "box",
                  "butterfly", "iron_butterfly", "ratio", "vega_neutral", "smile",
                  "straddle", "news", "fading", "breakout", "engulfing", "seasonality",
                  "microstructure", "order_flow", "rsi", "ema_cross", "adaptive_ma", "roc"}
  BY DEF Trading, TradeRules
<1>2. Rule = TradeRules[followed]
  BY DEF Rule
<1>3. /\ TradeRules["stat_arb"] = StatArb
      /\ TradeRules["pairs"] = PairsTrading
      /\ TradeRules["kalman"] = KalmanReversion
      /\ TradeRules["calendar"] = CalendarSpread
      /\ TradeRules["vol_arb"] = VolArb
      /\ TradeRules["term_structure"] = TermStructure
      /\ TradeRules["triangular"] = Triangular
      /\ TradeRules["basis"] = BasisTrade
      /\ TradeRules["funding"] = FundingArb
      /\ TradeRules["carry"] = CarryTrade
      /\ TradeRules["conversion"] = ConversionReversal
      /\ TradeRules["box"] = BoxSpread
      /\ TradeRules["butterfly"] = ButterflySpread
      /\ TradeRules["iron_butterfly"] = IronButterfly
      /\ TradeRules["ratio"] = RatioSpread
      /\ TradeRules["vega_neutral"] = VegaNeutral
      /\ TradeRules["smile"] = SmileTrading
      /\ TradeRules["straddle"] = Straddle
      /\ TradeRules["news"] = NewsFollowing
      /\ TradeRules["fading"] = NewsFading
      /\ TradeRules["breakout"] = VolumeBreakout
      /\ TradeRules["engulfing"] = Engulfing
      /\ TradeRules["seasonality"] = Seasonality
      /\ TradeRules["microstructure"] = Microstructure
      /\ TradeRules["order_flow"] = OrderFlow
      /\ TradeRules["rsi"] = RsiReversion
      /\ TradeRules["ema_cross"] = EmaCross
      /\ TradeRules["adaptive_ma"] = AdaptiveMa
      /\ TradeRules["roc"] = RocMomentum
  BY DEF TradeRules
<1> QED BY <1>1, <1>2, <1>3

\* No level that a trade is entered at is one that it is left at.
Parted(enters, leaves) ==
    \A v \in Levels : enters[v] # "none" => v \notin leaves[enters[v]]

\* Every exit of a trade is on the other side than its entry.
Undoing(enters, closes, breaks) ==
    \A v \in Levels : enters[v] # "none" =>
       /\ closes[enters[v]] = Opposite[enters[v]]
       /\ breaks[enters[v]] \in {"none", Opposite[enters[v]]}

\* The ways to enter a trade.
Entries == {Following, Reverting, Longing, Shorting}

(* What the ways to enter a trade signal at each level.                    *)
LEMMA EntriesAre ==
    ASSUME NEW enters \in Entries, NEW v \in Levels
    PROVE  /\ enters[v] \in TradeSides \cup {"none"}
           /\ enters = Following => enters[v] = (IF v = 2 THEN "buy" ELSE IF v = -2 THEN "sell" ELSE "none")
           /\ enters = Reverting => enters[v] = (IF v = 2 THEN "sell" ELSE IF v = -2 THEN "buy" ELSE "none")
           /\ enters = Longing => enters[v] = (IF v = 2 THEN "buy" ELSE "none")
           /\ enters = Shorting => enters[v] = (IF v = 2 THEN "sell" ELSE "none")
<1>1. /\ Following[v] = (IF v = 2 THEN "buy" ELSE IF v = -2 THEN "sell" ELSE "none")
      /\ Reverting[v] = (IF v = 2 THEN "sell" ELSE IF v = -2 THEN "buy" ELSE "none")
      /\ Longing[v] = (IF v = 2 THEN "buy" ELSE "none")
      /\ Shorting[v] = (IF v = 2 THEN "sell" ELSE "none")
  BY DEF Following, Reverting, Longing, Shorting
<1>2. \/ enters = Following
      \/ enters = Reverting
      \/ enters = Longing
      \/ enters = Shorting
  BY DEF Entries
<1>3. enters[v] \in TradeSides \cup {"none"}
  BY <1>1, <1>2 DEF TradeSides
<1> QED BY <1>1, <1>3

(* No exit by the indicator fires at a level its rule enters at.           *)
LEMMA PartedRules ==
    /\ \A enters \in Entries : Parted(enters, Never)
    /\ Parted(Following, Calmed) /\ Parted(Following, Turned) /\ Parted(Following, Lingering)
    /\ Parted(Reverting, Calmed) /\ Parted(Reverting, Reverted) /\ Parted(Reverting, Overshot)
    /\ Parted(Longing, Calmed) /\ Parted(Longing, Collapsed) /\ Parted(Shorting, Collapsed)
<1>1. \A s \in TradeSides : Never[s] = {} /\ Calmed[s] = {0} /\ Collapsed[s] = {-2}
  BY DEF TradeSides, Never, Calmed, Collapsed
<1>2. /\ Turned["buy"] = {-2, -1} /\ Turned["sell"] = {1, 2}
      /\ Lingering["buy"] = {-2, -1, 0} /\ Lingering["sell"] = {0, 1, 2}
      /\ Reverted["buy"] = {0, 1, 2} /\ Reverted["sell"] = {-2, -1, 0}
      /\ Overshot["buy"] = {1, 2} /\ Overshot["sell"] = {-2, -1}
  BY DEF Turned, Lingering, Reverted, Overshot
<1>3. ASSUME NEW enters \in Entries
      PROVE  Parted(enters, Never)
  BY <1>1, EntriesAre DEF Parted
<1>4. Following \in Entries /\ Reverting \in Entries /\ Longing \in Entries /\ Shorting \in Entries
  BY DEF Entries
<1>5. Parted(Following, Calmed) /\ Parted(Following, Turned) /\ Parted(Following, Lingering)
  BY <1>1, <1>2, <1>4, EntriesAre DEF Parted, TradeSides
<1>6. Parted(Reverting, Calmed) /\ Parted(Reverting, Reverted) /\ Parted(Reverting, Overshot)
  BY <1>1, <1>2, <1>4, EntriesAre DEF Parted, TradeSides
<1>7. Parted(Longing, Calmed) /\ Parted(Longing, Collapsed) /\ Parted(Shorting, Collapsed)
  BY <1>1, <1>4, EntriesAre DEF Parted, TradeSides
<1> QED BY <1>3, <1>5, <1>6, <1>7

\* The exit that sells out of long trades only.
Half == [Unbroken EXCEPT !.buy = "sell"]

(* What the ways to exit a trade signal for each side.                     *)
LEMMA ExitSides ==
    /\ Opposite["buy"] = "sell" /\ Opposite["sell"] = "buy"
    /\ Selling["buy"] = "sell" /\ Selling["sell"] = "sell"
    /\ Doubling["buy"] = "buy" /\ Doubling["sell"] = "sell"
    /\ Unbroken["buy"] = "none" /\ Unbroken["sell"] = "none"
    /\ Half["buy"] = "sell" /\ Half["sell"] = "none"
BY DEF Opposite, Selling, Doubling, Unbroken, Half

(* Which exits signal the opposite of the entry.                           *)
LEMMA UndoingRules ==
    /\ \A enters \in Entries : Undoing(enters, Opposite, Unbroken)
    /\ Undoing(Following, Opposite, Half)
    /\ Undoing(Longing, Opposite, Selling)
    /\ Undoing(Shorting, Opposite, Opposite)
<1>1. Following \in Entries /\ Longing \in Entries /\ Shorting \in Entries
  BY DEF Entries
<1>2. \A enters \in Entries : Undoing(enters, Opposite, Unbroken)
  BY EntriesAre, ExitSides DEF Undoing, TradeSides
<1>3. Undoing(Following, Opposite, Half)
  BY <1>1, EntriesAre, ExitSides DEF Undoing
<1>4. Undoing(Longing, Opposite, Selling)
  BY <1>1, EntriesAre, ExitSides DEF Undoing
<1>5. Undoing(Shorting, Opposite, Opposite)
  BY <1>1, EntriesAre, ExitSides DEF Undoing
<1> QED BY <1>2, <1>3, <1>4, <1>5

\* What the rules have in common, and what tells them apart
LEMMA RulesTrade ==
    ASSUME followed \in Trading
    PROVE  /\ Rule.enters \in Entries
           /\ Rule.closes \in {Opposite, Selling, Doubling}
           /\ Rule.breaks \in {Unbroken, Half, Selling, Opposite, Doubling}
           /\ followed \notin Hasty => Parted(Rule.enters, Rule.leaves)
           /\ followed \in SellsOut => Rule.closes = Selling /\ Rule.breaks = Unbroken
           /\ followed = "ratio" =>
                 Rule.enters = Longing /\ Rule.closes = Opposite /\ Rule.breaks = Doubling
           /\ followed \in AtParity => Rule.enters = Reverting
           /\ followed = "triangular" =>
                 Rule.enters = Following /\ Rule.closes = Selling /\ Rule.breaks = Unbroken
           /\ followed \notin SellsOut \cup AtParity \cup {"ratio", "triangular"} =>
                 Undoing(Rule.enters, Rule.closes, Rule.breaks)
<1>1. Rule.enters \in Entries
  BY RuleByName, SpreadRules, OptionRules, TrendRules DEF Does, Entries
<1>2. Rule.closes \in {Opposite, Selling, Doubling}
  BY RuleByName, SpreadRules, OptionRules, TrendRules DEF Does
<1>3. Rule.breaks \in {Unbroken, Half, Selling, Opposite, Doubling}
  BY RuleByName, SpreadRules, OptionRules, TrendRules DEF Does, Half
<1>4. followed \notin Hasty => Parted(Rule.enters, Rule.leaves)
  BY <1>1, RuleByName, SpreadRules, OptionRules, TrendRules, PartedRules DEF Does, Hasty
<1>5. followed \in SellsOut => Rule.closes = Selling /\ Rule.breaks = Unbroken
  BY RuleByName, SpreadRules, OptionRules, TrendRules DEF Does, SellsOut
<1>6. followed = "ratio" =>
         Rule.enters = Longing /\ Rule.closes = Opposite /\ Rule.breaks = Doubling
  BY RuleByName, OptionRules DEF Does
<1>7. followed \in AtParity => Rule.enters = Reverting
  BY RuleByName, OptionRules DEF Does, AtParity
<1>8. followed = "triangular" =>
         Rule.enters = Following /\ Rule.closes = Selling /\ Rule.breaks = Unbroken
  BY RuleByName, SpreadRules DEF Does
<1>9. followed \notin SellsOut \cup AtParity \cup {"ratio", "triangular"} =>
         Undoing(Rule.enters, Rule.closes, Rule.breaks)
  BY <1>1, RuleByName, SpreadRules, OptionRules, TrendRules, UndoingRules
  DEF Does, SellsOut, AtParity, Half
<1> QED BY <1>1, <1>2, <1>3, <1>4, <1>5, <1>6, <1>7, <1>8, <1>9

(* The symbols of every rule are legs, and only pairs signal on another    *)
(* than the first.                                                         *)
LEMMA RulesDeal ==
    ASSUME followed \in Trading
    PROVE  /\ Rule.legs \subseteq TradeLegs
           /\ Rule.entryOn \in TradeLegs \cup {"bar"} /\ Rule.exitOn \in TradeLegs \cup {"bar"}
           /\ Rule.hedges \in {"none", "fresh", "frozen"}
           /\ followed \notin InPairs =>
                 \A l \in Rule.legs : On(Rule.entryOn, l) = "a" /\ On(Rule.exitOn, l) = "a"
<1>1. Rule.legs \in {{"a"}, {"a", "b"}, {"a", "b", "c"}}
  BY RuleByName, SpreadRules, OptionRules, TrendRules DEF Deals, DealsInOne
<1>2. Rule.entryOn \in {"a", "c", "bar"} /\ Rule.exitOn \in {"a", "bar"}
  BY RuleByName, SpreadRules, OptionRules, TrendRules DEF Deals, DealsInOne
<1>3. Rule.hedges \in {"none", "fresh", "frozen"}
  BY RuleByName, SpreadRules, OptionRules, TrendRules DEF Deals, DealsInOne
<1>4. followed \notin InPairs =>
         \/ Rule.legs = {"a"} /\ Rule.entryOn = "bar" /\ Rule.exitOn = "bar"
         \/ Rule.entryOn = "a" /\ Rule.exitOn = "a"
  BY RuleByName, SpreadRules, OptionRules, TrendRules DEF Deals, DealsInOne, InPairs
<1> QED BY <1>1, <1>2, <1>3, <1>4 DEF On, TradeLegs

(* A purchase counts one up and a sale one down.                           *)
LEMMA Worths ==
    /\ Worth("buy") = 1 /\ Worth("sell") = -1 /\ Worth("none") = 0
    /\ \A s \in TradeSides : Opposite[s] \in TradeSides /\ Worth(Opposite[s]) + Worth(s) = 0
                             /\ Worth(s) \in {-1, 1}
<1>1. Worth("buy") = 1 /\ Worth("sell") = -1 /\ Worth("none") = 0
  BY DEF Worth
<1>2. Opposite["buy"] = "sell" /\ Opposite["sell"] = "buy"
  BY ExitSides
<1>3. \A s \in TradeSides : s = "buy" \/ s = "sell"
  BY DEF TradeSides
<1>4. "buy" \in TradeSides /\ "sell" \in TradeSides
  BY DEF TradeSides
<1>5. 1 + (-1) = 0 /\ (-1) + 1 = 0
  OBVIOUS
<1> QED BY <1>1, <1>2, <1>3, <1>4, <1>5

\* Prices of the triangle never call for a trade in the other direction.
LEMMA LevelsAre ==
    /\ MarketLevels \subseteq Levels
    /\ followed = "triangular" => -2 \notin MarketLevels
    /\ followed \in AtParity => MarketLevels = {0}
<1>1. CASE followed = "triangular"
  <2>1. ASSUME NEW p \in Rates, NEW c \in Rates
        PROVE  Deviation(p, c) \in {0, 2}
    <3> DEFINE gap == RateUnit * (p - c)
               over == RateMargin * c
               under == RateMargin * p
    <3>1. p \in Nat /\ c \in Nat /\ RateUnit \in Nat \ {0} /\ RateMargin \in Nat \ {0}
      BY SignalAssumption
    <3>2. gap \in Int /\ over \in Nat /\ under \in Nat
      BY <3>1
    <3>3. CASE p <= c
      <4>1. gap <= 0
        BY <3>1, <3>3
      <4>2. ~(gap > over) /\ ~(gap > under)
        BY <3>2, <4>1
      <4> QED BY <4>2 DEF Deviation
    <3>4. CASE p > c
      <4>1. RateMargin * (p - c) >= 0 /\ under - over = RateMargin * (p - c)
        BY <3>1, <3>4
      <4>2. under >= over
        BY <3>2, <4>1
      <4>3. ~(gap > over) => ~(gap > under)
        BY <3>2, <4>2
      <4> QED BY <4>3 DEF Deviation
    <3> QED BY <3>1, <3>3, <3>4
  <2> QED BY <1>1, <2>1 DEF MarketLevels, Levels, AtParity
<1>2. CASE followed # "triangular"
  BY <1>2 DEF MarketLevels, Levels, AtParity
<1> QED BY <1>1, <1>2

(* The trade a strategy believes to be in is one of its rule: on the side  *)
(* of the level it was entered at, and hedged only against what it is      *)
(* exposed to.                                                             *)
Entered ==
    /\ followed \in Trading
    /\ stance \in [side : TradeSides, leg : TradeLegs, level : MarketLevels,
                   bars : 0..(MaxHold - 1), exposure : TradeSides \cup {"none"},
                   hedged : SUBSET TradeSides]
    /\ stance.side = Rule.enters[stance.level]
    /\ followed \notin InPairs => stance.leg = "a"
    /\ Rule.hedges = "frozen" =>
          \A s \in stance.hedged : stance.exposure \in TradeSides /\ s = Opposite[stance.exposure]

\* Between trades nothing is left open, where every exit undoes its entry.
Undone ==
    ~strayed /\ followed # "ratio" /\ (followed \in SellsOut => finished["sell"] = 0) =>
       \A l \in TradeLegs :
          signalled[l] = IF InTrade /\ l = stance.leg THEN Worth(stance.side) ELSE 0

\* What the signals add up to, by the way the strategy's exits go.
Adding ==
    LET open == Worth(stance.side)
    IN  CASE followed \in SellsOut -> Standing = open - 2 * finished["sell"]
          [] followed = "ratio" -> \E n \in 0..finished["buy"] : Standing = open + 2 * n
          [] OTHER -> Standing = open

\* The strategies that count, and the one that quotes.
Tallied ==
    /\ pause \in 0..LongPause /\ purchases \in 0..DcaMaxBuys /\ unpaused \in 0..purchases
    /\ inventory = 0 /\ quoted = 0

\* The signals so far, and the strategies that strayed with them.
Signalled ==
    /\ signalled \in [TradeLegs -> Int] /\ finished \in [TradeSides -> Nat]
    /\ Sent <= MaxSent + IF InTrade THEN 0 ELSE 1
    /\ \A l \in TradeLegs : signalled[l] \in -Sent..Sent
    /\ Adding /\ Undone
    /\ strayed \in BOOLEAN /\ (strayed => followed \in InPairs)
    /\ followed = "triangular" => finished["sell"] = 0

\* The open trade is one of its rule, and the signals add up to it.
SignalIInv ==
    /\ followed \in Trading \cup {"dca", "provider"} /\ warmed \subseteq TradeLegs
    /\ InTrade => Entered
    /\ Signalled
    /\ turned = <<>> \/ turned \in Levels \X Levels
    /\ followed \notin Hasty => ExitsOnReversion
    /\ Tallied

(* Out of a trade there is no side and no hedge.                           *)
LEMMA FreeStance == NoTrade.side = "none" /\ NoTrade.hedged = {}
BY DEF NoTrade

(* Signals come in twos, one to enter and one to exit, but for the trade   *)
(* that is open.                                                           *)
LEMMA SentIs ==
    ASSUME SignalIInv
    PROVE  /\ Sent = 2 * (finished["buy"] + finished["sell"]) + (IF InTrade THEN 1 ELSE 0)
           /\ finished["buy"] \in Nat /\ finished["sell"] \in Nat /\ Sent \in Nat
<1>1. finished["buy"] \in Nat /\ finished["sell"] \in Nat
  BY DEF SignalIInv, Signalled, TradeSides
<1> QED BY <1>1 DEF Sent

\* A strategy at parity never enters, the triangle only forwards.
LEMMA TradeIs ==
    ASSUME Entered
    PROVE  /\ stance.side \in TradeSides /\ stance.level \in Levels
           /\ followed \notin AtParity
           /\ followed = "triangular" => stance.side = "buy"
           /\ followed = "ratio" => stance.side = "buy"
           /\ Worth(stance.side) \in {-1, 1}
<1>1. stance.side \in TradeSides /\ stance.level \in MarketLevels /\ stance.level \in Levels
  BY LevelsAre DEF Entered
<1>2. Rule.enters \in Entries /\ stance.side = Rule.enters[stance.level]
  BY RulesTrade DEF Entered
<1>3. followed \notin AtParity
  <2> SUFFICES ASSUME followed \in AtParity
               PROVE  FALSE
    OBVIOUS
  <2>1. stance.level = 0 /\ Rule.enters = Reverting
    BY <1>1, LevelsAre, RulesTrade DEF Entered
  <2> QED BY <1>1, <1>2, <2>1, EntriesAre DEF TradeSides
<1>4. ASSUME followed = "triangular"
      PROVE  stance.side = "buy"
  <2>1. stance.level # -2 /\ Rule.enters = Following
    BY <1>1, <1>4, LevelsAre, RulesTrade DEF Entered
  <2> QED BY <1>1, <1>2, <2>1, EntriesAre DEF TradeSides
<1>5. ASSUME followed = "ratio"
      PROVE  stance.side = "buy"
  <2>1. Rule.enters = Longing
    BY <1>5, RulesTrade DEF Entered
  <2> QED BY <1>1, <1>2, <2>1, EntriesAre DEF TradeSides
<1> QED BY <1>1, <1>3, <1>4, <1>5, Worths

\* What an exit of the trade may signal
Discharges(side) ==
    /\ side \in TradeSides
    /\ followed \in SellsOut => side = "sell"
    /\ followed \notin SellsOut \cup {"ratio"} => side = Opposite[stance.side]

(* Whatever exit ends a trade discharges it.                               *)
LEMMA ExitsDischarge ==
    ASSUME Entered
    PROVE  /\ Discharges(Rule.closes[stance.side])
           /\ Rule.breaks[stance.side] # "none" => Discharges(Rule.breaks[stance.side])
<1>1. /\ stance.side \in TradeSides /\ stance.level \in Levels /\ followed \in Trading
      /\ stance.side = Rule.enters[stance.level]
  BY TradeIs DEF Entered
<1>2. \A s \in TradeSides : /\ Selling[s] = "sell" /\ Doubling[s] = s /\ Unbroken[s] = "none"
                            /\ Opposite[s] \in TradeSides
                            /\ Half[s] \in {"sell", "none"}
  BY ExitSides DEF TradeSides
<1>3. /\ Rule.closes[stance.side] \in TradeSides
      /\ Rule.breaks[stance.side] \in TradeSides \cup {"none"}
  <2>1. Rule.closes \in {Opposite, Selling, Doubling}
    BY <1>1, RulesTrade
  <2>2. Rule.breaks \in {Unbroken, Half, Selling, Opposite, Doubling}
    BY <1>1, RulesTrade
  <2>3. Rule.closes[stance.side] \in TradeSides
    BY <1>1, <1>2, <2>1 DEF TradeSides
  <2>4. Rule.breaks[stance.side] \in TradeSides \cup {"none"}
    BY <1>1, <1>2, <2>2 DEF TradeSides
  <2> QED BY <2>3, <2>4
<1>4. CASE followed \in SellsOut
  <2>1. Rule.closes = Selling /\ Rule.breaks = Unbroken
    BY <1>1, <1>4, RulesTrade
  <2> QED BY <1>1, <1>2, <1>3, <1>4, <2>1 DEF Discharges
<1>5. CASE followed = "ratio"
  BY <1>3, <1>5 DEF Discharges, SellsOut
<1>6. CASE followed = "triangular"
  <2>1. Rule.closes = Selling /\ Rule.breaks = Unbroken /\ stance.side = "buy"
    BY <1>1, <1>6, RulesTrade, TradeIs
  <2> QED BY <1>3, <1>6, <2>1, ExitSides DEF Discharges, SellsOut
<1>7. CASE followed \notin SellsOut \cup {"ratio", "triangular"}
  <2>1. Undoing(Rule.enters, Rule.closes, Rule.breaks)
    BY <1>1, <1>7, RulesTrade, TradeIs
  <2>2. stance.side # "none"
    BY <1>1 DEF TradeSides
  <2>3. /\ Rule.closes[stance.side] = Opposite[stance.side]
        /\ Rule.breaks[stance.side] \in {"none", Opposite[stance.side]}
    BY <1>1, <2>1, <2>2 DEF Undoing
  <2> QED BY <1>3, <1>7, <2>3 DEF Discharges
<1> QED BY <1>4, <1>5, <1>6, <1>7

\* The sum of the signals on all legs.
Total(signals) == signals["a"] + signals["b"] + signals["c"]

(* Counting a signal adds it to one leg and to the total.                  *)
LEMMA SignalAdds ==
    ASSUME NEW signals \in [TradeLegs -> Int], NEW leg \in TradeLegs, NEW w \in Int
    PROVE  LET next == [signals EXCEPT ![leg] = @ + w]
           IN  /\ next \in [TradeLegs -> Int] /\ next[leg] = signals[leg] + w
               /\ \A l \in TradeLegs \ {leg} : next[l] = signals[l]
               /\ Total(next) = Total(signals) + w
<1> DEFINE next == [signals EXCEPT ![leg] = @ + w]
<1>1. /\ next \in [TradeLegs -> Int] /\ next[leg] = signals[leg] + w
      /\ \A l \in TradeLegs \ {leg} : next[l] = signals[l]
  OBVIOUS
<1>2. \A l \in TradeLegs : signals[l] \in Int
  OBVIOUS
<1>3. Total(next) = Total(signals) + w
  <2> HIDE DEF next
  <2>1. leg \in {"a", "b", "c"}
    BY DEF TradeLegs
  <2>2. leg = "a" => next["a"] = signals["a"] + w /\ next["b"] = signals["b"] /\ next["c"] = signals["c"]
    BY <1>1 DEF TradeLegs
  <2>3. leg = "b" => next["b"] = signals["b"] + w /\ next["a"] = signals["a"] /\ next["c"] = signals["c"]
    BY <1>1 DEF TradeLegs
  <2>4. leg = "c" => next["c"] = signals["c"] + w /\ next["b"] = signals["b"] /\ next["a"] = signals["a"]
    BY <1>1 DEF TradeLegs
  <2>5. signals["a"] \in Int /\ signals["b"] \in Int /\ signals["c"] \in Int
    BY <1>2 DEF TradeLegs
  <2> QED BY <2>1, <2>2, <2>3, <2>4, <2>5 DEF Total
<1> QED BY <1>1, <1>3

(* The inductive invariant implies what the run checks.                    *)
LEMMA SignalInvHolds ==
    ASSUME SignalIInv
    PROVE  SignalTypeOK /\ StrategiesKeepTrack
<1>1. SignalTypeOK
  <2>1. followed \in Trading \cup {"dca", "provider"} /\ warmed \subseteq TradeLegs
    BY DEF SignalIInv
  <2>2. stance = NoTrade \/ (stance.side \in TradeSides /\ stance.leg \in TradeLegs
                             /\ stance.level \in Levels /\ stance.bars \in 0..(MaxHold - 1)
                             /\ stance.hedged \subseteq TradeSides)
    BY TradeIs DEF SignalIInv, InTrade, Entered
  <2>3. Sent \in Nat /\ Sent <= MaxSent + 1 /\ MaxSent \in Nat
    BY SentIs, SignalAssumption DEF SignalIInv, Signalled
  <2>4. signalled \in [TradeLegs -> -(MaxSent + 1)..(MaxSent + 1)]
    <3>1. ASSUME NEW l \in TradeLegs
          PROVE  signalled[l] \in -(MaxSent + 1)..(MaxSent + 1)
      <4>1. signalled[l] \in -Sent..Sent
        BY DEF SignalIInv, Signalled
      <4> QED BY <2>3, <4>1
    <3> QED BY <3>1 DEF SignalIInv, Signalled
  <2>5. finished \in [TradeSides -> 0..MaxSent]
    <3>1. /\ finished["buy"] \in Nat /\ finished["sell"] \in Nat
          /\ 2 * (finished["buy"] + finished["sell"]) <= MaxSent + 1
      BY <2>3, SentIs
    <3>2. finished["buy"] \in 0..MaxSent /\ finished["sell"] \in 0..MaxSent
      BY <2>3, <3>1
    <3> QED BY <3>2 DEF SignalIInv, Signalled, TradeSides
  <2>6. strayed \in BOOLEAN
    BY DEF SignalIInv, Signalled
  <2>7. /\ pause \in 0..LongPause /\ purchases \in Nat /\ unpaused \in Nat
        /\ inventory \in -MaxStock..MaxStock /\ quoted \in Nat
    BY SignalAssumption DEF SignalIInv, Tallied
  <2> QED BY <2>1, <2>2, <2>4, <2>5, <2>6, <2>7 DEF SignalTypeOK, SignalIInv
<1>2. TradesUndone
  <2>1. Adding
    BY DEF SignalIInv, Signalled
  <2>2. followed \notin {"ratio"} \cup SellsOut \cup InPairs =>
           ~strayed /\ (~InTrade => \A l \in TradeLegs : signalled[l] = 0)
    BY DEF SignalIInv, Signalled, Undone
  <2>3. followed \in InPairs /\ ~strayed /\ ~InTrade /\ finished["sell"] = 0 =>
           \A l \in TradeLegs : signalled[l] = 0
    BY DEF SignalIInv, Signalled, Undone, InPairs
  <2>4. followed = "triangular" => finished["sell"] = 0
    BY DEF SignalIInv, Signalled
  <2>5. followed \in AtParity => ~InTrade
    BY TradeIs DEF SignalIInv
  <2> QED BY <2>1, <2>2, <2>3, <2>4, <2>5 DEF TradesUndone, Adding
<1>3. FrozenHedges
  <2> SUFFICES ASSUME Rule.hedges = "frozen"
               PROVE  Cardinality(stance.hedged) <= 1
    BY DEF FrozenHedges
  <2>1. stance.hedged = {} \/ stance.hedged = {Opposite[stance.exposure]}
    BY FreeStance DEF SignalIInv, InTrade, Entered
  <2>2. Cardinality({}) = 0 /\ Cardinality({Opposite[stance.exposure]}) = 1
    BY FS_EmptySet, FS_Singleton
  <2> DEFINE Size == Cardinality(stance.hedged)
  <2>3. Size = 0 \/ Size = 1
    BY <2>1, <2>2
  <2> HIDE DEF Size
  <2>4. Size <= 1
    BY <2>3
  <2> QED BY <2>4 DEF Size
<1>4. CountsKept
  BY SignalAssumption DEF CountsKept, SignalIInv, Tallied
<1> QED BY <1>1, <1>2, <1>3, <1>4 DEF StrategiesKeepTrack, SignalIInv

(* The invariant holds before the first bar.                               *)
LEMMA SignalInitHolds ==
    ASSUME SignalInit
    PROVE  SignalIInv
<1>1. followed \in Trading \cup {"dca", "provider"}
  BY FollowedAssumption DEF SignalInit
<1>2. ~InTrade /\ stance = NoTrade
  BY DEF SignalInit, TradingInit, InTrade
<1>3. /\ signalled = [l \in TradeLegs |-> 0] /\ finished = [s \in TradeSides |-> 0]
      /\ strayed = FALSE /\ turned = <<>> /\ warmed = {}
  BY DEF SignalInit, TradingInit
<1>4. finished["buy"] = 0 /\ finished["sell"] = 0 /\ Sent = 0
  BY <1>2, <1>3 DEF Sent, TradeSides
<1>5. Standing = 0 /\ Worth(stance.side) = 0
  BY <1>2, <1>3, FreeStance, Worths DEF Standing, TradeLegs
<1>6. Adding
  BY <1>4, <1>5 DEF Adding
<1>7. Undone
  BY <1>2, <1>3 DEF Undone
<1>8. signalled \in [TradeLegs -> Int] /\ finished \in [TradeSides -> Nat]
  BY <1>3
<1>9. \A l \in TradeLegs : signalled[l] \in -Sent..Sent
  BY <1>3, <1>4
<1>10. Sent <= MaxSent + (IF InTrade THEN 0 ELSE 1)
  BY <1>2, <1>4, SignalAssumption
<1>11. strayed \in BOOLEAN /\ ~strayed
  BY <1>3
<1>12. Signalled
  BY <1>4, <1>6, <1>7, <1>8, <1>9, <1>10, <1>11 DEF Signalled
<1>13. Tallied
  BY SignalAssumption DEF SignalInit, CountingInit, Tallied, LongPause
<1> QED BY <1>1, <1>2, <1>3, <1>12, <1>13 DEF SignalIInv, ExitsOnReversion

(* The rule and its levels are those of the strategy, which does not       *)
(* change.                                                                 *)
LEMMA RuleStays ==
    ASSUME UNCHANGED followed
    PROVE  Rule' = Rule /\ MarketLevels' = MarketLevels
BY DEF Rule, MarketLevels

\* A bar that leaves the trade as it is
LEMMA QuietStep ==
    ASSUME SignalIInv, UNCHANGED <<followed, signalled, finished, strayed>>,
           InTrade' <=> InTrade, stance'.side = stance.side, stance'.leg = stance.leg
    PROVE  Signalled'
<1>1. Sent' = Sent /\ Standing' = Standing
  BY DEF Sent, Standing
<1>2. Adding' /\ Undone'
  BY <1>1 DEF SignalIInv, Signalled, Adding, Undone
<1> QED BY <1>1, <1>2 DEF SignalIInv, Signalled

(* A bar that is skipped keeps the invariant.                              *)
LEMMA SkipStep ==
    ASSUME SignalIInv, UNCHANGED <<followed, countingVars>>, followed \in Trading,
           NEW l \in Rule.legs, Skip(l)
    PROVE  SignalIInv'
<1>1. UNCHANGED <<stance, signalled, finished, turned, strayed>>
  BY DEF Skip
<1>2. Signalled'
  BY <1>1, QuietStep DEF InTrade
<1>3. InTrade' => Entered'
  BY <1>1, RuleStays DEF SignalIInv, InTrade, Entered
<1>4. warmed' \subseteq TradeLegs
  BY RulesDeal DEF Skip, SignalIInv
<1> QED
  BY <1>1, <1>2, <1>3, <1>4
  DEF SignalIInv, Tallied, countingVars, ExitsOnReversion, LongPause

(* A bar that changes nothing about the trade keeps the invariant.         *)
LEMMA StayStep ==
    ASSUME SignalIInv, UNCHANGED <<followed, countingVars>>, followed \in Trading,
           NEW l \in Rule.legs, NEW v \in MarketLevels, Stay(l, v)
    PROVE  SignalIInv'
<1> DEFINE bars == IF Rule.held THEN stance.bars + 1 ELSE 0
<1>1. /\ InTrade /\ Entered /\ ~TimeIsUp /\ warmed' = Rule.legs
      /\ UNCHANGED <<signalled, finished, turned, strayed>>
  BY DEF Stay, SignalIInv, Warm
<1>2. bars \in 0..(MaxHold - 1)
  <2>1. stance.bars \in 0..(MaxHold - 1) /\ MaxHold \in Nat \ {0}
    BY <1>1, SignalAssumption DEF Entered
  <2>2. Rule.held => ~(stance.bars + 1 >= MaxHold)
    BY <1>1 DEF TimeIsUp
  <2> QED BY <2>1, <2>2
<1>3. PICK hedged : /\ stance' = [stance EXCEPT !.bars = bars, !.hedged = hedged]
                    /\ hedged \in SUBSET TradeSides
                    /\ Rule.hedges = "frozen" =>
                          \A s \in hedged : stance.exposure \in TradeSides /\ s = Opposite[stance.exposure]
  <2> HIDE DEF bars
  <2>1. \/ \E e \in Exposures :
              stance' = [stance EXCEPT !.bars = bars, !.hedged = @ \cup {Opposite[e]}]
        \/ stance' = [stance EXCEPT !.bars = bars]
    BY DEF Stay, bars
  <2>2. CASE \E e \in Exposures :
                stance' = [stance EXCEPT !.bars = bars, !.hedged = @ \cup {Opposite[e]}]
    <3>1. PICK e \in Exposures :
                  stance' = [stance EXCEPT !.bars = bars, !.hedged = @ \cup {Opposite[e]}]
      BY <2>2
    <3> DEFINE more == stance.hedged \cup {Opposite[e]}
    <3>2. e \in TradeSides /\ (Rule.hedges = "frozen" => e = stance.exposure)
      BY <1>1, <3>1, RulesDeal DEF Exposures, Entered
    <3>3. more \in SUBSET TradeSides
      BY <1>1, <3>2, Worths DEF Entered
    <3>4. Rule.hedges = "frozen" =>
             \A s \in more : stance.exposure \in TradeSides /\ s = Opposite[stance.exposure]
      BY <1>1, <3>2 DEF Entered
    <3>5. stance' = [stance EXCEPT !.bars = bars, !.hedged = more]
      BY <1>1, <3>1 DEF Entered
    <3> QED BY <3>3, <3>4, <3>5
  <2>3. CASE stance' = [stance EXCEPT !.bars = bars]
    <3>1. stance' = [stance EXCEPT !.bars = bars, !.hedged = stance.hedged]
      BY <1>1, <2>3 DEF Entered
    <3> QED BY <1>1, <3>1 DEF Entered
  <2> QED BY <2>1, <2>2, <2>3
<1> HIDE DEF bars
<1>4. /\ stance' \in [side : TradeSides, leg : TradeLegs, level : MarketLevels,
                      bars : 0..(MaxHold - 1), exposure : TradeSides \cup {"none"},
                      hedged : SUBSET TradeSides]
      /\ stance'.side = stance.side /\ stance'.leg = stance.leg /\ stance'.level = stance.level
      /\ stance'.exposure = stance.exposure /\ stance'.hedged = hedged
  BY <1>1, <1>2, <1>3 DEF Entered
<1>5. Entered'
  BY <1>1, <1>3, <1>4, RuleStays DEF Entered
<1>6. InTrade'
  BY <1>4, FreeStance DEF InTrade, TradeSides
<1>7. Signalled'
  BY <1>1, <1>4, <1>6, QuietStep
<1>8. warmed' \subseteq TradeLegs
  BY <1>1, RulesDeal
<1> QED
  BY <1>1, <1>5, <1>6, <1>7, <1>8
  DEF SignalIInv, Tallied, countingVars, ExitsOnReversion, LongPause

\* What is left open and what the signals add up to, before a bar
LEMMA SignalledIs ==
    ASSUME SignalIInv
    PROVE  /\ signalled \in [TradeLegs -> Int] /\ finished \in [TradeSides -> Nat]
           /\ \A l \in TradeLegs : signalled[l] \in Int /\ -Sent <= signalled[l] /\ signalled[l] <= Sent
           /\ Standing = Total(signalled) /\ Standing \in Int
<1>1. Sent \in Nat
  BY SentIs
<1>2. signalled \in [TradeLegs -> Int] /\ finished \in [TradeSides -> Nat]
  BY DEF SignalIInv, Signalled
<1>3. ASSUME NEW l \in TradeLegs
      PROVE  signalled[l] \in Int /\ -Sent <= signalled[l] /\ signalled[l] <= Sent
  <2>1. signalled[l] \in -Sent..Sent
    BY DEF SignalIInv, Signalled
  <2> QED BY <1>1, <2>1
<1>4. Standing = Total(signalled) /\ Standing \in Int
  BY <1>2 DEF Standing, Total, TradeLegs
<1> QED BY <1>2, <1>3, <1>4

(* A bar that enters a trade keeps the invariant.                          *)
LEMMA EnterStep ==
    ASSUME SignalIInv, UNCHANGED <<followed, countingVars>>, followed \in Trading,
           NEW l \in Rule.legs, NEW v \in MarketLevels, EnterTrade(l, v)
    PROVE  SignalIInv'
<1> DEFINE side == Rule.enters[v]
           leg == On(Rule.entryOn, l)
<1>1. /\ ~InTrade /\ side # "none" /\ Sent < MaxSent /\ warmed' = Rule.legs
      /\ signalled' = [signalled EXCEPT ![leg] = @ + Worth(side)]
      /\ UNCHANGED <<finished, turned, strayed>>
  BY DEF EnterTrade, Warm
<1>2. side \in TradeSides /\ leg \in TradeLegs /\ (followed \notin InPairs => leg = "a")
  <2>1. v \in Levels /\ Rule.enters \in Entries
    BY LevelsAre, RulesTrade
  <2>2. side \in TradeSides
    BY <1>1, <2>1, EntriesAre
  <2>3. leg \in TradeLegs /\ (followed \notin InPairs => leg = "a")
    BY RulesDeal DEF On
  <2> QED BY <2>2, <2>3
<1>3. PICK e \in TradeSides \cup {"none"} :
          stance' = [side |-> side, leg |-> leg, level |-> v, bars |-> 0, exposure |-> e, hedged |-> {}]
  BY DEF EnterTrade
<1>4. side = Rule.enters[v]
  OBVIOUS
<1> HIDE DEF side, leg
<1>5. /\ stance' \in [side : TradeSides, leg : TradeLegs, level : MarketLevels,
                      bars : 0..(MaxHold - 1), exposure : TradeSides \cup {"none"},
                      hedged : SUBSET TradeSides]
      /\ stance'.side = side /\ stance'.leg = leg /\ stance'.level = v /\ stance'.hedged = {}
  <2>1. 0 \in 0..(MaxHold - 1)
    BY SignalAssumption
  <2> QED BY <1>2, <1>3, <2>1
<1>6. Entered'
  BY <1>2, <1>4, <1>5, RuleStays DEF Entered
<1>7. InTrade'
  BY <1>2, <1>5, FreeStance DEF InTrade, TradeSides
<1>8. stance = NoTrade /\ Worth(stance.side) = 0
  BY <1>1, FreeStance, Worths DEF InTrade
<1>9. Worth(side) \in {-1, 1}
  BY <1>2, Worths
<1>10. /\ signalled' \in [TradeLegs -> Int] /\ signalled'[leg] = signalled[leg] + Worth(side)
       /\ \A m \in TradeLegs \ {leg} : signalled'[m] = signalled[m]
       /\ Standing' = Standing + Worth(side)
  <2>1. Worth(side) \in Int
    BY <1>9
  <2>2. Standing' = Total(signalled')
    BY DEF Standing, Total
  <2>3. signalled \in [TradeLegs -> Int] /\ Standing = Total(signalled)
    BY SignalledIs
  <2> DEFINE w == Worth(side)
             next == [signalled EXCEPT ![leg] = @ + w]
  <2>4. signalled' = next
    BY <1>1
  <2>5. w \in Int
    BY <2>1
  <2> HIDE DEF w
  <2>6. /\ next \in [TradeLegs -> Int] /\ next[leg] = signalled[leg] + w
        /\ \A m \in TradeLegs \ {leg} : next[m] = signalled[m]
        /\ Total(next) = Total(signalled) + w
    BY <1>2, <2>3, <2>5, SignalAdds
  <2> QED BY <2>2, <2>3, <2>4, <2>6 DEF w
<1>11. Sent' = Sent + 1 /\ Sent \in Nat
  <2>1. Sent' = 2 * (finished["buy"] + finished["sell"]) + 1
    BY <1>1, <1>7 DEF Sent
  <2> QED BY <1>1, <2>1, SentIs
<1>12. Signalled'
  <2>1. signalled' \in [TradeLegs -> Int] /\ finished' \in [TradeSides -> Nat]
    BY <1>1, <1>10, SignalledIs
  <2>2. Sent' <= MaxSent + IF InTrade' THEN 0 ELSE 1
    BY <1>1, <1>7, <1>11, SignalAssumption
  <2>3. \A m \in TradeLegs : signalled'[m] \in -Sent'..Sent'
    <3>1. ASSUME NEW m \in TradeLegs
          PROVE  signalled'[m] \in -Sent'..Sent'
      <4>1. signalled[m] \in Int /\ -Sent <= signalled[m] /\ signalled[m] <= Sent
        BY SignalledIs
      <4>2. signalled'[m] \in {signalled[m] - 1, signalled[m], signalled[m] + 1}
        BY <1>2, <1>9, <1>10, <4>1
      <4> QED BY <1>11, <4>1, <4>2
    <3> QED BY <3>1
  <2>4. Adding'
    <3>1. Adding
      BY DEF SignalIInv, Signalled
    <3>2. finished["sell"] \in Nat /\ finished["buy"] \in Nat /\ Standing \in Int
      BY SentIs, SignalledIs
    <3>3. CASE followed \in SellsOut
      <4>1. Standing = 0 - 2 * finished["sell"]
        BY <1>8, <3>1, <3>3 DEF Adding, SellsOut
      <4>2. Standing' = Worth(side) - 2 * finished["sell"]
        BY <1>9, <1>10, <3>2, <4>1
      <4> QED BY <1>1, <1>5, <3>3, <4>2 DEF Adding, SellsOut
    <3>4. CASE followed = "ratio"
      <4>1. PICK n \in 0..finished["buy"] : Standing = 0 + 2 * n
        BY <1>8, <3>1, <3>4 DEF Adding, SellsOut
      <4>2. Standing' = Worth(side) + 2 * n
        BY <1>9, <1>10, <3>2, <4>1
      <4>3. \E k \in 0..finished'["buy"] : Standing' = Worth(stance'.side) + 2 * k
        BY <1>1, <1>5, <4>2
      <4> QED BY <3>4, <4>3 DEF Adding, SellsOut
    <3>5. CASE followed \notin SellsOut /\ followed # "ratio"
      <4>1. Standing = 0
        BY <1>8, <3>1, <3>5 DEF Adding
      <4>2. Standing' = Worth(stance'.side)
        BY <1>5, <1>9, <1>10, <4>1
      <4> QED BY <3>5, <4>2 DEF Adding
    <3> QED BY <3>3, <3>4, <3>5
  <2>5. Undone'
    <3>1. SUFFICES ASSUME ~strayed, followed # "ratio",
                          followed \in SellsOut => finished["sell"] = 0,
                          NEW m \in TradeLegs
                   PROVE  signalled'[m] = IF m = leg THEN Worth(side) ELSE 0
      BY <1>1, <1>5, <1>7 DEF Undone
    <3>2. \A k \in TradeLegs : signalled[k] = 0
      BY <1>1, <3>1 DEF SignalIInv, Signalled, Undone
    <3> QED BY <1>2, <1>9, <1>10, <3>2
  <2>6. /\ strayed' \in BOOLEAN /\ (strayed' => followed' \in InPairs)
        /\ followed' = "triangular" => finished'["sell"] = 0
    BY <1>1 DEF SignalIInv, Signalled
  <2> QED BY <2>1, <2>2, <2>3, <2>4, <2>5, <2>6 DEF Signalled
<1>13. warmed' \subseteq TradeLegs
  BY <1>1, RulesDeal
<1> QED
  BY <1>1, <1>6, <1>12, <1>13
  DEF SignalIInv, Tallied, countingVars, ExitsOnReversion, LongPause

\* A trade ends with a signal that one of its exits may be.
LEMMA EndStep ==
    ASSUME SignalIInv, UNCHANGED followed, InTrade, NEW l \in Rule.legs, NEW side,
           Discharges(side), End(l, side)
    PROVE  Signalled' /\ ~InTrade'
<1> DEFINE leg == On(Rule.exitOn, l)
           was == stance.side
<1>1. /\ Entered /\ stance' = NoTrade
      /\ signalled' = [signalled EXCEPT ![leg] = @ + Worth(side)]
      /\ finished' = [finished EXCEPT ![was] = @ + 1]
      /\ strayed' = (strayed \/ leg # stance.leg)
  BY DEF End, SignalIInv
<1>2. leg \in TradeLegs /\ (followed \notin InPairs => leg = stance.leg)
  BY <1>1, RulesDeal DEF On, Entered
<1>3. was \in TradeSides /\ stance.leg \in TradeLegs /\ Worth(was) \in {-1, 1}
  BY <1>1, TradeIs DEF Entered
<1>4. /\ followed = "triangular" => was = "buy"
      /\ followed = "ratio" => was = "buy"
  BY <1>1, TradeIs
<1> HIDE DEF leg, was
<1>5. side \in TradeSides /\ Worth(side) \in {-1, 1}
  BY Worths DEF Discharges
<1>6. ~InTrade' /\ Worth(stance'.side) = 0
  BY <1>1, FreeStance, Worths DEF InTrade
<1>7. /\ signalled' \in [TradeLegs -> Int] /\ signalled'[leg] = signalled[leg] + Worth(side)
      /\ \A m \in TradeLegs \ {leg} : signalled'[m] = signalled[m]
      /\ Standing' = Standing + Worth(side)
  <2>1. Worth(side) \in Int
    BY <1>5
  <2>2. Standing' = Total(signalled')
    BY DEF Standing, Total
  <2>3. signalled \in [TradeLegs -> Int] /\ Standing = Total(signalled)
    BY SignalledIs
  <2> DEFINE w == Worth(side)
             next == [signalled EXCEPT ![leg] = @ + w]
  <2>4. signalled' = next
    BY <1>1
  <2>5. w \in Int
    BY <2>1
  <2> HIDE DEF w
  <2>6. /\ next \in [TradeLegs -> Int] /\ next[leg] = signalled[leg] + w
        /\ \A m \in TradeLegs \ {leg} : next[m] = signalled[m]
        /\ Total(next) = Total(signalled) + w
    BY <1>2, <2>3, <2>5, SignalAdds
  <2> QED BY <2>2, <2>3, <2>4, <2>6 DEF w
<1>8. /\ finished' \in [TradeSides -> Nat] /\ finished'[was] = finished[was] + 1
      /\ \A s \in TradeSides \ {was} : finished'[s] = finished[s]
  BY <1>1, <1>3, SignalledIs
<1>9. /\ finished["buy"] \in Nat /\ finished["sell"] \in Nat
      /\ was = "buy" => finished'["buy"] = finished["buy"] + 1 /\ finished'["sell"] = finished["sell"]
      /\ was = "sell" => finished'["sell"] = finished["sell"] + 1 /\ finished'["buy"] = finished["buy"]
      /\ was = "buy" \/ was = "sell"
  BY <1>3, <1>8, SentIs DEF TradeSides
<1>10. Sent' = Sent + 1 /\ Sent \in Nat
  <2>1. Sent = 2 * (finished["buy"] + finished["sell"]) + 1
    BY SentIs
  <2>2. Sent' = 2 * (finished'["buy"] + finished'["sell"])
    BY <1>6, <1>9 DEF Sent
  <2> QED BY <1>9, <2>1, <2>2
<1>11. Sent' <= MaxSent + 1
  <2>1. Sent <= MaxSent
    BY SignalAssumption, SentIs DEF SignalIInv, Signalled
  <2> QED BY <1>10, <2>1, SignalAssumption
<1>12. \A m \in TradeLegs : signalled'[m] \in -Sent'..Sent'
  <2>1. ASSUME NEW m \in TradeLegs
        PROVE  signalled'[m] \in -Sent'..Sent'
    <3>1. signalled[m] \in Int /\ -Sent <= signalled[m] /\ signalled[m] <= Sent
      BY SignalledIs
    <3>2. signalled'[m] \in {signalled[m] - 1, signalled[m], signalled[m] + 1}
      BY <1>2, <1>5, <1>7, <3>1
    <3> QED BY <1>10, <3>1, <3>2
  <2> QED BY <2>1
<1>13. Adding'
  <2>1. Adding /\ Standing \in Int
    BY SignalledIs DEF SignalIInv, Signalled
  <2>2. CASE followed \in SellsOut
    <3>1. Standing = Worth(was) - 2 * finished["sell"]
      BY <2>1, <2>2 DEF Adding, SellsOut, was
    <3>2. Worth(side) = -1
      BY <2>2, Worths DEF Discharges
    <3>3. Standing' = 0 - 2 * finished'["sell"]
      <4>1. CASE was = "buy"
        <5>1. Worth(was) = 1
          BY <4>1, Worths
        <5> QED BY <1>7, <1>9, <3>1, <3>2, <4>1, <5>1
      <4>2. CASE was = "sell"
        <5>1. Worth(was) = -1
          BY <4>2, Worths
        <5> QED BY <1>7, <1>9, <3>1, <3>2, <4>2, <5>1
      <4> QED BY <1>9, <4>1, <4>2
    <3> QED BY <1>6, <2>2, <3>3 DEF Adding, SellsOut
  <2>3. CASE followed = "ratio"
    <3>1. PICK n \in 0..finished["buy"] : Standing = Worth(was) + 2 * n
      BY <2>1, <2>3 DEF Adding, SellsOut, was
    <3>2. Worth(was) = 1 /\ finished'["buy"] = finished["buy"] + 1
      BY <1>4, <1>9, <2>3, Worths
    <3>3. CASE Worth(side) = -1
      <4>1. Standing' = 0 + 2 * n /\ n \in 0..finished'["buy"]
        BY <1>7, <1>9, <2>1, <3>1, <3>2, <3>3
      <4> QED BY <1>6, <2>3, <4>1 DEF Adding, SellsOut
    <3>4. CASE Worth(side) = 1
      <4>1. Standing' = 0 + 2 * (n + 1) /\ n + 1 \in 0..finished'["buy"]
        BY <1>7, <1>9, <2>1, <3>1, <3>2, <3>4
      <4> QED BY <1>6, <2>3, <4>1 DEF Adding, SellsOut
    <3> QED BY <1>5, <3>3, <3>4
  <2>4. CASE followed \notin SellsOut /\ followed # "ratio"
    <3>1. Standing = Worth(was)
      BY <2>1, <2>4 DEF Adding, was
    <3>2. Worth(side) + Worth(was) = 0
      BY <1>3, <2>4, Worths DEF Discharges, was
    <3>3. Standing' = 0
      BY <1>3, <1>5, <1>7, <3>1, <3>2
    <3> QED BY <1>6, <2>4, <3>3 DEF Adding
  <2> QED BY <2>2, <2>3, <2>4
<1>14. Undone'
  <2>1. SUFFICES ASSUME ~strayed', followed # "ratio",
                        followed \in SellsOut => finished'["sell"] = 0,
                        NEW m \in TradeLegs
                 PROVE  signalled'[m] = 0
    BY <1>6 DEF Undone
  <2>2. ~strayed /\ leg = stance.leg
    BY <1>1, <2>1
  <2>3. followed \in SellsOut => finished["sell"] = 0 /\ was = "buy"
    BY <1>9, <2>1
  <2>4. Worth(side) + Worth(was) = 0
    <3>1. CASE followed \in SellsOut
      <4>1. was = "buy" /\ side = "sell"
        BY <2>3, <3>1 DEF Discharges
      <4>2. Worth(side) = -1 /\ Worth(was) = 1
        BY <4>1, Worths
      <4> QED BY <4>2
    <3>2. CASE followed \notin SellsOut
      BY <1>3, <2>1, <3>2, Worths DEF Discharges, was
    <3> QED BY <3>1, <3>2
  <2>5. \A k \in TradeLegs : signalled[k] = IF k = stance.leg THEN Worth(was) ELSE 0
    BY <2>1, <2>2, <2>3 DEF SignalIInv, Signalled, Undone, was
  <2> QED BY <1>2, <1>3, <1>5, <1>7, <2>2, <2>4, <2>5
<1>15. strayed' \in BOOLEAN /\ (strayed' => followed \in InPairs)
  BY <1>1, <1>2 DEF SignalIInv, Signalled
<1>16. followed = "triangular" => finished'["sell"] = 0
  BY <1>4, <1>9 DEF SignalIInv, Signalled
<1>17. Signalled'
  BY <1>6, <1>7, <1>8, <1>11, <1>12, <1>13, <1>14, <1>15, <1>16 DEF Signalled
<1> QED BY <1>6, <1>17

\* The exits: after a time, by the indicator, and on a condition of their own
LEMMA ExitStep ==
    ASSUME SignalIInv, UNCHANGED <<followed, countingVars>>, followed \in Trading,
           NEW l \in Rule.legs, NEW v,
           Expire(l) \/ (v \in MarketLevels /\ (Leave(l, v) \/ Break(l, v)))
    PROVE  SignalIInv'
<1>1. InTrade /\ Entered /\ warmed' = Rule.legs
  BY DEF Expire, Leave, Break, Warm, SignalIInv
<1>2. \E side : Discharges(side) /\ End(l, side)
  BY <1>1, ExitsDischarge DEF Expire, Leave, Break
<1>3. Signalled' /\ ~InTrade'
  BY <1>1, <1>2, EndStep
<1>4. warmed' \subseteq TradeLegs
  BY <1>1, RulesDeal
<1>5. /\ turned' = <<>> \/ turned' \in Levels \X Levels
      /\ followed \notin Hasty => ExitsOnReversion'
  <2>1. CASE UNCHANGED turned
    BY <2>1 DEF SignalIInv, ExitsOnReversion
  <2>2. CASE v \in MarketLevels /\ Leave(l, v)
    <3>1. turned' = <<stance.level, v>> /\ v \in Rule.leaves[stance.side]
      BY <2>2 DEF Leave, Ends
    <3>2. stance.level \in Levels /\ v \in Levels
      BY <1>1, <2>2, TradeIs, LevelsAre
    <3>3. followed \notin Hasty => stance.level \notin Rule.leaves[stance.side]
      <4>1. stance.side = Rule.enters[stance.level] /\ stance.side # "none"
        BY <1>1, TradeIs DEF Entered, TradeSides
      <4>2. followed \notin Hasty => Parted(Rule.enters, Rule.leaves)
        BY RulesTrade
      <4> QED BY <3>2, <4>1, <4>2 DEF Parted
    <3>4. turned'[1] = stance.level /\ turned'[2] = v
      BY <3>1
    <3> QED BY <3>1, <3>2, <3>3, <3>4 DEF ExitsOnReversion
  <2> QED BY <2>1, <2>2 DEF Expire, Break
<1> QED
  BY <1>3, <1>4, <1>5
  DEF SignalIInv, Tallied, countingVars, LongPause

(* A step of the strategies that count, cost averaging and market making,  *)
(* keeps the invariant.                                                    *)
LEMMA CountingStep ==
    ASSUME SignalIInv, UNCHANGED <<followed, tradingVars>>, CountingNext
    PROVE  SignalIInv'
<1>1. UNCHANGED <<warmed, stance, signalled, finished, turned, strayed>>
  BY DEF tradingVars
<1>2. Signalled'
  BY <1>1, QuietStep DEF InTrade
<1>3. InTrade' => Entered'
  BY <1>1, RuleStays DEF SignalIInv, InTrade, Entered
<1>4. /\ DcaInterval \in Nat \ {0} /\ DcaMaxBuys \in Nat \ {0} /\ MaxStock \in Nat \ {0}
      /\ SkewStep \in Nat /\ LongPause \in Nat
  BY SignalAssumption DEF LongPause
<1>5. /\ pause \in 0..LongPause /\ purchases \in 0..DcaMaxBuys /\ unpaused \in 0..purchases
      /\ inventory = 0 /\ quoted = 0
  BY DEF SignalIInv, Tallied
<1>6. NextPause \in 0..LongPause
  BY <1>4, <1>5 DEF NextPause
<1>7. LongPause' = LongPause
  BY DEF LongPause
<1>8. CASE DcaWait
  <2>1. /\ pause' \in 0..LongPause /\ UNCHANGED <<inventory, quoted>>
        /\ purchases' = 0 \/ purchases' = purchases
        /\ unpaused' = 0 \/ unpaused' = unpaused
        /\ purchases' = purchases \/ unpaused' = 0
    BY <1>6, <1>8 DEF DcaWait
  <2> QED BY <1>1, <1>2, <1>3, <1>4, <1>5, <1>7, <2>1 DEF SignalIInv, Tallied, ExitsOnReversion
<1>9. CASE DcaBuy
  <2>1. /\ pause' = 0 /\ purchases < DcaMaxBuys /\ purchases' = purchases + 1
        /\ unpaused' = 1 \/ unpaused' = unpaused + 1
        /\ UNCHANGED <<inventory, quoted>>
    BY <1>9 DEF DcaBuy
  <2> QED BY <1>1, <1>2, <1>3, <1>4, <1>5, <1>7, <2>1 DEF SignalIInv, Tallied, ExitsOnReversion
<1>10. ASSUME NEW half \in HalfSpreads, Provide(half)
       PROVE  SignalIInv'
  <2>1. half \in Nat \ {0}
    BY SignalAssumption
  <2>2. ~AtLimit
    BY <1>4, <1>5 DEF AtLimit
  <2>3. inventory * SkewStep = 0
    BY <1>4, <1>5
  <2>4. BidAbove(half) = 0 - half /\ AskAbove(half) = half
    BY <2>1, <2>3 DEF BidAbove, AskAbove
  <2>5. Quote(half) = 0
    BY <2>1, <2>2, <2>4 DEF Quote
  <2>6. quoted' = 0 /\ inventory' = 0 /\ UNCHANGED <<pause, purchases, unpaused>>
    BY <1>5, <1>10, <2>2, <2>5 DEF Provide
  <2> QED BY <1>1, <1>2, <1>3, <1>5, <1>7, <2>6 DEF SignalIInv, Tallied, ExitsOnReversion
<1> QED BY <1>8, <1>9, <1>10 DEF CountingNext

(* Every step of the strategies keeps their invariant.                     *)
LEMMA SignalStep ==
    ASSUME SignalIInv, SignalNext \/ UNCHANGED signalVars
    PROVE  SignalIInv'
<1>1. CASE UNCHANGED signalVars
  <2>1. UNCHANGED <<followed, warmed, stance, signalled, finished, turned, strayed,
                    pause, purchases, unpaused, inventory, quoted>>
    BY <1>1 DEF signalVars, tradingVars, countingVars
  <2>2. Signalled'
    BY <2>1, QuietStep DEF InTrade
  <2>3. InTrade' => Entered'
    BY <2>1, RuleStays DEF SignalIInv, InTrade, Entered
  <2> QED BY <2>1, <2>2, <2>3 DEF SignalIInv, Tallied, ExitsOnReversion, LongPause
<1>2. CASE followed \in Trading /\ TradingNext /\ UNCHANGED <<followed, countingVars>>
  <2>1. PICK l \in Rule.legs :
           \/ Skip(l)
           \/ Expire(l)
           \/ \E v \in MarketLevels : EnterTrade(l, v) \/ Leave(l, v) \/ Break(l, v) \/ Stay(l, v)
    BY <1>2 DEF TradingNext
  <2>2. CASE Skip(l)
    BY <1>2, <2>2, SkipStep
  <2>3. ASSUME Expire(l), NEW v
        PROVE  SignalIInv'
    BY <1>2, <2>3, ExitStep
  <2>4. ASSUME NEW v \in MarketLevels, EnterTrade(l, v) \/ Leave(l, v) \/ Break(l, v) \/ Stay(l, v)
        PROVE  SignalIInv'
    <3>1. CASE EnterTrade(l, v)
      BY <1>2, <3>1, EnterStep
    <3>2. CASE Leave(l, v) \/ Break(l, v)
      BY <1>2, <3>2, ExitStep
    <3>3. CASE Stay(l, v)
      BY <1>2, <3>3, StayStep
    <3> QED BY <2>4, <3>1, <3>2, <3>3
  <2> QED BY <2>1, <2>2, <2>3, <2>4
<1>3. CASE CountingNext /\ UNCHANGED <<followed, tradingVars>>
  BY <1>3, CountingStep
<1> QED BY <1>1, <1>2, <1>3 DEF SignalNext

(* StrategiesKeepTrack: the signals of a strategy undo each other, so that *)
(* they add up to its open trade, but in the strategies and the ways named *)
(* there; but for two, a trade ends at another level than it was entered   *)
(* at; a hedge against a frozen exposure stays on one side; purchases and  *)
(* quotes are counted (strategies).                                        *)
THEOREM StrategiesAreTracked ==
    SignalSpec => [](SignalTypeOK /\ StrategiesKeepTrack)
<1>1. SignalInit => SignalIInv
  BY SignalInitHolds
<1>2. SignalIInv /\ [SignalNext]_signalVars => SignalIInv'
  BY SignalStep
<1>3. SignalIInv => SignalTypeOK /\ StrategiesKeepTrack
  BY SignalInvHolds
<1> QED BY <1>1, <1>2, <1>3, PTL DEF SignalSpec

-----------------------------------------------------------------------------
(* The composition                                                         *)

(* Each part of the desk starts as its own specification says.             *)
LEMMA DeskBegin ==
    DeskInit => /\ OmsInit /\ BooksInit /\ RiskInit /\ SchedInit /\ LifeInit
                /\ BackendInit /\ BacktestInit /\ AgentInit /\ AllocationInit
                /\ EvolverInit /\ TraderInit /\ SignalInit
BY DEF DeskInit

(* A step of what is tried without the market is one of each part of it,   *)
(* or leaves the part alone.                                               *)
LEMMA SimulationParts ==
    SimulationNext \/ UNCHANGED simulationVars =>
        /\ [BackendNext]_backendVars /\ [BacktestNext]_backtestVars /\ [AgentNext]_agentVars
        /\ [AllocationNext]_allocationVars /\ [EvolveGeneration \/ OnBar]_evolutionVars
        /\ [SignalNext]_signalVars
<1>1. UNCHANGED simulationVars =>
          UNCHANGED <<backendVars, backtestVars, agentVars, allocationVars, evolutionVars, signalVars>>
  BY DEF simulationVars, evolutionVars
<1>2. SimulationNext => BackendNext \/ UNCHANGED backendVars
  BY DEF SimulationNext
<1>3. SimulationNext => BacktestNext \/ UNCHANGED backtestVars
  BY DEF SimulationNext
<1>4. SimulationNext => AgentNext \/ UNCHANGED agentVars
  BY DEF SimulationNext
<1>5. SimulationNext => AllocationNext \/ UNCHANGED allocationVars
  BY DEF SimulationNext, AllocationNext
<1>6. SimulationNext => EvolveGeneration \/ OnBar \/ UNCHANGED evolutionVars
  BY DEF SimulationNext, evolutionVars
<1>7. SimulationNext => SignalNext \/ UNCHANGED signalVars
  BY DEF SimulationNext
<1> QED BY <1>1, <1>2, <1>3, <1>4, <1>5, <1>6, <1>7

(* A step of the desk is one of each of its parts, or leaves it alone.     *)
LEMMA DeskParts ==
    [DeskNext]_deskVars =>
        /\ [OmsNext]_omsVars /\ [BooksNext]_bookVars /\ [RiskNext]_riskVars
        /\ [SchedNext]_schedVars /\ [LifeNext]_lifeVars
        /\ [BackendNext]_backendVars /\ [BacktestNext]_backtestVars /\ [AgentNext]_agentVars
        /\ [AllocationNext]_allocationVars /\ [EvolveGeneration \/ OnBar]_evolutionVars
        /\ [SignalNext]_signalVars
<1>1. UNCHANGED deskVars =>
          UNCHANGED <<omsVars, bookVars, riskVars, schedVars, lifeVars, simulationVars>>
  BY DEF deskVars
<1>2. DeskNext => OmsNext \/ UNCHANGED omsVars
  BY DEF DeskNext
<1>3. DeskNext => BooksNext \/ UNCHANGED bookVars
  BY DEF DeskNext
<1>4. DeskNext => RiskNext \/ UNCHANGED riskVars
  BY DEF DeskNext
<1>5. DeskNext => SchedNext \/ UNCHANGED schedVars
  BY DEF DeskNext
<1>6. DeskNext => LifeNext \/ UNCHANGED lifeVars
  BY DEF DeskNext
<1>7. DeskNext => SimulationNext \/ UNCHANGED simulationVars
  BY DEF DeskNext
<1> QED BY <1>1, <1>2, <1>3, <1>4, <1>5, <1>6, <1>7, SimulationParts

(* A behaviour of the desk is one of each of its parts.                    *)
LEMMA DeskIsItsParts ==
    DeskSpec => /\ OmsSpec /\ BooksSpec /\ RiskSpec /\ SchedSpec /\ LifeSpec
                /\ BackendSpec /\ BacktestSpec /\ AgentSpec /\ AllocationSpec
                /\ EvolutionSpec /\ SignalSpec
BY DeskBegin, DeskParts, PTL
   DEF DeskSpec, OmsSpec, BooksSpec, RiskSpec, SchedSpec, LifeSpec, BackendSpec, BacktestSpec,
       AgentSpec, AllocationSpec, EvolutionSpec, SignalSpec

(* SimulationsAccounted: whatever is tried or decided without the market,  *)
(* on paper, on past bars, by agents, by the orchestrator, the factory and *)
(* the evolver or by a strategy that tracks its trade, is accounted for    *)
(* (MCDesk).                                                               *)
THEOREM SimulationsAreAccounted == DeskSpec => []SimulationsAccounted
<1>1. /\ BackendTypeOK /\ BackendSolvent /\ BacktestTypeOK /\ BacktestAccounted
      /\ AgentTypeOK /\ AgentDecides
      /\ AllocationTypeOK /\ WeightsHold /\ SignalsResolved /\ InstancesAccounted
      /\ EvolverTypeOK /\ BestSurvives /\ TraderTypeOK /\ TradeBeforeExit /\ EntriesMirror
      /\ SignalTypeOK /\ StrategiesKeepTrack
      => SimulationsAccounted
  BY DEF SimulationsAccounted
<1> QED BY <1>1, DeskIsItsParts, BackendStaysSolvent, BacktestsBalance, AgentsRetireFirst,
           AllocationsHold, EvolutionKeepsTheBest, StrategiesAreTracked, PTL

(* The desk keeps all it promises at once: the order table, the books, the *)
(* risk guards, the tasks, the strategies' lifecycle and the simulations.  *)
THEOREM DeskIsKept ==
    DeskSpec => []( /\ OmsAccounted /\ BooksAgree /\ RiskHolds /\ SchedulerHonest
                    /\ LifecycleHolds /\ SimulationsAccounted )
BY DeskIsItsParts, OmsAccounts, BooksAreExact, BreakersLast, SchedulerKeepsPromises,
   LimitsStopStrategies, SimulationsAreAccounted, PTL
=============================================================================
