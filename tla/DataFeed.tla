------------------------------ MODULE DataFeed ------------------------------
(***************************************************************************)
(* The data feed of engine/data_feed.py for one symbol on one exchange:    *)
(* three stream tasks that reconnect with a growing delay, the quality     *)
(* check they share, and the aggregator that makes bars of ticks.          *)
(*                                                                         *)
(* The event bus takes an event without yielding (put_nowait), so a task   *)
(* handles one item in one step, and is cancelled only while it waits for  *)
(* an item or sleeps. The exchange's clock is external: it never goes      *)
(* back, and one unit of it is a bar of the candle stream. Of a bar the    *)
(* model keeps its start, its close and the ticks it holds; the gap        *)
(* warning changes nothing and is left out. A stream that ends normally is *)
(* opened again at once, with no change.                                   *)
(***************************************************************************)
EXTENDS Integers, Sequences, FiniteSets

CONSTANTS
    Streams,         \* the stream tasks: "candle", "tick" and others
    Frames,          \* _tick_aggregation_tfs: their lengths, in the code's order
    Prices,          \* the prices items carry; Bad is NaN
    MaxStaleness,    \* _max_staleness, in units of the clock
    MaxDelay,        \* _MAX_BACKOFF
    MaxTime,         \* bound on the clock
    MaxItems,        \* bound on the items received
    MaxLosses,       \* bound on the connections lost
    MaxStarts        \* bound on the calls of start

ASSUME FeedAssumption ==
    /\ {"candle", "tick"} \subseteq Streams /\ IsFiniteSet(Streams)
    /\ Frames \in Seq(Nat \ {0})
    /\ Prices \subseteq Nat \ {0}
    /\ MaxStaleness \in Nat /\ MaxDelay \in Nat \ {0}
    /\ MaxTime \in Nat /\ MaxItems \in Nat /\ MaxLosses \in Nat /\ MaxStarts \in Nat

VARIABLES
    stream,        \* stream[s]: "off", "starting", "watching" or "backoff"
    delay,         \* backoff of each runner
    activeStreams, \* _active_streams
    restored,      \* history: CONNECTION_RESTORED published
    lost,          \* _reconnect_count, and CONNECTION_LOST published
    losses,        \* history: losses[s]: those of the present runner
    overcounted,        \* history: streams cancelled while they watched
    cut,           \* history: streams cancelled while they backed off
    starts,        \* calls of start
    clock,         \* external: the exchange's clock
    lastStamp,     \* _last_timestamp of the symbol, or -1
    lastPrice,     \* _last_price of the symbol, or 0
    openBar,       \* _bars[i]: the bar frame i is filling
    items,         \* items received
    ticksTaken,    \* history: ticks that passed the check
    barTicks,      \* history: barTicks[i]: ticks in the bars of frame i completed
    barsClosed     \* BAR_CLOSED published

runnerVars == <<stream, delay, activeStreams, restored, lost, losses, overcounted, cut, starts>>
qualityVars == <<lastStamp, lastPrice>>
barVars == <<openBar, ticksTaken, barTicks, barsClosed>>
feedVars == <<runnerVars, clock, items, qualityVars, barVars>>

Bad == 0
NoBar == [start |-> -1, close |-> 0, trades |-> 0]
Lost == {s \in Streams : stream[s] = "backoff"}
Watching == {s \in Streams : stream[s] = "watching"}
Smaller(a, b) == IF a < b THEN a ELSE b

FeedTypeOK ==
    /\ stream \in [Streams -> {"off", "starting", "watching", "backoff"}]
    /\ delay \in [Streams -> 1..MaxDelay]
    /\ activeStreams \in Int
    /\ restored \in Nat /\ lost \in Nat /\ losses \in [Streams -> Nat]
    /\ overcounted \in Nat /\ cut \in Nat /\ starts \in 0..MaxStarts
    /\ clock \in 0..MaxTime
    /\ lastStamp \in -1..MaxTime
    /\ lastPrice \in Prices \cup {0}
    /\ \A i \in 1..Len(Frames) : openBar[i] = NoBar
           \/ openBar[i] \in [start : 0..MaxTime, close : Prices, trades : 1..MaxItems]
    /\ items \in 0..MaxItems
    /\ ticksTaken \in 0..MaxItems /\ barsClosed \in Nat
    /\ barTicks \in [1..Len(Frames) -> 0..MaxItems]

FeedInit ==
    /\ stream = [s \in Streams |-> "off"]
    /\ delay = [s \in Streams |-> 1]
    /\ activeStreams = 0 /\ restored = 0 /\ lost = 0 /\ losses = [s \in Streams |-> 0]
    /\ overcounted = 0 /\ cut = 0 /\ starts = 0
    /\ clock = 0 /\ lastStamp = -1 /\ lastPrice = 0
    /\ openBar = [i \in 1..Len(Frames) |-> NoBar]
    /\ items = 0 /\ ticksTaken = 0 /\ barsClosed = 0
    /\ barTicks = [i \in 1..Len(Frames) |-> 0]

-----------------------------------------------------------------------------
(* The runners                                                             *)

(* start: one task per stream. The quality check and the open bars live on *)
(* from an earlier start.                                                  *)
FeedStart ==
    /\ \A s \in Streams : stream[s] = "off"
    /\ starts < MaxStarts
    /\ starts' = starts + 1
    /\ stream' = [s \in Streams |-> "starting"]
    /\ delay' = [s \in Streams |-> 1]
    /\ losses' = [s \in Streams |-> 0]
    /\ UNCHANGED <<activeStreams, restored, lost, overcounted, cut, clock, items, qualityVars, barVars>>

(* A runner enters its loop and waits for the exchange.                    *)
EnterStream(s) ==
    /\ stream[s] = "starting"
    /\ stream' = [stream EXCEPT ![s] = "watching"]
    /\ activeStreams' = activeStreams + 1
    /\ UNCHANGED <<delay, restored, lost, losses, overcounted, cut, starts, clock, items,
                   qualityVars, barVars>>

\* mutant: the count of active streams forgets to go down
LoseStreamCounted(s) ==
    /\ stream[s] = "watching"
    /\ lost < MaxLosses
    /\ stream' = [stream EXCEPT ![s] = "backoff"]
    /\ lost' = lost + 1
    /\ losses' = [losses EXCEPT ![s] = @ + 1]
    /\ UNCHANGED <<activeStreams, delay, restored, overcounted, cut, starts, clock, items,
                   qualityVars, barVars>>

(* The exchange's iterator raises: CONNECTION_LOST, then the delay.        *)
LoseStream(s) ==
    /\ stream[s] = "watching"
    /\ lost < MaxLosses
    /\ stream' = [stream EXCEPT ![s] = "backoff"]
    /\ activeStreams' = activeStreams - 1
    /\ lost' = lost + 1
    /\ losses' = [losses EXCEPT ![s] = @ + 1]
    /\ UNCHANGED <<delay, restored, overcounted, cut, starts, clock, items, qualityVars, barVars>>

(* The delay is over: it doubles, CONNECTION_RESTORED is published, and    *)
(* only then is the stream opened again.                                   *)
Retry(s) ==
    /\ stream[s] = "backoff"
    /\ delay' = [delay EXCEPT ![s] = Smaller(2 * @, MaxDelay)]
    /\ restored' = restored + 1
    /\ stream' = [stream EXCEPT ![s] = "watching"]
    /\ activeStreams' = activeStreams + 1
    /\ UNCHANGED <<lost, losses, overcounted, cut, starts, clock, items, qualityVars, barVars>>

(* stop: every task is cancelled and awaited. One that watches leaves its  *)
(* loop past the else clause, so it stays counted; one that sleeps leaves  *)
(* by the exception.                                                       *)
FeedStop ==
    /\ \E s \in Streams : stream[s] # "off"
    /\ overcounted' = overcounted + Cardinality(Watching)
    /\ cut' = cut + Cardinality(Lost)
    /\ stream' = [s \in Streams |-> "off"]
    /\ UNCHANGED <<delay, activeStreams, restored, lost, losses, starts, clock, items,
                   qualityVars, barVars>>

-----------------------------------------------------------------------------
(* The quality check and the aggregator                                    *)

Spike(price, last) ==
    /\ last > 0
    /\ 10 * (IF price > last THEN price - last ELSE last - price) > last

(* check_bar, on a bar of that stamp and close, against a baseline.        *)
BarPasses(stamp, close, base) ==
    /\ close # Bad
    /\ base.stamp = -1 \/ stamp - base.stamp <= MaxStaleness
    /\ ~Spike(close, base.price)

Baseline == [stamp |-> lastStamp, price |-> lastPrice]

\* mutant: a bar that fails moves the baseline all the same
BaselineAfterAnyBar(stamp, close, base) ==
    IF close # Bad THEN [stamp |-> stamp, price |-> close] ELSE base

(* What check_bar leaves: a bar that fails leaves the baseline as it was.  *)
BaselineAfter(stamp, close, base) ==
    IF BarPasses(stamp, close, base) THEN [stamp |-> stamp, price |-> close] ELSE base

(* A candle: its stamp is the start of the bar, which is still open when   *)
(* the exchange sends it, so the same bar arrives several times.           *)
CandleArrives(price) ==
    /\ stream["candle"] = "watching"
    /\ items < MaxItems
    /\ items' = items + 1
    /\ lastStamp' = BaselineAfter(clock, price, Baseline).stamp
    /\ lastPrice' = BaselineAfter(clock, price, Baseline).price
    /\ barsClosed' = barsClosed + (IF BarPasses(clock, price, Baseline) THEN 1 ELSE 0)
    /\ UNCHANGED <<runnerVars, clock, openBar, ticksTaken, barTicks>>

(* check_tick                                                              *)
TickPasses(price) == price # Bad /\ ~Spike(price, lastPrice)

FloorTo(frame) == clock - (clock % Frames[frame])

(* The tick completes the bar of a frame when it falls in another one.     *)
Completes(i) == openBar[i] # NoBar /\ openBar[i].start # FloorTo(i)

(* The bars a tick completes go through check_bar one frame after the      *)
(* other, each against the baseline the one before left.                   *)
AfterFrames(price) ==
    LET after[i \in 0..Len(Frames)] ==
            IF i = 0 THEN [base |-> [stamp |-> lastStamp, price |-> price], closed |-> 0]
            ELSE IF Completes(i)
            THEN [base |-> BaselineAfter(openBar[i].start, openBar[i].close, after[i - 1].base),
                  closed |-> after[i - 1].closed
                      + (IF BarPasses(openBar[i].start, openBar[i].close, after[i - 1].base)
                         THEN 1 ELSE 0)]
            ELSE after[i - 1]
    IN  after[Len(Frames)]

(* process_tick: the bar frame i is filling afterwards.                    *)
AddTick(i, price) ==
    [start |-> FloorTo(i), close |-> price,
     trades |-> IF Completes(i) THEN 1 ELSE openBar[i].trades + 1]

TickArrives(price) ==
    /\ stream["tick"] = "watching"
    /\ items < MaxItems
    /\ items' = items + 1
    /\ IF TickPasses(price)
       THEN /\ ticksTaken' = ticksTaken + 1
            /\ openBar' = [i \in 1..Len(Frames) |-> AddTick(i, price)]
            /\ barTicks' = [i \in 1..Len(Frames) |->
                                barTicks[i] + (IF Completes(i) THEN openBar[i].trades ELSE 0)]
            /\ lastStamp' = AfterFrames(price).base.stamp
            /\ lastPrice' = AfterFrames(price).base.price
            /\ barsClosed' = barsClosed + AfterFrames(price).closed
       ELSE UNCHANGED <<qualityVars, barVars>>
    /\ UNCHANGED <<runnerVars, clock>>

(* external: time passes at the exchange.                                  *)
TimePasses ==
    /\ clock < MaxTime
    /\ clock' = clock + 1
    /\ UNCHANGED <<runnerVars, items, qualityVars, barVars>>

FeedNext ==
    \/ FeedStart \/ FeedStop \/ TimePasses
    \/ \E s \in Streams : EnterStream(s) \/ LoseStream(s) \/ Retry(s)
    \/ \E p \in Prices \cup {Bad} : CandleArrives(p) \/ TickArrives(p)

FeedSpec == FeedInit /\ [][FeedNext]_feedVars

-----------------------------------------------------------------------------
(* Properties                                                              *)

(* The streams counted as active are those that watch and those a stop     *)
(* cancelled while they did: a count that never comes back to zero.        *)
StreamsCounted == activeStreams = Cardinality(Watching) + overcounted

(* Every loss announced is announced as over, unless the stream still      *)
(* waits or was cancelled while it did.                                    *)
LossesAnswered == lost = restored + Cardinality(Lost) + cut

(* The delay grows with the losses of the runner's whole life: data that   *)
(* arrives in between does not bring it back.                              *)
DelayFollowsLosses ==
    \A s \in Streams : stream[s] # "off" =>
        LET slept == losses[s] - (IF stream[s] = "backoff" THEN 1 ELSE 0)
        IN  delay[s] = Smaller(2 ^ slept, MaxDelay)

(* Every tick that passed the check is in exactly one bar of every frame,  *)
(* whatever becomes of that bar.                                           *)
TicksInBars ==
    \A i \in 1..Len(Frames) : ticksTaken = barTicks[i] + openBar[i].trades

(* FeedAccounted: what the feed counts, announces and aggregates agrees    *)
(* with what happened to its streams, across losses, stops and restarts    *)
(* (data_feed.py:307-434, 139-182), and the variables keep their types.    *)
FeedAccounted ==
    FeedTypeOK /\ StreamsCounted /\ LossesAnswered /\ DelayFollowsLosses /\ TicksInBars

\* what is proved with it: a stream that waits has lost its connection
FeedIInv ==
    /\ FeedAccounted
    /\ ticksTaken <= items
    /\ \A s \in Streams : stream[s] = "backoff" => losses[s] >= 1

TooLate(stamp) == stamp - lastStamp > MaxStaleness

(* The baseline is further back than any bar still to come can be: a       *)
(* candle now, the bars being filled and those the next ticks begin.       *)
OutOfReach ==
    /\ lastStamp # -1 /\ TooLate(clock)
    /\ \A i \in 1..Len(Frames) :
           TooLate(FloorTo(i)) /\ (openBar[i] = NoBar \/ TooLate(openBar[i].start))

(* DeadFeedStaysDead: once the baseline is out of reach no bar of the      *)
(* symbol is ever published again: a bar refused as stale does not move    *)
(* the baseline, and neither a reconnection nor a restart clears it. One   *)
(* completed bar of a long frame, whose stamp is its start, is enough to   *)
(* take the baseline there (data_feed.py:71-77, 97, 377).                  *)
DeadFeedStaysDead == [][OutOfReach => barsClosed' = barsClosed /\ OutOfReach']_feedVars

=============================================================================
