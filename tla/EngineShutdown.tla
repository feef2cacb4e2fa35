--------------------------- MODULE EngineShutdown ---------------------------
(***************************************************************************)
(* How the engine of engine/async_engine.py stops while its strategies     *)
(* still trade: start waits for a signal and then awaits stop, which stops *)
(* the data feed, flushes the order pipeline, pauses, cancels the tasks    *)
(* and disconnects the exchanges. Each of these suspends, and in between   *)
(* the strategy tasks go on with what is already in their queues.          *)
(*                                                                         *)
(* A strategy waits for a bar; when none comes in time it works off its    *)
(* ticks. What it decides is free. Of the order pipeline the model keeps   *)
(* what stop depends on: which orders are in _open_orders. Its two tasks   *)
(* are not among the engine's, so the poller outlives the stop. A second   *)
(* call of stop returns at once and is left out.                           *)
(***************************************************************************)
EXTENDS Integers, FiniteSets

CONSTANTS
    Traders,     \* the strategies
    TradeNames,  \* names for the orders they submit
    NoTrade,     \* no order: not one of TradeNames
    MaxBars,     \* bound on the bars published
    MaxTicks     \* bound on the ticks published

ASSUME EngineShutdownAssumption ==
    /\ IsFiniteSet(Traders) /\ NoTrade \notin TradeNames
    /\ MaxBars \in Nat /\ MaxTicks \in Nat

VARIABLES
    stage,       \* the await at which start or stop stands
    running,     \* _running
    signalled,   \* _shutdown_event
    published,   \* published[k]: bars and ticks the feed has published
    onBus,       \* onBus[k]: those the bus has not dispatched yet
    inbox,       \* inbox[s][k]: bar_queue and tick_queue of strategy s
    trader,      \* trader[s]: where the task of strategy s stands
    tracked,     \* _open_orders
    toCancel,    \* what is left of flush's copy of them
    atExchange,  \* external: atExchange[o]: "unused", "sent", "live" or "over"
    early,       \* history: orders in _open_orders before flush copied it
    refused,     \* history: orders whose cancellation raised
    raised,      \* history: strategies whose on_tick has raised
    lateBars     \* history: lateBars[s]: bars taken since _running was cleared

stopVars == <<stage, running, signalled, toCancel, refused>>
itemVars == <<published, onBus, inbox>>
engVars == <<stopVars, itemVars, trader, tracked, atExchange, early, raised, lateBars>>

Items == {"bar", "tick"}
MaxOf(k) == IF k = "bar" THEN MaxBars ELSE MaxTicks
Stages == {"running", "feeds", "flush", "pause", "disconnect", "stopped"}

\* where a task may stand, and on which item: "deciding" is before its order
\* is sent, "submitting" after
Standing(at, item, order) == [at |-> at, item |-> item, order |-> order]
Waiting == Standing("waiting", "bar", NoTrade)
Draining == Standing("draining", "tick", NoTrade)
Ended == Standing("ended", "bar", NoTrade)

EngTypeOK ==
    /\ stage \in Stages
    /\ running \in BOOLEAN /\ signalled \in BOOLEAN
    /\ \A k \in Items : published[k] \in 0..MaxOf(k)
    /\ onBus \in [Items -> Nat]
    /\ inbox \in [Traders -> [Items -> Nat]]
    /\ trader \in [Traders -> [at : {"waiting", "draining", "deciding", "submitting", "ended"},
                               item : Items, order : TradeNames \cup {NoTrade}]]
    /\ tracked \subseteq TradeNames /\ toCancel \subseteq TradeNames
    /\ atExchange \in [TradeNames -> {"unused", "sent", "live", "over"}]
    /\ early \subseteq TradeNames /\ refused \subseteq TradeNames
    /\ raised \subseteq Traders
    /\ lateBars \in [Traders -> Nat]

None == [k \in Items |-> 0]

EngInit ==
    /\ stage = "running" /\ running = TRUE /\ signalled = FALSE
    /\ published = None /\ onBus = None
    /\ inbox = [s \in Traders |-> None]
    /\ trader = [s \in Traders |-> Waiting]
    /\ tracked = {} /\ toCancel = {}
    /\ atExchange = [o \in TradeNames |-> "unused"]
    /\ early = {} /\ refused = {} /\ raised = {}
    /\ lateBars = [s \in Traders |-> 0]

-----------------------------------------------------------------------------
(* The data feed and the bus                                               *)

FeedPublishes(k) ==
    /\ stage \in {"running", "feeds"} /\ published[k] < MaxOf(k)
    /\ published' = [published EXCEPT ![k] = @ + 1]
    /\ onBus' = [onBus EXCEPT ![k] = @ + 1]
    /\ UNCHANGED <<stopVars, inbox, trader, tracked, atExchange, early, raised, lateBars>>

(* The bus task dispatches an item to the queues of the strategies that    *)
(* ask for its symbol, until it is cancelled with the other tasks.         *)
BusDispatches(k) ==
    /\ stage \notin {"disconnect", "stopped"} /\ onBus[k] > 0
    /\ onBus' = [onBus EXCEPT ![k] = @ - 1]
    /\ \E takers \in SUBSET Traders :
          inbox' = [s \in Traders |-> IF s \in takers THEN [inbox[s] EXCEPT ![k] = @ + 1]
                                      ELSE inbox[s]]
    /\ UNCHANGED <<stopVars, published, trader, tracked, atExchange, early, raised, lateBars>>

-----------------------------------------------------------------------------
(* A strategy task                                                         *)

\* mutant: the loop does not look at _running
LoopTopBlind == Waiting

\* the head of the strategy's loop
LoopTop == IF running THEN Waiting ELSE Ended

\* where a task goes on after an item: bars are taken one by one, ticks are
\* worked off without looking at _running
GoesOn(item) == IF item = "bar" THEN LoopTop ELSE Draining

Moves(s, to) == trader' = [trader EXCEPT ![s] = to]

TakeItem(s, k) ==
    /\ inbox[s][k] > 0
    /\ inbox' = [inbox EXCEPT ![s][k] = @ - 1]
    /\ Moves(s, Standing("deciding", k, NoTrade))
    /\ UNCHANGED <<stopVars, published, onBus, tracked, atExchange, early, raised>>

TakeBar(s) ==
    /\ trader[s] = Waiting
    /\ TakeItem(s, "bar")
    /\ lateBars' = IF running THEN lateBars ELSE [lateBars EXCEPT ![s] = @ + 1]

TakeTick(s) == trader[s] = Draining /\ TakeItem(s, "tick") /\ UNCHANGED lateBars

OnlyTraders == UNCHANGED <<stopVars, itemVars, tracked, atExchange, early, lateBars>>

(* No bar came within the timeout.                                         *)
TimesOut(s) ==
    /\ trader[s] = Waiting /\ inbox[s]["bar"] = 0
    /\ Moves(s, Draining)
    /\ OnlyTraders /\ UNCHANGED raised

Drained(s) ==
    /\ trader[s] = Draining /\ inbox[s]["tick"] = 0
    /\ Moves(s, LoopTop)
    /\ OnlyTraders /\ UNCHANGED raised

(* No signal, or one the pipeline refuses; an on_bar that raises is logged *)
(* and the loop goes on.                                                   *)
NoOrderSent(s) ==
    /\ trader[s].at = "deciding"
    /\ Moves(s, GoesOn(trader[s].item))
    /\ OnlyTraders /\ UNCHANGED raised

(* An on_tick that raises does so inside the handler of the timeout: no    *)
(* other handler of the same try sees it, and the task ends.               *)
TickRaises(s) ==
    /\ trader[s].at = "deciding" /\ trader[s].item = "tick"
    /\ Moves(s, Ended)
    /\ raised' = raised \cup {s}
    /\ OnlyTraders

Send(s, o) ==
    /\ trader[s].at = "deciding" /\ atExchange[o] = "unused"
    /\ Moves(s, Standing("submitting", trader[s].item, o))
    /\ atExchange' = [atExchange EXCEPT ![o] = "sent"]
    /\ UNCHANGED <<stopVars, itemVars, tracked, early, raised, lateBars>>

(* The adapter answers and the order is tracked, whatever its state ...    *)
SubmitAnswered(s) ==
    /\ trader[s].at = "submitting"
    /\ atExchange[trader[s].order] \in {"live", "over"}
    /\ tracked' = tracked \cup {trader[s].order}
    /\ early' = IF stage \in {"running", "feeds"} THEN early \cup {trader[s].order} ELSE early
    /\ Moves(s, GoesOn(trader[s].item))
    /\ UNCHANGED <<stopVars, itemVars, atExchange, raised, lateBars>>

(* ... or raises, and the order is forgotten.                              *)
SubmitLost(s) ==
    /\ trader[s].at = "submitting"
    /\ Moves(s, GoesOn(trader[s].item))
    /\ OnlyTraders /\ UNCHANGED raised

TraderSteps(s) ==
    \/ TakeBar(s) \/ TakeTick(s) \/ TimesOut(s) \/ Drained(s)
    \/ NoOrderSent(s) \/ TickRaises(s)
    \/ \E o \in TradeNames : Send(s, o)
    \/ SubmitAnswered(s) \/ SubmitLost(s)

-----------------------------------------------------------------------------
(* The exchange and the pipeline's poller                                  *)

(* A request that was sent arrives, even after its sender was cancelled;   *)
(* an order that is live fills, or ends otherwise.                         *)
ExchangeActs(o) ==
    /\ \/ atExchange[o] = "sent" /\ atExchange' \in {[atExchange EXCEPT ![o] = x] : x \in {"live", "over"}}
       \/ atExchange[o] = "live" /\ atExchange' = [atExchange EXCEPT ![o] = "over"]
    /\ UNCHANGED <<stopVars, itemVars, trader, tracked, early, raised, lateBars>>

PollerDrops(o) ==
    /\ o \in tracked /\ atExchange[o] = "over"
    /\ tracked' = tracked \ {o}
    /\ UNCHANGED <<stopVars, itemVars, trader, atExchange, early, raised, lateBars>>

-----------------------------------------------------------------------------
(* stop                                                                    *)

NotTraders == UNCHANGED <<itemVars, early, raised, lateBars>>

SignalHandled ==
    /\ ~signalled
    /\ signalled' = TRUE
    /\ NotTraders /\ UNCHANGED <<stage, running, trader, tracked, toCancel, atExchange, refused>>

StopBegins ==
    /\ stage = "running" /\ signalled
    /\ running' = FALSE
    /\ stage' = "feeds"
    /\ NotTraders /\ UNCHANGED <<signalled, trader, tracked, toCancel, atExchange, refused>>

(* The streams have ended, and flush copies the open orders.               *)
FlushBegins ==
    /\ stage = "feeds"
    /\ stage' = "flush"
    /\ toCancel' = tracked
    /\ NotTraders /\ UNCHANGED <<running, signalled, trader, tracked, atExchange, refused>>

(* One cancellation is answered: the order is over, or the call raises,    *)
(* whether or not the exchange cancelled it, and it stays tracked.         *)
FlushCancels(o) ==
    /\ stage = "flush" /\ o \in toCancel
    /\ toCancel' = toCancel \ {o}
    /\ \/ /\ atExchange[o] = "live"
          /\ atExchange' = [atExchange EXCEPT ![o] = "over"]
          /\ tracked' = tracked \ {o}
          /\ UNCHANGED refused
       \/ /\ refused' = refused \cup {o}
          /\ atExchange' \in {atExchange, [atExchange EXCEPT ![o] = "over"]}
          /\ UNCHANGED tracked
    /\ NotTraders /\ UNCHANGED <<stage, running, signalled, trader>>

FlushEnds ==
    /\ stage = "flush" /\ toCancel = {}
    /\ stage' = "pause"
    /\ NotTraders /\ UNCHANGED <<running, signalled, trader, tracked, toCancel, atExchange, refused>>

(* After the pause every task of the engine is cancelled and waited for: a *)
(* strategy ends at its await, also in the middle of a submission.         *)
TasksCancelled ==
    /\ stage = "pause"
    /\ stage' = "disconnect"
    /\ trader' = [s \in Traders |-> Ended]
    /\ NotTraders /\ UNCHANGED <<running, signalled, tracked, toCancel, atExchange, refused>>

Disconnected ==
    /\ stage = "disconnect"
    /\ stage' = "stopped"
    /\ NotTraders /\ UNCHANGED <<running, signalled, trader, tracked, toCancel, atExchange, refused>>

StopSteps ==
    \/ StopBegins \/ FlushBegins \/ FlushEnds \/ TasksCancelled \/ Disconnected
    \/ \E o \in TradeNames : FlushCancels(o)

EngNext ==
    \/ \E k \in Items : FeedPublishes(k) \/ BusDispatches(k)
    \/ \E s \in Traders : TraderSteps(s)
    \/ \E o \in TradeNames : ExchangeActs(o) \/ PollerDrops(o)
    \/ SignalHandled \/ StopSteps

EngSpec == EngInit /\ [][EngNext]_engVars

-----------------------------------------------------------------------------
(* Properties                                                              *)

(* What a stop leaves behind: no strategy runs once the exchanges are      *)
(* disconnected; an order that was answered before the flush copied the    *)
(* open orders is live only if its cancellation raised (an order answered  *)
(* later, or never, may be: nothing cancels it); a strategy takes at most  *)
(* one more bar once the stop has begun; and one that ends before is one   *)
(* whose on_tick raised.                                                   *)
StopAccounted ==
    /\ stage \in {"disconnect", "stopped"} => \A s \in Traders : trader[s] = Ended
    /\ stage \in {"pause", "disconnect", "stopped"} =>
          \A o \in early : atExchange[o] = "live" => o \in refused
    /\ \A s \in Traders : lateBars[s] <= 1
    /\ running => \A s \in Traders : trader[s] = Ended => s \in raised
=============================================================================
