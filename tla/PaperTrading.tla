---------------------------- MODULE PaperTrading ----------------------------
(***************************************************************************)
(* The paper trading connector (exchanges/paper_trading.py), the exchange  *)
(* the bot trades on unless told otherwise: orders wait out a simulated    *)
(* latency, then fill against a simulated book, or are queued until the    *)
(* price reaches them; a queued order that is reached is taken off the     *)
(* queue at once and executed by a task of its own.                        *)
(*                                                                         *)
(* Between its awaits the connector runs alone: the latency sleep of       *)
(* submit_order and the start of an execution task are the points where    *)
(* other calls come in.                                                    *)
(*                                                                         *)
(* One symbol and one strategy, hence one position. Prices and quantities  *)
(* are whole units; commission is Fee per unit. Average prices and P&L are *)
(* left out, and so are the maker and taker fees that differ in amount     *)
(* only.                                                                   *)
(***************************************************************************)
EXTENDS Integers, FiniteSets, Functions

CONSTANTS
    Orders,         \* the orders clients submit
    Kinds,          \* the orders a client may submit: [side, type, qty, px, stop]
    Prices,         \* the prices of the symbol
    HalfSpread,     \* half the spread of the simulated book
    Impact,         \* bound on market impact and slippage together
    Fee,            \* commission per unit
    InitialBalance,
    MaxResets       \* bound on the calls of reset

OrderTypes == {"MARKET", "LIMIT", "STOP_MARKET", "STOP_LIMIT"}
Limits == {"LIMIT", "STOP_LIMIT"}
Stops == {"STOP_MARKET", "STOP_LIMIT"}
Sides == {"BUY", "SELL"}

\* px: the limit of a limit order; stop: the trigger of a stop order; else 0
Kind == [side : Sides, type : OrderTypes, qty : Nat \ {0}, px : Nat, stop : Nat]

ASSUME PaperAssumption ==
    /\ IsFiniteSet(Orders)
    /\ Kinds \subseteq Kind
    /\ HalfSpread \in Nat /\ Impact \in Nat /\ Fee \in Nat
    \* spread, slippage and commission are basis points of the price
    /\ \A p \in Prices : p \in Nat \ {0} /\ HalfSpread + Impact + Fee <= p
    /\ \A k \in Kinds : k.type \in Limits => k.px >= Fee
    /\ InitialBalance \in Nat
    /\ MaxResets \in Nat

VARIABLES
    price,      \* _current_prices: 0 when there is no price yet
    kind,       \* kind[o]: the order as submitted
    state,      \* state[o]: where order o stands
    cash,       \* _balances of the quote currency
    position,   \* _positions: the side and quantity of the only one
    fill,       \* _fills: quantity and price of each order's fill, 0 if none
    executions, \* history: how often _execute_order filled each order
    told,       \* history: orders answered SUBMITTED and then, by cancel_order, CANCELLED
    late,       \* history: orders filled after that answer
    resets      \* history: calls of reset

paperVars == <<price, kind, state, cash, position, fill, executions, told, late, resets>>

\* "latency": submit_order sleeps; "pending": in _pending_orders;
\* "triggered": its execution task has not run yet
PaperStates == {"new", "latency", "pending", "triggered",
                "FILLED", "PARTIAL", "REJECTED", "CANCELLED"}

NoFill == [qty |-> 0, price |-> 0]

PaperTypeOK ==
    /\ price \in Prices \cup {0}
    /\ kind \in [Orders -> Kinds]
    /\ state \in [Orders -> PaperStates]
    /\ cash \in Int
    /\ position \in [side : Sides, qty : Nat]
    /\ fill \in [Orders -> [qty : Nat, price : Int]]
    /\ executions \in [Orders -> Nat]
    /\ told \subseteq Orders /\ late \subseteq Orders
    /\ resets \in 0..MaxResets

PaperInit ==
    /\ price = 0
    /\ kind \in [Orders -> Kinds]
    /\ state = [o \in Orders |-> "new"]
    /\ cash = InitialBalance
    /\ position = [side |-> "BUY", qty |-> 0]
    /\ fill = [o \in Orders |-> NoFill]
    /\ executions = [o \in Orders |-> 0]
    /\ told = {} /\ late = {}
    /\ resets = 0

-----------------------------------------------------------------------------
(* Execution                                                               *)

Ask == price + HalfSpread
Bid == price - HalfSpread

Low(a, b) == IF a < b THEN a ELSE b
High(a, b) == IF a > b THEN a ELSE b

\* mutant: a marketable limit order is filled at the touch, whatever its limit
FillPricesAtTouch(k) ==
    CASE k.type = "MARKET" /\ k.side = "BUY"  -> {Ask + i : i \in 0..Impact}
      [] k.type = "MARKET" /\ k.side = "SELL" -> {Bid - i : i \in 0..Impact}
      [] k.type \in Limits /\ k.side = "BUY"  -> {Ask}
      [] k.type \in Limits /\ k.side = "SELL" -> {Bid}
      [] OTHER -> {price}

(* simulate_fill_price and _apply_slippage: a market order walks the book  *)
(* and slips; a limit order fills at its limit, or better when it is       *)
(* marketable; a stop order fills at the middle of the book.               *)
FillPrices(k) ==
    CASE k.type = "MARKET" /\ k.side = "BUY"  -> {Ask + i : i \in 0..Impact}
      [] k.type = "MARKET" /\ k.side = "SELL" -> {Bid - i : i \in 0..Impact}
      [] k.type \in Limits /\ k.side = "BUY"  -> {Low(k.px, Ask)}
      [] k.type \in Limits /\ k.side = "SELL" -> {High(k.px, Bid)}
      [] OTHER -> {price}

\* mutant: the balance check forgets the commission
AffordsGross(k, n, p) ==
    IF k.side = "BUY" THEN cash >= n * p ELSE position.qty >= n

(* The balance check of _execute_order: a purchase is covered by the cash, *)
(* a sale by the quantity of the position, whatever its side.              *)
Affords(k, n, p) ==
    IF k.side = "BUY" THEN cash >= n * (p + Fee) ELSE position.qty >= n

\* _apply_balance_change
CashAfter(k, n, p) == IF k.side = "BUY" THEN cash - n * (p + Fee) ELSE cash + n * (p - Fee)

\* mutant: a sale is booked like a purchase
PositionAfterAdds(k, n) == [position EXCEPT !.qty = @ + n]

\* _update_position: the first fill sets the side; a fill on the side of the
\* position adds to it, one on the other side reduces or flips it
PositionAfter(k, n) ==
    IF fill = [o \in Orders |-> NoFill] THEN [side |-> k.side, qty |-> n]
    ELSE IF k.side = position.side THEN [position EXCEPT !.qty = @ + n]
    ELSE IF n > position.qty THEN [side |-> k.side, qty |-> n - position.qty]
    ELSE [position EXCEPT !.qty = @ - n]

(* _execute_order, from the moment its task runs: fill price and filled    *)
(* part are chosen, then the order is refused or booked.                   *)
ExecuteOrder(o) ==
    \E n \in 1..kind[o].qty, p \in FillPrices(kind[o]) :
        IF Affords(kind[o], n, p)
        THEN /\ state' = [state EXCEPT ![o] = IF n = kind[o].qty THEN "FILLED" ELSE "PARTIAL"]
             /\ cash' = CashAfter(kind[o], n, p)
             /\ position' = PositionAfter(kind[o], n)
             /\ fill' = [fill EXCEPT ![o] = [qty |-> n, price |-> p]]
             /\ executions' = [executions EXCEPT ![o] = @ + 1]
             /\ late' = IF o \in told THEN late \cup {o} ELSE late
        ELSE /\ state' = [state EXCEPT ![o] = "REJECTED"]
             /\ UNCHANGED <<cash, position, fill, executions, late>>

-----------------------------------------------------------------------------
(* The calls of the connector                                              *)

\* _should_queue
ShouldQueue(k) ==
    \/ k.type = "LIMIT" /\ k.side = "BUY" /\ k.px < price
    \/ k.type = "LIMIT" /\ k.side = "SELL" /\ k.px > price
    \/ k.type \in Stops

(* submit_order is called and sleeps for the latency.                      *)
Submit(o) ==
    /\ state[o] = "new"
    /\ state' = [state EXCEPT ![o] = "latency"]
    /\ UNCHANGED <<price, kind, cash, position, fill, executions, told, late, resets>>

(* It wakes up: rejected at random or for want of a price, queued, or      *)
(* executed.                                                               *)
SubmitReject(o) ==
    /\ state[o] = "latency"
    /\ state' = [state EXCEPT ![o] = "REJECTED"]
    /\ UNCHANGED <<price, kind, cash, position, fill, executions, told, late, resets>>

SubmitQueue(o) ==
    /\ state[o] = "latency"
    /\ price # 0 /\ ShouldQueue(kind[o])
    /\ state' = [state EXCEPT ![o] = "pending"]
    /\ UNCHANGED <<price, kind, cash, position, fill, executions, told, late, resets>>

SubmitExecute(o) ==
    /\ state[o] = "latency"
    /\ price # 0 /\ ~ShouldQueue(kind[o])
    /\ ExecuteOrder(o)
    /\ UNCHANGED <<price, kind, told, resets>>

(* A pending order is reached by price p: a limit by a price at least as   *)
(* good, a stop by one at least as bad.                                    *)
Reached(k, p) ==
    CASE k.type = "LIMIT" /\ k.side = "BUY"  -> p <= k.px
      [] k.type = "LIMIT" /\ k.side = "SELL" -> p >= k.px
      [] k.type \in Stops /\ k.side = "BUY"  -> p >= k.stop
      [] k.type \in Stops /\ k.side = "SELL" -> p <= k.stop
      [] OTHER -> FALSE

\* mutant: a reached order stays on the queue until its task has run
UpdatePriceKeeps(p) ==
    /\ price' = p
    /\ state' = [o \in Orders |->
                   IF state[o] = "pending" /\ Reached(kind[o], p) THEN "triggered"
                   ELSE IF state[o] \in {"FILLED", "PARTIAL"} /\ Reached(kind[o], p) THEN "triggered"
                   ELSE state[o]]
    /\ UNCHANGED <<kind, cash, position, fill, executions, told, late, resets>>

(* update_price: every pending order the new price reaches leaves the      *)
(* queue, and a task is created to execute it.                             *)
UpdatePrice(p) ==
    /\ price' = p
    /\ state' = [o \in Orders |->
                   IF state[o] = "pending" /\ Reached(kind[o], p) THEN "triggered" ELSE state[o]]
    /\ UNCHANGED <<kind, cash, position, fill, executions, told, late, resets>>

(* The task of a triggered order runs.                                     *)
ExecuteTriggered(o) ==
    /\ state[o] = "triggered"
    /\ ExecuteOrder(o)
    /\ UNCHANGED <<price, kind, told, resets>>

(* cancel_order takes a pending order off the queue; of any other order it *)
(* says CANCELLED too and does nothing.                                    *)
Cancel(o) ==
    /\ state[o] # "new"
    /\ state' = [state EXCEPT ![o] = IF @ = "pending" THEN "CANCELLED" ELSE @]
    /\ told' = IF state[o] \in {"pending", "triggered"} THEN told \cup {o} ELSE told
    /\ UNCHANGED <<price, kind, cash, position, fill, executions, late, resets>>

(* reset restores balance, position, queue and fill log. Sleeping and      *)
(* triggered orders survive it, and so do the prices.                      *)
Reset ==
    /\ resets < MaxResets
    /\ resets' = resets + 1
    /\ cash' = InitialBalance
    /\ position' = [side |-> "BUY", qty |-> 0]
    /\ fill' = [o \in Orders |-> NoFill]
    /\ state' = [o \in Orders |-> IF state[o] = "pending" THEN "CANCELLED" ELSE state[o]]
    /\ UNCHANGED <<price, kind, executions, told, late>>

PaperNext ==
    \/ \E o \in Orders : \/ Submit(o) \/ SubmitReject(o) \/ SubmitQueue(o) \/ SubmitExecute(o)
                         \/ ExecuteTriggered(o) \/ Cancel(o)
    \/ \E p \in Prices : UpdatePrice(p)
    \/ Reset

PaperSpec == PaperInit /\ [][PaperNext]_paperVars

-----------------------------------------------------------------------------
(* Properties                                                              *)

FilledOn(side) ==
    SumFunctionOnSet([o \in Orders |-> fill[o].qty], {o \in Orders : kind[o].side = side})

(* The account is never overdrawn: every order is checked when it executes, *)
(* so orders that sleep, wait or were triggered together cannot spend the  *)
(* same cash twice.                                                        *)
NeverOverdrawn == cash >= 0

(* The position is long and is what the fill log says it is: no set of     *)
(* sales that execute together sells what is not there, and the branches   *)
(* of _update_position that flip a position are never taken.               *)
PositionIsNetOfFills ==
    /\ position.qty = FilledOn("BUY") - FilledOn("SELL")
    /\ position.qty > 0 => position.side = "BUY"

(* A limit order never fills at a price worse than its limit, though the   *)
(* price moves between the trigger and the execution.                      *)
LimitHonoured ==
    \A o \in Orders : (kind[o].type \in Limits /\ fill[o].qty > 0) =>
        IF kind[o].side = "BUY" THEN fill[o].price <= kind[o].px ELSE fill[o].price >= kind[o].px

(* An order is executed at most once, however many prices reach it, and    *)
(* never for more than its quantity.                                       *)
ExecutesOnce ==
    \A o \in Orders : executions[o] <= 1 /\ fill[o].qty <= kind[o].qty

(* The inductive invariant behind these: an order that waits has not been  *)
(* filled, and one that was triggered has seen a price; the position is    *)
(* never short, not even when it is empty.                                 *)
WaitingInv(o) ==
    /\ state[o] \in {"new", "latency", "pending", "triggered"} =>
          executions[o] = 0 /\ fill[o].qty = 0
    /\ state[o] = "triggered" => price # 0

PaperIInv ==
    /\ PaperTypeOK
    /\ NeverOverdrawn
    /\ LimitHonoured
    /\ ExecutesOnce
    /\ PositionIsNetOfFills
    /\ position.side = "BUY"
    /\ \A o \in Orders : WaitingInv(o)

(* cancel_order cancels an open or pending order (its docstring): an order *)
(* it reported CANCELLED, and that was queued before, does not fill         *)
(* afterwards. Violated between the trigger of an order and its execution. *)
CancelledNeverFills == late = {}
=============================================================================
