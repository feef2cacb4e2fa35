--------------------------- MODULE OrderPipeline ---------------------------
(***************************************************************************)
(* The asynchronous order pipeline of the trading engine                   *)
(* (engine/order_pipeline.py): signals become orders, pass the risk check, *)
(* are routed to an exchange adapter, and are tracked until a fill, a      *)
(* cancellation or a rejection takes them off the books.                   *)
(*                                                                         *)
(* One event loop runs every coroutine, so a step of this model is what    *)
(* one coroutine does between two awaits that really suspend: the risk     *)
(* check and the calls of the exchange adapter.  Publishing on the event   *)
(* bus and putting on the unbounded fill queue never suspend.              *)
(*                                                                         *)
(* Four kinds of coroutine interleave:                                     *)
(*   - one submit_signal call per strategy task (Signals);                 *)
(*   - the status poller, which asks the exchange about each open order;   *)
(*   - the fill processor, which consumes the fill queue;                  *)
(*   - flush, called by the engine on shutdown.                            *)
(* The exchange is external: it fills, cancels, expires and rejects orders *)
(* at any time, and any call to it may raise before or after it took       *)
(* effect.                                                                 *)
(*                                                                         *)
(* Quantities are whole units 1..MaxQty.  Prices and commissions are left  *)
(* out: they travel with the fills and decide nothing here.                *)
(***************************************************************************)
EXTENDS Integers, Sequences, FiniteSets

CONSTANTS
    Signals,      \* the submit_signal calls; each creates the order of its name
    MaxQty,       \* bound on an order's quantity
    MaxFlushes,   \* bound on the calls of flush
    NoOrder       \* no order: not a member of Signals

ASSUME PipelineAssumption ==
    /\ IsFiniteSet(Signals)
    /\ MaxQty \in Nat \ {0}
    /\ MaxFlushes \in Nat
    /\ NoOrder \notin Signals

VARIABLES
    portfolio,   \* TRUE once the engine has a portfolio state to check against
    pc,          \* pc[s]: where the submit_signal call of s stands
    order,       \* order[s]: the local Order object
    open,        \* _open_orders: the orders tracked as open
    metrics,     \* PipelineMetrics
    fillQueue,   \* _fill_queue
    poll,        \* the poller: orders still to poll this round, and the reply awaited
    flush,       \* flush: orders still to cancel, the cancel awaited, calls left
    exch,        \* external: the orders as the exchange holds them
    ack,         \* external: the answer to submit_order on its way back
    published    \* quantity published per order in ORDER_FILLED events

vars == <<portfolio, pc, order, open, metrics, fillQueue, poll, flush,
          exch, ack, published>>

Qty == 0..MaxQty

\* core/enums.py OrderState, as the local object and as the exchange reports it
OrderStates == {"PENDING", "SUBMITTED", "PARTIAL", "FILLED", "REJECTED"}
LiveStates == {"SUBMITTED", "PARTIAL"}
EndStates == {"FILLED", "CANCELLED", "REJECTED"}  \* those the poller acts on
DeadStates == EndStates \cup {"EXPIRED"}

\* "none": the exchange has never seen the order
ExchOrder == [state : LiveStates \cup DeadStates \cup {"none"}, filled : Qty]

\* where a submit_signal call stands: the last four are its four ways to end
CallStates == {"idle", "risk", "routing", "tracked", "refused", "failed"}

Counters == {"signals_received", "orders_created", "risk_passed", "risk_failed",
             "orders_submitted", "orders_filled", "orders_rejected",
             "orders_cancelled", "fills_tracked", "pipeline_errors"}

TypeOK ==
    /\ portfolio \in BOOLEAN
    /\ pc \in [Signals -> CallStates]
    /\ order \in [Signals -> [qty : Qty, filled : Qty, state : OrderStates]]
    /\ open \in SUBSET Signals
    /\ metrics \in [Counters -> Nat]
    /\ fillQueue \in Seq([order : Signals, qty : Qty])
    /\ poll \in [todo : SUBSET Signals, cur : Signals \cup {NoOrder}, reply : ExchOrder]
    /\ flush \in [todo : SUBSET Signals, cur : Signals \cup {NoOrder},
                  reply : {"none", "ok", "error"}, active : BOOLEAN, left : 0..MaxFlushes]
    /\ exch \in [Signals -> ExchOrder]
    /\ ack \in [Signals -> ExchOrder]
    /\ published \in [Signals -> Nat]

Unknown == [state |-> "none", filled |-> 0]

Init ==
    /\ portfolio = FALSE
    /\ pc = [s \in Signals |-> "idle"]
    /\ order = [s \in Signals |-> [qty |-> 0, filled |-> 0, state |-> "PENDING"]]
    /\ open = {}
    /\ metrics = [c \in Counters |-> 0]
    /\ fillQueue = <<>>
    /\ poll = [todo |-> {}, cur |-> NoOrder, reply |-> Unknown]
    /\ flush = [todo |-> {}, cur |-> NoOrder, reply |-> "none", active |-> FALSE,
                left |-> MaxFlushes]
    /\ exch = [s \in Signals |-> Unknown]
    /\ ack = [s \in Signals |-> Unknown]
    /\ published = [s \in Signals |-> 0]

\* metrics with one added to each counter of the set cs
Count(cs) == metrics' = [c \in Counters |-> IF c \in cs THEN metrics[c] + 1 ELSE metrics[c]]

-----------------------------------------------------------------------------
(* submit_signal                                                           *)

(* The engine's position sync loop obtains the first portfolio state.      *)
PortfolioKnown ==
    /\ ~portfolio
    /\ portfolio' = TRUE
    /\ UNCHANGED <<pc, order, open, metrics, fillQueue, poll, flush, exch, ack, published>>

\* the quantity of an order of q units when the risk check allows m (0: no limit)
Clamp(q, m) == IF m > 0 /\ m < q THEN m ELSE q

\* mutant: a validation failure falls through to the generic handler
AfterApprovalAsError(s, q, m, passed) ==
    LET clamped == [qty |-> Clamp(q, m), filled |-> 0, state |-> "PENDING"]
    IN  \/ /\ pc' = [pc EXCEPT ![s] = "routing"]
           /\ order' = [order EXCEPT ![s] = [clamped EXCEPT !.state = "SUBMITTED"]]
           /\ Count(passed \cup {"risk_passed"})
        \/ /\ pc' = [pc EXCEPT ![s] = "refused"]
           /\ order' = [order EXCEPT ![s] = clamped]
           /\ Count(passed \cup {"risk_passed", "pipeline_errors"})

(* After the risk check approved at most m units (0: no limit): clamp,      *)
(* validate and hand the order to the adapter, or refuse it. `passed` are   *)
(* the counters the caller has already raised in the same step.             *)
AfterApproval(s, q, m, passed) ==
    LET clamped == [qty |-> Clamp(q, m), filled |-> 0, state |-> "PENDING"]
    IN  \/ /\ pc' = [pc EXCEPT ![s] = "routing"]
           /\ order' = [order EXCEPT ![s] = [clamped EXCEPT !.state = "SUBMITTED"]]
           /\ Count(passed \cup {"risk_passed"})
        \/ \* _validate_order raises OrderRejectedError
           /\ pc' = [pc EXCEPT ![s] = "refused"]
           /\ order' = [order EXCEPT ![s] = clamped]
           /\ Count(passed \cup {"risk_passed", "risk_failed"})

(* A strategy task calls submit_signal. Without a portfolio state the risk *)
(* check is skipped; with one the call waits for the risk engine.          *)
SubmitSignal(s) ==
    /\ pc[s] = "idle"
    /\ \E q \in 1..MaxQty :
          IF portfolio
          THEN /\ pc' = [pc EXCEPT ![s] = "risk"]
               /\ order' = [order EXCEPT ![s].qty = q]
               /\ Count({"signals_received", "orders_created"})
          ELSE AfterApproval(s, q, 0, {"signals_received", "orders_created"})
    /\ UNCHANGED <<portfolio, open, fillQueue, poll, flush, exch, ack, published>>

(* The risk engine approves at most m units (0: no limit)...               *)
RiskApproves(s) ==
    /\ pc[s] = "risk"
    /\ \E m \in Qty : AfterApproval(s, order[s].qty, m, {})
    /\ UNCHANGED <<portfolio, open, fillQueue, poll, flush, exch, ack, published>>

(* ... or refuses the signal ...                                           *)
RiskRefuses(s) ==
    /\ pc[s] = "risk"
    /\ pc' = [pc EXCEPT ![s] = "refused"]
    /\ order' = [order EXCEPT ![s].state = "REJECTED"]
    /\ Count({"risk_failed"})
    /\ UNCHANGED <<portfolio, open, fillQueue, poll, flush, exch, ack, published>>

(* ... or raises.                                                          *)
RiskRaises(s) ==
    /\ pc[s] = "risk"
    /\ pc' = [pc EXCEPT ![s] = "failed"]
    /\ Count({"pipeline_errors"})
    /\ UNCHANGED <<portfolio, order, open, fillQueue, poll, flush, exch, ack, published>>

(* The adapter returns the order: it is tracked whatever its state.        *)
SubmitReply(s) ==
    /\ pc[s] = "routing"
    /\ ack[s].state # "none"
    /\ pc' = [pc EXCEPT ![s] = "tracked"]
    /\ order' = [order EXCEPT ![s].state = ack[s].state, ![s].filled = ack[s].filled]
    /\ open' = open \cup {s}
    /\ Count({"orders_submitted"})
    /\ UNCHANGED <<portfolio, fillQueue, poll, flush, exch, ack, published>>

(* The adapter raises: the order may or may not have reached the exchange. *)
SubmitError(s) ==
    /\ pc[s] = "routing"
    /\ pc' = [pc EXCEPT ![s] = "failed"]
    /\ order' = [order EXCEPT ![s].state = "REJECTED"]
    /\ Count({"pipeline_errors"})
    /\ UNCHANGED <<portfolio, open, fillQueue, poll, flush, exch, ack, published>>

-----------------------------------------------------------------------------
(* The status poller                                                       *)

\* mutant: a round may overtake the fill processor
PollRoundHasty ==
    /\ poll.todo = {} /\ poll.cur = NoOrder
    /\ open # {}
    /\ poll' = [poll EXCEPT !.todo = open]
    /\ UNCHANGED <<portfolio, pc, order, open, metrics, fillQueue, flush, exch, ack, published>>

(* A round starts with a copy of the open orders. The poller sleeps five   *)
(* seconds before each round, while the fill processor is woken by the put *)
(* itself and never suspends with a fill in hand: what the previous round  *)
(* queued has been processed by then.                                      *)
PollRound ==
    /\ poll.todo = {} /\ poll.cur = NoOrder
    /\ open # {}
    /\ fillQueue = <<>>
    /\ poll' = [poll EXCEPT !.todo = open]
    /\ UNCHANGED <<portfolio, pc, order, open, metrics, fillQueue, flush, exch, ack, published>>

\* the paper connector's answer for an order it does not hold (any more)
NotHeld == [state |-> "EXPIRED", filled |-> 0]

(* fetch_order, which is asked by Order.id. ExchangeAdapter promises the   *)
(* order's status as it is when the request arrives. The adapters of this  *)
(* repository keep that promise seldom: Binance and Bybit do not know the  *)
(* id and raise (PollError), the paper connector says EXPIRED of an order  *)
(* it has executed, and CCXT asks the exchange with an id not its own.     *)
PollFetch(s) ==
    /\ poll.cur = NoOrder
    /\ s \in poll.todo
    /\ \E reply \in {exch[s], NotHeld} :
          poll' = [todo |-> poll.todo \ {s}, cur |-> s, reply |-> reply]
    /\ UNCHANGED <<portfolio, pc, order, open, metrics, fillQueue, flush, exch, ack, published>>

PollDone == poll' = [poll EXCEPT !.cur = NoOrder, !.reply = Unknown]

\* mutant: the whole filled quantity is queued, not the difference
PollFilledWhole(s) ==
    /\ poll.cur = s
    /\ poll.reply.state = "FILLED"
    /\ order[s].state # "FILLED"
    /\ fillQueue' = Append(fillQueue, [order |-> s, qty |-> poll.reply.filled])
    /\ PollDone
    /\ UNCHANGED <<portfolio, pc, order, open, metrics, flush, exch, ack, published>>

(* The reply says FILLED and the local object does not yet: queue the      *)
(* difference as one fill.                                                 *)
PollFilled(s) ==
    /\ poll.cur = s
    /\ poll.reply.state = "FILLED"
    /\ order[s].state # "FILLED"
    /\ fillQueue' = Append(fillQueue, [order |-> s, qty |-> poll.reply.filled - order[s].filled])
    /\ PollDone
    /\ UNCHANGED <<portfolio, pc, order, open, metrics, flush, exch, ack, published>>

(* The reply says CANCELLED or REJECTED: drop the order from the books.    *)
PollDropped(s) ==
    /\ poll.cur = s
    /\ poll.reply.state \in {"CANCELLED", "REJECTED"}
    /\ open' = open \ {s}
    /\ Count({IF poll.reply.state = "CANCELLED" THEN "orders_cancelled" ELSE "orders_rejected"})
    /\ PollDone
    /\ UNCHANGED <<portfolio, pc, order, fillQueue, flush, exch, ack, published>>

(* Any other reply changes nothing: SUBMITTED, PARTIAL, EXPIRED, or FILLED *)
(* for an order that is FILLED locally.                                    *)
PollIgnored(s) ==
    /\ poll.cur = s
    /\ \/ poll.reply.state \in LiveStates \cup {"EXPIRED"}
       \/ poll.reply.state = "FILLED" /\ order[s].state = "FILLED"
    /\ PollDone
    /\ UNCHANGED <<portfolio, pc, order, open, metrics, fillQueue, flush, exch, ack, published>>


(* fetch_order raises: the poller goes on to the next order.               *)
PollError(s) ==
    /\ poll.cur = s
    /\ PollDone
    /\ UNCHANGED <<portfolio, pc, order, open, metrics, fillQueue, flush, exch, ack, published>>

-----------------------------------------------------------------------------
(* The fill processor                                                      *)

(* One fill: account it to the order if it is still open, and publish it.  *)
ProcessFill ==
    /\ fillQueue # <<>>
    /\ LET f == Head(fillQueue)
           filled == order[f.order].filled + f.qty
       IN  /\ IF f.order \notin open
              THEN UNCHANGED <<order, open>>
              ELSE IF filled >= order[f.order].qty
              THEN /\ order' = [order EXCEPT ![f.order].filled = filled, ![f.order].state = "FILLED"]
                   /\ open' = open \ {f.order}
              ELSE /\ order' = [order EXCEPT ![f.order].filled = filled, ![f.order].state = "PARTIAL"]
                   /\ UNCHANGED open
           /\ published' = [published EXCEPT ![f.order] = @ + f.qty]
    /\ fillQueue' = Tail(fillQueue)
    /\ Count({"fills_tracked", "orders_filled"})
    /\ UNCHANGED <<portfolio, pc, poll, flush, exch, ack>>

-----------------------------------------------------------------------------
(* flush                                                                   *)

FlushStart ==
    /\ ~flush.active
    /\ flush.left > 0
    /\ flush' = [todo |-> open, cur |-> NoOrder, reply |-> "none", active |-> TRUE,
                 left |-> flush.left - 1]
    /\ UNCHANGED <<portfolio, pc, order, open, metrics, fillQueue, poll, exch, ack, published>>

\* mutant: the order is popped before its cancellation is awaited
FlushCancelPops(s) ==
    /\ flush.active
    /\ flush.cur = NoOrder
    /\ s \in flush.todo
    /\ flush' = [flush EXCEPT !.todo = @ \ {s}, !.cur = s, !.reply = "none"]
    /\ open' = open \ {s}
    /\ UNCHANGED <<portfolio, pc, order, metrics, fillQueue, poll, exch, ack, published>>

(* cancel_order goes out for the next order of the copy.                   *)
FlushCancel(s) ==
    /\ flush.active
    /\ flush.cur = NoOrder
    /\ s \in flush.todo
    /\ flush' = [flush EXCEPT !.todo = @ \ {s}, !.cur = s, !.reply = "none"]
    /\ UNCHANGED <<portfolio, pc, order, open, metrics, fillQueue, poll, exch, ack, published>>

(* The adapter confirms the cancellation: the order leaves the books.      *)
FlushReply(s) ==
    /\ flush.cur = s
    /\ flush.reply = "ok"
    /\ flush' = [flush EXCEPT !.cur = NoOrder, !.reply = "none"]
    /\ open' = open \ {s}
    /\ Count({"orders_cancelled"})
    /\ UNCHANGED <<portfolio, pc, order, fillQueue, poll, exch, ack, published>>

\* mutant: the order is popped although its cancellation failed
FlushErrorPops(s) ==
    /\ flush.cur = s
    /\ flush' = [flush EXCEPT !.cur = NoOrder, !.reply = "none"]
    /\ open' = open \ {s}
    /\ UNCHANGED <<portfolio, pc, order, metrics, fillQueue, poll, exch, ack, published>>

\* mutant: a cancellation that failed is tried again in the same flush
FlushErrorRetries(s) ==
    /\ flush.cur = s
    /\ flush' = [flush EXCEPT !.todo = @ \cup {s}, !.cur = NoOrder, !.reply = "none"]
    /\ UNCHANGED <<portfolio, pc, order, open, metrics, fillQueue, poll, exch, ack, published>>

(* cancel_order raises, before or after it took effect: logged, kept open. *)
FlushError(s) ==
    /\ flush.cur = s
    /\ flush' = [flush EXCEPT !.cur = NoOrder, !.reply = "none"]
    /\ UNCHANGED <<portfolio, pc, order, open, metrics, fillQueue, poll, exch, ack, published>>

(* Every cancel answered: the queued fills are taken out and thrown away.  *)
FlushDrain ==
    /\ flush.active
    /\ flush.todo = {} /\ flush.cur = NoOrder
    /\ fillQueue' = <<>>
    /\ flush' = [flush EXCEPT !.active = FALSE]
    /\ UNCHANGED <<portfolio, pc, order, open, metrics, poll, exch, ack, published>>

-----------------------------------------------------------------------------
(* The exchange (external)                                                 *)

(* It accepts a routed order, possibly filling some or all of it at once,  *)
(* or returns it rejected.                                                 *)
ExchAccept(s) ==
    /\ pc[s] = "routing"
    /\ exch[s].state = "none"
    /\ \E x \in {[state |-> "SUBMITTED", filled |-> 0],
                 [state |-> "REJECTED", filled |-> 0],
                 [state |-> "FILLED", filled |-> order[s].qty]}
              \cup {[state |-> "PARTIAL", filled |-> n] : n \in 1..(order[s].qty - 1)} :
          /\ exch' = [exch EXCEPT ![s] = x]
          /\ ack' = [ack EXCEPT ![s] = x]
    /\ UNCHANGED <<portfolio, pc, order, open, metrics, fillQueue, poll, flush, published>>

ExchFill(s) ==
    /\ exch[s].state \in LiveStates
    /\ \E n \in (exch[s].filled + 1)..order[s].qty :
          exch' = [exch EXCEPT ![s] =
                     [state |-> IF n = order[s].qty THEN "FILLED" ELSE "PARTIAL", filled |-> n]]
    /\ UNCHANGED <<portfolio, pc, order, open, metrics, fillQueue, poll, flush, ack, published>>

(* It ends a live order on its own account.                                *)
ExchEnd(s) ==
    /\ exch[s].state \in LiveStates
    /\ \E st \in {"CANCELLED", "EXPIRED", "REJECTED"} :
          /\ st = "REJECTED" => exch[s].filled = 0
          /\ exch' = [exch EXCEPT ![s].state = st]
    /\ UNCHANGED <<portfolio, pc, order, open, metrics, fillQueue, poll, flush, ack, published>>

(* A cancel request of flush arrives.                                      *)
ExchCancel(s) ==
    /\ flush.cur = s
    /\ flush.reply = "none"
    /\ IF exch[s].state \in LiveStates
       THEN /\ exch' = [exch EXCEPT ![s].state = "CANCELLED"]
            /\ flush' = [flush EXCEPT !.reply = "ok"]
       ELSE /\ flush' = [flush EXCEPT !.reply = "error"]
            /\ UNCHANGED exch
    /\ UNCHANGED <<portfolio, pc, order, open, metrics, fillQueue, poll, ack, published>>

-----------------------------------------------------------------------------
SubmitStep(s) == \/ SubmitSignal(s) \/ RiskApproves(s) \/ RiskRefuses(s) \/ RiskRaises(s)
                 \/ SubmitReply(s) \/ SubmitError(s)
PollStep(s) == PollFetch(s) \/ PollFilled(s) \/ PollDropped(s) \/ PollIgnored(s) \/ PollError(s)
FlushStep(s) == FlushCancel(s) \/ FlushReply(s) \/ FlushError(s)
ExchStep(s) == ExchAccept(s) \/ ExchFill(s) \/ ExchEnd(s) \/ ExchCancel(s)

Next ==
    \/ PortfolioKnown
    \/ \E s \in Signals : SubmitStep(s) \/ PollStep(s) \/ FlushStep(s) \/ ExchStep(s)
    \/ PollRound
    \/ ProcessFill
    \/ FlushStart
    \/ FlushDrain

Spec == Init /\ [][Next]_vars

(* Fairness. The loops of the poller and of the fill processor run as long *)
(* as the event loop does, flush awaits each of its calls, and a call to   *)
(* the exchange ends: by an answer or by an exception. Nothing is assumed  *)
(* of which of the two it is, of strategies or of fills.                   *)
Fairness ==
    /\ WF_vars(PollRound)
    /\ WF_vars(\E s \in Signals : PollFetch(s))
    /\ WF_vars(\E s \in Signals : PollFilled(s) \/ PollDropped(s) \/ PollIgnored(s) \/ PollError(s))
    /\ WF_vars(ProcessFill)
    /\ WF_vars(\E s \in Signals : FlushCancel(s))
    /\ WF_vars(\E s \in Signals : FlushReply(s) \/ FlushError(s))
    /\ WF_vars(FlushDrain)

FairSpec == Spec /\ Fairness

(* More than any adapter of this repository grants: of the polls of an     *)
(* order infinitely many are answered, and with its status. Only the run   *)
(* that shows a fill lost in spite of that assumes it.                     *)
AnsweredSpec ==
    /\ FairSpec
    /\ \A s \in Signals :
          SF_vars(PollFetch(s) /\ poll'.reply = exch[s]) /\ SF_vars(PollFilled(s))

-----------------------------------------------------------------------------
(* Properties                                                              *)

CallsIn(st) == {s \in Signals : pc[s] = st}

(* Every signal is counted once when it arrives and once when its call     *)
(* ends, under the counter of the way it ended: the three exception        *)
(* handlers of submit_signal and its two returns leave no signal uncounted *)
(* and none counted twice, whatever the calls that interleave.             *)
SignalLedger ==
    /\ metrics["signals_received"] = Cardinality(Signals \ CallsIn("idle"))
    /\ metrics["orders_submitted"] = Cardinality(CallsIn("tracked"))
    /\ metrics["risk_failed"] = Cardinality(CallsIn("refused"))
    /\ metrics["pipeline_errors"] = Cardinality(CallsIn("failed"))

(* A fill is published at most once: what ORDER_FILLED events carry for an *)
(* order never exceeds what the exchange filled after accepting it, though *)
(* the poller and the processor update the order in different steps and    *)
(* flush may throw a queued fill away.                                     *)
FillsPublishedOnce ==
    \A s \in Signals : published[s] + ack[s].filled <= exch[s].filled

(* An order that left the books is dead at the exchange: no interleaving   *)
(* of replies of the poller and of flush makes the pipeline forget an      *)
(* order that can still fill.                                              *)
ForgottenOrdersAreDead ==
    \A s \in CallsIn("tracked") \ open : exch[s].state \in DeadStates

(* An order the exchange filled leaves the books only when all of it that  *)
(* was not filled at acceptance has been published as fills.               *)
FilledLeavesComplete ==
    \A s \in CallsIn("tracked") \ open :
        exch[s].state = "FILLED" => published[s] + ack[s].filled = order[s].qty

(* The inductive invariant behind the safety properties. Per order: what    *)
(* the exchange, its answer, the local object and the published quantity   *)
(* say of each other.                                                      *)
ExchangeInv(s) ==
    /\ exch[s].state = "none" <=> ack[s].state = "none"
    /\ exch[s].state = "none" => exch[s].filled = 0 /\ ack[s].filled = 0
    /\ exch[s].state # "none" =>
          /\ pc[s] \in {"routing", "tracked", "failed"}
          /\ ack[s].filled <= exch[s].filled /\ exch[s].filled <= order[s].qty
          /\ exch[s].state = "FILLED" => exch[s].filled = order[s].qty
          /\ ack[s].state \in {"SUBMITTED", "PARTIAL", "FILLED", "REJECTED"}
          /\ ack[s].state = "FILLED" => exch[s].state = "FILLED" /\ ack[s].filled = order[s].qty
          /\ ack[s].state # "FILLED" => ack[s].filled < order[s].qty

BooksInv(s) ==
    /\ pc[s] \in {"risk", "routing"} => order[s].qty >= 1
    /\ pc[s] # "tracked" => s \notin open /\ published[s] = 0
    /\ pc[s] = "tracked" =>
          /\ exch[s].state # "none"
          /\ order[s].state = "FILLED" =>
                exch[s].state = "FILLED" /\ published[s] + ack[s].filled = order[s].qty
          /\ order[s].state # "FILLED" => published[s] = 0 /\ order[s].filled = ack[s].filled
          /\ s \notin open => exch[s].state \in DeadStates
          /\ (s \notin open /\ exch[s].state = "FILLED") => order[s].state = "FILLED"

\* a queued fill is the whole rest of a filled order, queued once, and the
\* poller will not look at that order again before it is processed
QueueInv ==
    /\ \A i \in 1..Len(fillQueue) :
          LET o == fillQueue[i].order IN
          /\ o \in open
          /\ exch[o].state = "FILLED"
          /\ order[o].state # "FILLED"
          /\ fillQueue[i].qty = order[o].qty - order[o].filled
          /\ o \notin poll.todo /\ o # poll.cur
    /\ \A i, j \in 1..Len(fillQueue) : fillQueue[i].order = fillQueue[j].order => i = j

\* an order the poller still holds is open or over, and a reply that ends an
\* order is still true when it arrives
PollInv ==
    /\ poll.cur \notin poll.todo
    /\ \A s \in Signals : (s \in poll.todo \/ s = poll.cur) =>
          /\ pc[s] = "tracked"
          /\ \/ s \in open
             \/ order[s].state = "FILLED"
             \/ exch[s].state \in {"CANCELLED", "REJECTED"}
    /\ \A s \in Signals : s = poll.cur =>
          /\ poll.reply.state # "none"
          /\ poll.reply.state \in EndStates => poll.reply = exch[s]

FlushInv ==
    \A s \in Signals : (s = flush.cur /\ flush.reply = "ok") => exch[s].state = "CANCELLED"

IInv ==
    /\ TypeOK
    /\ \A s \in Signals : ExchangeInv(s) /\ BooksInv(s)
    /\ QueueInv
    /\ PollInv
    /\ FlushInv

(* The pipeline implements FillDelivery: what it publishes for an order    *)
(* comes in one event, after the last execution at the exchange.           *)
Delivery == INSTANCE FillDelivery WITH
    Orders <- Signals,
    executed <- [s \in Signals |-> exch[s].filled],
    delivered <- published

DeliversFills == Delivery!FillSpec

(* A flush ends, and the stop of the engine that waits for it goes on,     *)
(* though every cancellation may raise and strategies submit, the poller   *)
(* drops and the exchange fills orders meanwhile.                          *)
FlushEnds == flush.active ~> ~flush.active


(* The pipeline tracks fills and updates positions on them (module         *)
(* docstring of order_pipeline.py, stages 5 and 6): an order the exchange  *)
(* filled is published in full. Violated: an order that submit_order       *)
(* already returns FILLED never is, however truthfully polls are answered. *)
EveryFillIsPublished ==
    \A s \in Signals :
        (pc[s] = "tracked" /\ exch[s].state = "FILLED") ~> (published[s] = order[s].qty)
=============================================================================
