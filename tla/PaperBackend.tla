---------------------------- MODULE PaperBackend ----------------------------
(***************************************************************************)
(* The execution backend of exchanges/paper_exchange.py: execute sleeps    *)
(* for the simulated latency and then fills the whole order at the current *)
(* price or rejects it; cancel writes the state of the order, whatever it  *)
(* is. Executions overlap at their sleep.                                  *)
(*                                                                         *)
(* One symbol and one strategy. Slippage and commission are whole amounts  *)
(* per unit. Left out: average entry price and P&L.                        *)
(***************************************************************************)
EXTENDS Integers, FiniteSets, Functions

CONSTANTS
    PaperNames,   \* identifiers of orders
    Quotes,       \* prices
    Lots,         \* quantities of orders
    Slip,         \* slippage per unit
    Commission,   \* commission per unit
    StartBalance  \* initial_balance

ASSUME PaperBackendAssumption ==
    /\ Quotes \subseteq Nat /\ Lots \subseteq Nat \ {0} /\ StartBalance \in Nat
    /\ Slip \in Nat /\ Commission \in Nat
    /\ \A p \in Quotes : p >= Slip + Commission

VARIABLES
    quote,    \* _current_prices of the symbol, 0 for none
    balance,  \* _balances["USDT"]
    stock,    \* the entry of _positions: its side and quantity
    ticket,   \* ticket[o]: the order and where its execution is
    fillLog   \* _fill_log, as the set of orders filled

backendVars == <<quote, balance, stock, ticket, fillLog>>

Ticket(side, lot, stage, asleep) == [side |-> side, lot |-> lot, state |-> stage, asleep |-> asleep]
Stock(side, quantity) == [side |-> side, quantity |-> quantity]

TicketStates == {"none", "pending", "filled", "rejected", "cancelled"}

BackendTypeOK ==
    /\ quote \in Quotes \cup {0}
    /\ balance \in Int
    /\ stock \in [side : {"none", "buy", "sell"}, quantity : Int]
    /\ ticket \in [PaperNames -> [side : {"buy", "sell"}, lot : Lots \cup {0},
                                  state : TicketStates, asleep : BOOLEAN]]
    /\ fillLog \subseteq PaperNames

BackendInit ==
    /\ quote = 0 /\ balance = StartBalance
    /\ stock = Stock("none", 0)
    /\ ticket = [o \in PaperNames |-> Ticket("buy", 0, "none", FALSE)]
    /\ fillLog = {}

-----------------------------------------------------------------------------

Requote(p) ==
    /\ quote' = p
    /\ UNCHANGED <<balance, stock, ticket, fillLog>>

(* execute begins and sleeps.                                              *)
Execute(o, side, lot) ==
    /\ ticket[o].state = "none"
    /\ ticket' = [ticket EXCEPT ![o] = Ticket(side, lot, "pending", TRUE)]
    /\ UNCHANGED <<quote, balance, stock, fillLog>>

(* cancel                                                                  *)
CancelTicket(o) ==
    /\ ticket[o].state # "none"
    /\ ticket' = [ticket EXCEPT ![o].state = "cancelled"]
    /\ UNCHANGED <<quote, balance, stock, fillLog>>

CostOf(lot) == lot * (quote + Slip + Commission)
Revenue(lot) == lot * (quote - Slip - Commission)

\* _update_position: a fill of the position's side adds to it, one of the other
\* side takes from it and may turn it around
Moved(side, lot) ==
    LET s == IF stock.side = "none" THEN Stock(side, 0) ELSE stock
        left == s.quantity - lot
    IN  IF s.side = side THEN Stock(side, s.quantity + lot)
        ELSE IF left < 0 THEN Stock(side, -left)
        ELSE Stock(s.side, left)

Refuses(o) ==
    \/ quote = 0
    \/ ticket[o].side = "buy" /\ balance < CostOf(ticket[o].lot)
    \/ ticket[o].side = "sell" /\ (stock.side = "none" \/ stock.quantity < ticket[o].lot)

Rejects(o) ==
    /\ ticket[o].asleep /\ Refuses(o)
    /\ ticket' = [ticket EXCEPT ![o].state = "rejected", ![o].asleep = FALSE]
    /\ UNCHANGED <<quote, balance, stock, fillLog>>

\* mutant: the balance was checked before the sleep
FillsUnchecked(o) ==
    /\ ticket[o].asleep /\ quote # 0
    /\ ticket[o].side = "sell" => ~Refuses(o)
    /\ LET t == ticket[o] IN
       /\ balance' = balance + IF t.side = "buy" THEN -CostOf(t.lot) ELSE Revenue(t.lot)
       /\ stock' = Moved(t.side, t.lot)
       /\ ticket' = [ticket EXCEPT ![o].state = "filled", ![o].asleep = FALSE]
    /\ fillLog' = fillLog \cup {o}
    /\ UNCHANGED quote

(* The rest of execute, after the sleep: the price and the balance or the  *)
(* position are looked at now; the state of the order is not.              *)
Fills(o) ==
    /\ ticket[o].asleep /\ ~Refuses(o)
    /\ LET t == ticket[o] IN
       /\ balance' = balance + IF t.side = "buy" THEN -CostOf(t.lot) ELSE Revenue(t.lot)
       /\ stock' = Moved(t.side, t.lot)
       /\ ticket' = [ticket EXCEPT ![o].state = "filled", ![o].asleep = FALSE]
    /\ fillLog' = fillLog \cup {o}
    /\ UNCHANGED quote

BackendNext ==
    \/ \E p \in Quotes : Requote(p)
    \/ \E o \in PaperNames :
          \/ CancelTicket(o) \/ Rejects(o) \/ Fills(o)
          \/ \E side \in {"buy", "sell"}, lot \in Lots : Execute(o, side, lot)

BackendSpec == BackendInit /\ [][BackendNext]_backendVars

-----------------------------------------------------------------------------
(* Properties                                                              *)

Traded(side) ==
    SumFunctionOnSet([o \in PaperNames |-> ticket[o].lot], {o \in fillLog : ticket[o].side = side})

(* Whatever overlaps, the account never pays more than it has nor sells    *)
(* more than it holds; the position is what the filled orders bought less  *)
(* what they sold, whatever became of their state: an order cancelled      *)
(* while it sleeps fills, and a filled one may be called cancelled. The    *)
(* position is therefore long from the first fill on, and the branches     *)
(* that open, add to or turn around a short one are never taken.           *)
BackendSolvent ==
    /\ balance >= 0
    /\ stock.quantity = Traded("buy") - Traded("sell")
    /\ stock.quantity >= 0 /\ stock.side # "sell"
    /\ \A o \in PaperNames : ticket[o].state = "filled" => o \in fillLog
    /\ \A o \in fillLog : ~ticket[o].asleep /\ ticket[o].state \in {"filled", "cancelled"}
=============================================================================
