---------------------------- MODULE OrderManager ----------------------------
(***************************************************************************)
(* The order management system of execution/order_manager.py: a table of   *)
(* orders, the fills reported for them and the position computed from      *)
(* both. Every operation is synchronous, so each is one step; what is hard *)
(* is the sequences of them. Quantities are whole numbers; fees and the    *)
(* average price are left out. Nothing bounds a fill by what remains of    *)
(* its order.                                                              *)
(***************************************************************************)
EXTENDS Integers, FiniteSets, Sequences, Functions

CONSTANTS
    OmsSymbols,     \* the symbols traded
    MaxOpenOrders,  \* max_open_orders
    MaxQuantity,    \* bound on the quantity of one order, fill or amendment
    MaxOrders,      \* bound on the orders created
    MaxFills        \* bound on the fills processed

ASSUME OmsAssumption ==
    /\ MaxOpenOrders \in Nat /\ MaxQuantity \in Nat
    /\ MaxOrders \in Nat /\ MaxFills \in Nat

VARIABLES
    orders,     \* _orders, in the order they were created
    fills,      \* _fills: the number of fills recorded
    traded,     \* history: traded[y]: the signed quantity filled for symbol y
    trimmed     \* history: the orders amended down to what they had filled

omsVars == <<orders, fills, traded, trimmed>>

Statuses == {"SUBMITTED", "PARTIAL", "FILLED", "CANCELLED"}
Order == [symbol : OmsSymbols, sign : {1, -1}, quantity : Nat, filled : Nat,
          price : {"old", "new"}, status : Statuses]

Active(o) == o.status \in {"SUBMITTED", "PARTIAL"}
OrderIds == 1..Len(orders)
ActiveOrders == {i \in OrderIds : Active(orders[i])}

OmsTypeOK ==
    /\ orders \in Seq(Order) /\ Len(orders) <= MaxOrders
    /\ fills \in 0..MaxFills
    /\ traded \in [OmsSymbols -> Int]
    /\ trimmed \subseteq OrderIds

OmsInit ==
    /\ orders = <<>> /\ fills = 0
    /\ traded = [y \in OmsSymbols |-> 0]
    /\ trimmed = {}

-----------------------------------------------------------------------------
(* The operations                                                          *)

(* create_order; at the limit it raises and changes nothing.               *)
CreateOrder(symbol, sign, quantity) ==
    /\ Len(orders) < MaxOrders
    /\ Cardinality(ActiveOrders) < MaxOpenOrders
    /\ orders' = Append(orders, [symbol |-> symbol, sign |-> sign, quantity |-> quantity,
                                 filled |-> 0, price |-> "old", status |-> "SUBMITTED"])
    /\ UNCHANGED <<fills, traded, trimmed>>

(* cancel_order, and cancel_all for a symbol or for all of them.           *)
CancelOrders(ids) ==
    /\ ids # {} /\ ids \subseteq ActiveOrders
    /\ orders' = [i \in OrderIds |-> IF i \in ids
                      THEN [orders[i] EXCEPT !.status = "CANCELLED"] ELSE orders[i]]
    /\ UNCHANGED <<fills, traded, trimmed>>

CancelOrder(i) == CancelOrders({i})
CancelAll(symbols) ==
    CancelOrders({i \in ActiveOrders : orders[i].symbol \in symbols})

(* amend_order, with a new quantity and with or without a new price. A     *)
(* quantity below what is filled is refused after the price was written,   *)
(* and one equal to it leaves the order open with nothing to fill.         *)
AmendOrder(i, quantity, price) ==
    /\ i \in ActiveOrders
    /\ orders' = [orders EXCEPT ![i].price = price,
                      ![i].quantity = IF quantity < orders[i].filled THEN @ ELSE quantity]
    /\ trimmed' = IF quantity < orders[i].filled THEN trimmed
                  ELSE IF quantity = orders[i].filled THEN trimmed \cup {i}
                  ELSE trimmed \ {i}
    /\ UNCHANGED <<fills, traded>>

\* mutant: a fill that comes after the cancellation is booked all the same
FillableLate(i) == i \in OrderIds /\ orders[i].status # "FILLED"

(* The orders process_fill accepts a fill for.                             *)
Fillable(i) == i \in ActiveOrders

(* process_fill: the fill counts in full, even past the order's quantity.  *)
ProcessFill(i, quantity) ==
    /\ Fillable(i) /\ fills < MaxFills
    /\ LET o == orders[i]
           filled == o.filled + quantity
       IN  /\ orders' = [orders EXCEPT ![i].filled = filled,
                             ![i].status = IF filled >= o.quantity THEN "FILLED" ELSE "PARTIAL"]
           /\ traded' = [traded EXCEPT ![o.symbol] = @ + o.sign * quantity]
    /\ fills' = fills + 1
    /\ trimmed' = trimmed \ {i}

OmsNext ==
    \/ \E y \in OmsSymbols, s \in {1, -1}, q \in 1..MaxQuantity : CreateOrder(y, s, q)
    \/ \E i \in OrderIds : CancelOrder(i)
    \/ \E Y \in {OmsSymbols} \cup {{y} : y \in OmsSymbols} : CancelAll(Y)
    \/ \E i \in OrderIds, q \in 0..MaxQuantity, p \in {"old", "new"} : AmendOrder(i, q, p)
    \/ \E i \in OrderIds, q \in 1..MaxQuantity : ProcessFill(i, q)

OmsSpec == OmsInit /\ [][OmsNext]_omsVars

-----------------------------------------------------------------------------
(* Properties                                                              *)

\* the signed sum of what the orders of a symbol and a set of statuses filled
Held(symbol, statuses) ==
    SumFunctionOnSet([i \in OrderIds |-> orders[i].sign * orders[i].filled],
                     {i \in OrderIds : /\ orders[i].symbol = symbol
                                       /\ orders[i].status \in statuses})

(* get_position: the fills of FILLED orders only.                          *)
ReportedPosition(symbol) == Held(symbol, {"FILLED"})

(* What get_position leaves out of what was traded is exactly the fills of *)
(* orders that are still open or were cancelled part way, for good.        *)
PositionGap ==
    \A y \in OmsSymbols :
        traded[y] - ReportedPosition(y) = Held(y, {"PARTIAL", "CANCELLED"})

(* The status of an order says what was filled: an open order has filled   *)
(* less than its quantity, unless it was amended down to it, and a filled  *)
(* one at least all of it.                                                 *)
StatusMatchesFills ==
    \A i \in OrderIds :
        /\ orders[i].status = "SUBMITTED" => orders[i].filled = 0
        /\ orders[i].status = "PARTIAL" => orders[i].filled > 0
        /\ orders[i].status = "FILLED" => orders[i].filled >= orders[i].quantity
        /\ Active(orders[i]) /\ orders[i].filled >= orders[i].quantity => i \in trimmed

(* OmsAccounted: the open orders stay within their limit, the statuses say *)
(* what was filled, and the position reported differs from what was traded *)
(* by the fills of orders not yet, or never, completed                     *)
(* (order_manager.py:108, 133-138, 156-159, 189-196).                      *)
OmsAccounted ==
    /\ Cardinality(ActiveOrders) <= MaxOpenOrders
    /\ StatusMatchesFills
    /\ PositionGap

(* The inductive invariant behind it: whatever the statuses, the orders of *)
(* a symbol have filled what was traded.                                   *)
OmsIInv ==
    /\ OmsTypeOK
    /\ Cardinality(ActiveOrders) <= MaxOpenOrders
    /\ StatusMatchesFills
    /\ \A y \in OmsSymbols : Held(y, Statuses) = traded[y]

=============================================================================
