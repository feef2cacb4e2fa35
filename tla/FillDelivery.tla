---------------------------- MODULE FillDelivery ----------------------------
(***************************************************************************)
(* What the order pipeline promises to whoever consumes its ORDER_FILLED   *)
(* events: an order is delivered by a single event, only after the         *)
(* exchange has executed something, never for more than was executed, and  *)
(* the exchange executes nothing more of an order once it is delivered.    *)
(* Which orders are delivered, and when, is left open.                     *)
(*                                                                         *)
(* OrderPipeline is shown to implement this, and EnginePositions builds    *)
(* the engine's position book on top of it.                                *)
(***************************************************************************)
EXTENDS Integers

CONSTANTS Orders, MaxQty

VARIABLES
    executed,    \* quantity of each order executed at the exchange
    delivered    \* quantity of each order published in ORDER_FILLED events

FillInit ==
    /\ executed = [o \in Orders |-> 0]
    /\ delivered = [o \in Orders |-> 0]

Execute(o) ==
    /\ delivered[o] = 0
    /\ \E n \in 1..MaxQty :
          /\ n > executed[o]
          /\ executed' = [executed EXCEPT ![o] = n]
    /\ UNCHANGED delivered

Deliver(o) ==
    /\ delivered[o] = 0
    /\ \E n \in 1..executed[o] : delivered' = [delivered EXCEPT ![o] = n]
    /\ UNCHANGED executed

FillNext == \E o \in Orders : Execute(o) \/ Deliver(o)

FillSpec == FillInit /\ [][FillNext]_<<executed, delivered>>
=============================================================================
