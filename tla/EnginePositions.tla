-------------------------- MODULE EnginePositions --------------------------
(***************************************************************************)
(* The position book of the trading engine (engine/async_engine.py) and    *)
(* the two coroutines that write it: the event bus, which hands            *)
(* ORDER_FILLED and POSITION_UPDATED events to the engine's handlers, and  *)
(* the position sync loop, which overwrites the book with what the         *)
(* exchange reports.                                                       *)
(*                                                                         *)
(* Fills come from the order pipeline: this module uses its abstract       *)
(* specification, FillDelivery, for the exchange and the pipeline.         *)
(*                                                                         *)
(* Position objects are shared by reference: a POSITION_UPDATED event      *)
(* carries the object, not a copy, and its handler puts that object back   *)
(* in the book. They are therefore cells of a heap here.                   *)
(*                                                                         *)
(* The book is followed for one symbol: its entries for different symbols  *)
(* are written independently. Prices and P&L are left out.                 *)
(***************************************************************************)
EXTENDS FillDelivery, Sequences, FiniteSets

CONSTANTS
    Buys,          \* the orders that buy; the others sell
    BusCapacity,   \* max_queue_size of the event bus
    NoPosition     \* the book has no entry: not a member of Cells

ASSUME EngineAssumption ==
    /\ MaxQty \in Nat \ {0}
    /\ Buys \subseteq Orders
    /\ BusCapacity \in Nat \ {0}
    /\ NoPosition \notin Nat

VARIABLES
    remote,    \* external: the net position held at the exchange
    heap,      \* the Position objects
    book,      \* _positions: the cell of the symbol's entry
    bus,       \* the queue of the event bus
    sync,      \* the sync loop: "idle", or the fetched net position
    applied,   \* history: net quantity of the fills handled so far
    queued,    \* history: some fill met a bus that was not empty
    disturbed  \* history: a short sale, a dropped event or a stale answer occurred

vars == <<executed, delivered, remote, heap, book, bus, sync, applied, queued, disturbed>>

\* one cell per reference that can exist: those on the bus, the book's, a new one
Cells == 1..(BusCapacity + 2)

Sides == {"BUY", "SELL"}
Position == [side : Sides, qty : Nat]

Side(o) == IF o \in Buys THEN "BUY" ELSE "SELL"
Signed(side, n) == IF side = "BUY" THEN n ELSE -n
Abs(n) == IF n < 0 THEN -n ELSE n

Fill(o, n) == [topic |-> "ORDER_FILLED", side |-> Side(o), qty |-> n, cell |-> NoPosition]
Updated(c) == [topic |-> "POSITION_UPDATED", side |-> "BUY", qty |-> 0, cell |-> c]

Event == [topic : {"ORDER_FILLED"}, side : Sides, qty : 1..MaxQty, cell : {NoPosition}]
    \cup [topic : {"POSITION_UPDATED"}, side : {"BUY"}, qty : {0}, cell : Cells]

TypeOK ==
    /\ executed \in [Orders -> 0..MaxQty]
    /\ delivered \in [Orders -> 0..MaxQty]
    /\ remote \in Int
    /\ heap \in [Cells -> Position]
    /\ book \in Cells \cup {NoPosition}
    /\ bus \in Seq(Event) /\ Len(bus) <= BusCapacity
    /\ sync \in [fetched : BOOLEAN, net : Int]
    /\ applied \in Int
    /\ queued \in BOOLEAN
    /\ disturbed \in BOOLEAN

NoFetch == [fetched |-> FALSE, net |-> 0]

Init ==
    /\ FillInit
    /\ remote = 0
    /\ heap = [c \in Cells |-> [side |-> "BUY", qty |-> 0]]
    /\ book = NoPosition
    /\ bus = <<>>
    /\ sync = NoFetch
    /\ applied = 0
    /\ queued = FALSE
    /\ disturbed = FALSE

\* EventBus.publish on queue q: an event that finds the queue full is dropped
Publish(q, e) == IF Len(q) < BusCapacity THEN Append(q, e) ELSE q

\* a cell that neither the book nor an event refers to
Referenced == {book} \cup {bus[i].cell : i \in 1..Len(bus)}
Fresh == CHOOSE c \in Cells : c \notin Referenced

\* the position the book shows, short positions negative
LocalNet == IF book = NoPosition THEN 0 ELSE Signed(heap[book].side, heap[book].qty)
LocalQty == IF book = NoPosition THEN 0 ELSE heap[book].qty

-----------------------------------------------------------------------------
(* The exchange and the pipeline, from FillDelivery                        *)

ExecuteOrder(o) ==
    /\ Execute(o)
    /\ remote' = remote + Signed(Side(o), executed'[o] - executed[o])
    /\ UNCHANGED <<heap, book, bus, sync, applied, queued, disturbed>>

(* The pipeline publishes ORDER_FILLED.                                    *)
DeliverFill(o) ==
    /\ Deliver(o)
    /\ bus' = Publish(bus, Fill(o, delivered'[o]))
    /\ queued' = (queued \/ bus # <<>>)
    /\ disturbed' = (disturbed \/ Len(bus) = BusCapacity)
    /\ UNCHANGED <<remote, heap, book, sync, applied>>

-----------------------------------------------------------------------------
(* The handlers of the event bus                                           *)

\* mutant: a position that is exactly closed counts as flipped
FilledFlipsAtZero(p, f, n) ==
    IF f = "BUY" THEN [p EXCEPT !.qty = @ + n]
    ELSE IF p.qty - n <= 0 THEN [side |-> "SELL", qty |-> n - p.qty]
    ELSE [p EXCEPT !.qty = @ - n]

(* _apply_fill, when the book has position p and the fill is n on side f:  *)
(* BUY always adds, SELL always subtracts, and a result below zero turns   *)
(* the position into a short of the difference.                            *)
Filled(p, f, n) ==
    IF f = "BUY" THEN [p EXCEPT !.qty = @ + n]
    ELSE IF p.qty - n < 0 THEN [side |-> "SELL", qty |-> n - p.qty]
    ELSE [p EXCEPT !.qty = @ - n]

(* _on_fill: open, change, flip or close the position, and publish the     *)
(* object. A closed position leaves the book at once, but its object goes  *)
(* on the bus like any other.                                              *)
HandleFill ==
    /\ bus # <<>> /\ Head(bus).topic = "ORDER_FILLED"
    /\ LET e == Head(bus)
           cell == IF book = NoPosition THEN Fresh ELSE book
           now == IF book = NoPosition THEN [side |-> e.side, qty |-> e.qty]
                  ELSE Filled(heap[book], e.side, e.qty)
           closed == book # NoPosition /\ e.side = "SELL" /\ now.qty = 0
       IN  /\ heap' = [heap EXCEPT ![cell] = now]
           /\ book' = IF closed THEN NoPosition ELSE cell
           /\ bus' = Publish(Tail(bus), Updated(cell))
           /\ applied' = applied + Signed(e.side, e.qty)
           /\ disturbed' = (disturbed \/ (e.side = "SELL" /\ e.qty > LocalQty))
    /\ UNCHANGED <<executed, delivered, remote, sync, queued>>

(* _on_position_updated: the object of the event becomes the book's entry, *)
(* whatever the book holds by now.                                         *)
HandleUpdated ==
    /\ bus # <<>> /\ Head(bus).topic = "POSITION_UPDATED"
    /\ book' = Head(bus).cell
    /\ bus' = Tail(bus)
    /\ UNCHANGED <<executed, delivered, remote, heap, sync, applied, queued, disturbed>>

-----------------------------------------------------------------------------
(* The position sync loop                                                  *)

(* fetch_positions answers with the exchange's net position of this moment. *)
SyncFetch ==
    /\ ~sync.fetched
    /\ sync' = [fetched |-> TRUE, net |-> remote]
    /\ UNCHANGED <<executed, delivered, remote, heap, book, bus, applied, queued, disturbed>>

\* mutant: a position the book already has is not reconciled
SyncApplyInsertsOnly ==
    /\ sync.fetched
    /\ sync' = NoFetch
    /\ IF sync.net # 0 /\ book = NoPosition
       THEN /\ heap' = [heap EXCEPT ![Fresh] = [side |-> IF sync.net > 0 THEN "BUY" ELSE "SELL",
                                               qty |-> Abs(sync.net)]]
            /\ book' = Fresh
       ELSE UNCHANGED <<heap, book>>
    /\ disturbed' = (disturbed \/ (sync.net # 0 /\ (sync.net # applied \/ bus # <<>>)))
    /\ UNCHANGED <<executed, delivered, remote, bus, applied, queued>>

(* The answer is written to the book: a position is inserted, or the       *)
(* quantity (and not the side) of the local one overwritten. Flat symbols  *)
(* are absent from the answer: the local position stays.                   *)
SyncApply ==
    /\ sync.fetched
    /\ sync' = NoFetch
    /\ IF sync.net = 0
       THEN UNCHANGED <<heap, book, bus>>
       ELSE IF book = NoPosition
               THEN /\ heap' = [heap EXCEPT ![Fresh] =
                                  [side |-> IF sync.net > 0 THEN "BUY" ELSE "SELL",
                                   qty |-> Abs(sync.net)]]
                    /\ book' = Fresh
                    /\ UNCHANGED bus
               ELSE /\ heap' = [heap EXCEPT ![book].qty = Abs(sync.net)]
                    /\ bus' = Publish(bus, Updated(book))
                    /\ UNCHANGED book
    /\ disturbed' = (disturbed \/ (sync.net # 0 /\ (sync.net # applied \/ bus # <<>>)))
    /\ UNCHANGED <<executed, delivered, remote, applied, queued>>

(* fetch_positions raises, or the exchange is not connected.               *)
SyncError ==
    /\ sync.fetched
    /\ sync' = NoFetch
    /\ UNCHANGED <<executed, delivered, remote, heap, book, bus, applied, queued, disturbed>>

-----------------------------------------------------------------------------
Next ==
    \/ \E o \in Orders : ExecuteOrder(o) \/ DeliverFill(o)
    \/ HandleFill \/ HandleUpdated
    \/ SyncFetch \/ SyncApply \/ SyncError

Spec == Init /\ [][Next]_vars

(* The bus and the sync loop run as long as the engine does, and not every *)
(* fetch fails. Nothing is assumed of the orders.                          *)
Fairness ==
    /\ WF_vars(HandleFill \/ HandleUpdated)
    /\ WF_vars(SyncFetch)
    /\ SF_vars(SyncApply)

FairSpec == Spec /\ Fairness

-----------------------------------------------------------------------------
(* Properties                                                              *)

(* While fills meet an idle bus, nothing is sold short and the answers of  *)
(* the exchange are up to date, the book shows the net of the fills, though *)
(* every closed position is deleted by one handler and put back by the     *)
(* next. Book, bus and answers keep their types.                           *)
CalmBookIsExact ==
    TypeOK /\ ((bus = <<>> /\ ~queued /\ ~disturbed) => LocalNet = applied)

(* The sync loop heals the quantity: once the exchange's position no longer *)
(* changes and is not flat, the book ends up with its quantity for good,   *)
(* whatever fills were lost on a full bus, counted twice by a stale answer *)
(* or undone by an event that carried an old object.                       *)
QuantityReconciled == <>[](remote # 0 => LocalQty = Abs(remote))

(* _apply_fill updates the book after a fill (its docstring): without short *)
(* sales, dropped events or stale answers, the drained book is the net of  *)
(* the fills. Violated when fills queue up behind one that closes.         *)
BookIsNetOfFills == (bus = <<>> /\ ~disturbed) => LocalNet = applied
=============================================================================
