--------------------------- MODULE MCPaperTrading ---------------------------
(* Three orders of five kinds on a symbol that trades at three prices. *)
EXTENDS PaperTrading, TLC

CONSTANTS o1, o2, o3

MCOrders == {o1, o2, o3}
Symmetry == Permutations(MCOrders)

Kind5(side, type, qty, px, stop) ==
    [side |-> side, type |-> type, qty |-> qty, px |-> px, stop |-> stop]

MCKinds == {Kind5("BUY", "MARKET", 2, 0, 0),
            Kind5("BUY", "LIMIT", 1, 4, 0),
            Kind5("SELL", "LIMIT", 2, 4, 0),
            Kind5("SELL", "STOP_MARKET", 1, 0, 3),
            Kind5("SELL", "STOP_LIMIT", 1, 3, 4)}
=============================================================================
