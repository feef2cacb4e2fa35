---------------------------- MODULE OrderRecovery ----------------------------
(***************************************************************************)
(* What a restart knows of its orders (infrastructure/recovery.py): the    *)
(* state manager keeps the live state of the component "orders" and its    *)
(* snapshots, of which the latest counts, and reconcile compares that one  *)
(* with the exchange and replaces it by the exchange's open orders.        *)
(*                                                                         *)
(* reconcile reads the snapshot, asks the exchange and saves, and other    *)
(* threads trade in between; the process may crash at any step. An order's *)
(* status is left out of the record, and with it the report of mismatches. *)
(* The program places an order, then adds it to the live state, and drops  *)
(* it there when it hears that the order is over.                          *)
(***************************************************************************)
EXTENDS FiniteSets

CONSTANTS
    RecOrders,  \* names for the orders
    OneSymbol   \* those of the symbol a reconciliation may be limited to

ASSUME OrderRecoveryAssumption == OneSymbol \subseteq RecOrders

VARIABLES
    market,     \* external: market[o]: "new", "open" or "over" on the exchange
    alive,      \* the process runs
    unrecorded, \* orders placed by a call that has not recorded them yet
    live,       \* _live_state["orders"]
    saved,      \* database: the orders of the latest snapshot
    recon,      \* the reconciliation under way
    stale,      \* the report of the last one: [orders, asked]
    unheld     \* history: orders the latest snapshot need not hold

recVars == <<market, alive, unrecorded, live, saved, recon, stale, unheld>>

Scopes == {RecOrders, OneSymbol}

\* a reconciliation: ours are the orders of the snapshot, theirs those of the
\* exchange, and fresh the orders placed since the exchange answered
Recon(at, asked, ours, theirs, fresh) ==
    [at |-> at, asked |-> asked, ours |-> ours, theirs |-> theirs, fresh |-> fresh]
NoRecon == Recon("none", RecOrders, {}, {}, {})

Open == {o \in RecOrders : market[o] = "open"}

RecTypeOK ==
    /\ market \in [RecOrders -> {"new", "open", "over"}]
    /\ alive \in BOOLEAN
    /\ unrecorded \subseteq RecOrders /\ live \subseteq RecOrders /\ saved \subseteq RecOrders
    /\ recon \in [at : {"none", "read", "fetched"}, asked : Scopes, ours : SUBSET RecOrders,
                  theirs : SUBSET RecOrders, fresh : SUBSET RecOrders]
    /\ stale \in [orders : SUBSET RecOrders, asked : Scopes]
    /\ unheld \subseteq RecOrders

RecInit ==
    /\ market = [o \in RecOrders |-> "new"]
    /\ alive = TRUE
    /\ unrecorded = {} /\ live = {} /\ saved = {}
    /\ recon = NoRecon
    /\ stale = [orders |-> {}, asked |-> RecOrders]
    /\ unheld = {}

-----------------------------------------------------------------------------
(* Trading                                                                 *)

Place(o) ==
    /\ alive /\ market[o] = "new"
    /\ market' = [market EXCEPT ![o] = "open"]
    /\ unrecorded' = unrecorded \cup {o}
    /\ recon' = IF recon.at = "fetched" THEN [recon EXCEPT !.fresh = @ \cup {o}] ELSE recon
    /\ unheld' = unheld \cup {o}
    /\ UNCHANGED <<alive, live, saved, stale>>

(* update_live: in memory only.                                            *)
Record(o) ==
    /\ alive /\ o \in unrecorded
    /\ unrecorded' = unrecorded \ {o}
    /\ live' = live \cup {o}
    /\ UNCHANGED <<market, alive, saved, recon, stale, unheld>>

Over(o) ==
    /\ market[o] = "open"
    /\ market' = [market EXCEPT ![o] = "over"]
    /\ UNCHANGED <<alive, unrecorded, live, saved, recon, stale, unheld>>

HearsOver(o) ==
    /\ alive /\ o \in live /\ market[o] = "over"
    /\ live' = live \ {o}
    /\ UNCHANGED <<market, alive, unrecorded, saved, recon, stale, unheld>>

(* snapshot: what the component knows becomes the latest snapshot.         *)
Snapshot ==
    /\ alive
    /\ saved' = live
    /\ unheld' = unheld \ live
    /\ UNCHANGED <<market, alive, unrecorded, live, recon, stale>>

-----------------------------------------------------------------------------
(* reconcile                                                               *)

ReconReads ==
    /\ alive /\ recon.at = "none"
    /\ \E scope \in Scopes : recon' = Recon("read", scope, saved, {}, {})
    /\ UNCHANGED <<market, alive, unrecorded, live, saved, stale, unheld>>

(* The exchange answers, and what the snapshot held and the exchange does  *)
(* not is reported as stale.                                               *)
ReconFetches ==
    /\ alive /\ recon.at = "read"
    /\ LET theirs == Open \cap recon.asked
       IN /\ recon' = [recon EXCEPT !.at = "fetched", !.theirs = theirs]
          /\ stale' = [orders |-> recon.ours \ theirs, asked |-> recon.asked]
    /\ UNCHANGED <<market, alive, unrecorded, live, saved, unheld>>

(* The request raises: the report is returned empty.                       *)
ReconRaises ==
    /\ alive /\ recon.at = "read"
    /\ recon' = NoRecon
    /\ stale' = [orders |-> {}, asked |-> recon.asked]
    /\ UNCHANGED <<market, alive, unrecorded, live, saved, unheld>>

ReconKeeps(kept) ==
    /\ alive /\ recon.at = "fetched"
    /\ live' = kept /\ saved' = kept
    /\ unheld' = (unheld \cup recon.fresh \cup (RecOrders \ recon.asked)) \ recon.theirs
    /\ recon' = NoRecon
    /\ UNCHANGED <<market, alive, unrecorded, stale>>

\* mutant: orders nobody knew of are not taken over
ReconSavesKnown == ReconKeeps(recon.theirs \cap recon.ours)

(* The exchange's orders become snapshot and live state: all others are    *)
(* dropped, those of other symbols and those placed since it answered too. *)
ReconSaves == ReconKeeps(recon.theirs)

-----------------------------------------------------------------------------
(* Crash and restart                                                       *)

ProcessCrashes ==
    /\ alive
    /\ alive' = FALSE
    /\ unrecorded' = {} /\ live' = {}
    /\ recon' = NoRecon
    /\ UNCHANGED <<market, saved, stale, unheld>>

(* startup finds the log unclean, and the caller reconstructs, as it is    *)
(* told to.                                                                *)
Reconstruct ==
    /\ ~alive
    /\ alive' = TRUE
    /\ live' = saved
    /\ UNCHANGED <<market, unrecorded, saved, recon, stale, unheld>>

RecNext ==
    \/ \E o \in RecOrders : Place(o) \/ Record(o) \/ Over(o) \/ HearsOver(o)
    \/ Snapshot \/ ReconReads \/ ReconFetches \/ ReconRaises \/ ReconSaves
    \/ ProcessCrashes \/ Reconstruct

RecSpec == RecInit /\ [][RecNext]_recVars

-----------------------------------------------------------------------------
(* Properties                                                              *)

(* What a restart can rely on. An order open on the exchange is in the     *)
(* latest snapshot, unless none was taken since it was recorded, or the    *)
(* last reconciliation dropped it: one limited to another symbol, or one   *)
(* whose answer from the exchange is older than the order. And an order    *)
(* reported stale is over, or its symbol was not asked for.                *)
OrdersRecovered ==
    /\ \A o \in Open : o \in saved \/ o \in unheld
    /\ \A o \in stale.orders \cap stale.asked : market[o] = "over"
=============================================================================
