----------------------------- MODULE LiveOrders -----------------------------
(***************************************************************************)
(* Orders through the live connectors (exchanges/binance_connector.py and  *)
(* exchanges/bybit_connector.py) on the connection that module Connector   *)
(* models: submit_order, cancel_order and fetch_order with the retries of  *)
(* _retry, while the connector may be reconnected or closed under them.    *)
(*                                                                         *)
(* An answer with an error status is an ExchangeError and is retried;      *)
(* anything else that raises (no session, a broken connection) ends the    *)
(* operation. The exchange is external: it may have acted on a request     *)
(* whose answer is an error or never arrives. It knows an order by the     *)
(* identifier it gave it, not by the Order.id of this program, which is    *)
(* what the order pipeline passes to cancel_order and fetch_order.         *)
(***************************************************************************)
EXTENDS Connector

CONSTANTS
    LiveSubs,    \* the submit_order calls; each has an order of its own
    MaxTries,    \* max_retries of _retry
    MaxLookups   \* bound on the calls of cancel_order and fetch_order

ASSUME LiveAssumption ==
    /\ IsFiniteSet(LiveSubs)
    /\ MaxTries \in Nat \ {0}
    /\ MaxLookups \in Nat

VARIABLES
    linked,      \* the orders sent through Bybit, with Order.id as orderLinkId
    local,       \* local[s]: the state of the Order object
    known,       \* known[s]: its exchange_order_id is set
    request,     \* request[s]: the operation under way on it, and its attempt
    lookups,     \* cancel_order and fetch_order calls so far
    placed,      \* external: orders created at the exchange for s
    ended,       \* external: those of them cancelled
    unanswered,  \* history: orders created by a request whose answer was lost
    confirmed    \* history: the identifiers by which a lookup has succeeded

orderVars == <<linked, local, known, request, lookups, placed, ended, unanswered, confirmed>>
liveVars == <<connVars, orderVars>>

LocalStates == {"PENDING", "SUBMITTED", "PARTIAL", "FILLED", "REJECTED"}
Taken == {"SUBMITTED", "PARTIAL", "FILLED"}

NoRequest == [op |-> "none", by |-> "none", try |-> 0, at |-> "none"]

LiveTypeOK ==
    /\ linked \in SUBSET LiveSubs
    /\ local \in [LiveSubs -> LocalStates]
    /\ known \in [LiveSubs -> BOOLEAN]
    /\ request \in [LiveSubs -> [op : {"none", "submit", "cancel", "fetch"},
                                 by : {"none", "local", "exchange"},
                                 try : 0..MaxTries,
                                 at : {"none", "wire", "backoff"}]]
    /\ lookups \in 0..MaxLookups
    /\ placed \in [LiveSubs -> Nat]
    /\ ended \in [LiveSubs -> Nat]
    /\ unanswered \in [LiveSubs -> Nat]
    /\ confirmed \in SUBSET {"local", "exchange"}

LiveInit ==
    /\ ConnInit
    /\ linked \in SUBSET LiveSubs
    /\ local = [s \in LiveSubs |-> "PENDING"]
    /\ known = [s \in LiveSubs |-> FALSE]
    /\ request = [s \in LiveSubs |-> NoRequest]
    /\ lookups = 0
    /\ placed = [s \in LiveSubs |-> 0]
    /\ ended = [s \in LiveSubs |-> 0]
    /\ unanswered = [s \in LiveSubs |-> 0]
    /\ confirmed = {}

-----------------------------------------------------------------------------
(* Sending and retrying                                                    *)

\* the operation ends; a submission that raises leaves its order REJECTED
Raise(s, r) ==
    /\ request' = [request EXCEPT ![s] = NoRequest]
    /\ local' = IF r.op = "submit" THEN [local EXCEPT ![s] = "REJECTED"] ELSE local

(* A request needs the session: without an open one it raises at once.     *)
Send(s, r) ==
    IF session = "open"
    THEN /\ request' = [request EXCEPT ![s] = [r EXCEPT !.try = r.try + 1, !.at = "wire"]]
         /\ UNCHANGED local
    ELSE Raise(s, r)

(* submit_order, on a connected connector; otherwise it raises and leaves  *)
(* the order as it is.                                                     *)
SubmitLive(s) ==
    /\ local[s] = "PENDING"
    /\ request[s] = NoRequest
    /\ connState = "CONNECTED"
    /\ Send(s, [op |-> "submit", by |-> "none", try |-> 0, at |-> "none"])
    /\ UNCHANGED <<linked, known, lookups, placed, ended, unanswered, confirmed>>

(* cancel_order and fetch_order, by either identifier. Binance's needs a   *)
(* number: with Order.id it raises before anything is sent.                *)
Lookup(s, op, by) ==
    /\ request[s] = NoRequest
    /\ local[s] \in Taken
    /\ by = "exchange" => known[s]
    /\ lookups < MaxLookups
    /\ lookups' = lookups + 1
    /\ IF by = "local" /\ s \notin linked
       THEN UNCHANGED <<local, request>>
       ELSE Send(s, [op |-> op, by |-> by, try |-> 0, at |-> "none"])
    /\ UNCHANGED <<linked, known, placed, ended, unanswered, confirmed>>

(* _retry: an ExchangeError is followed by another attempt after a pause,  *)
(* until the attempts are used up.                                         *)
RetryOrRaise(s) ==
    IF request[s].try < MaxTries
    THEN /\ request' = [request EXCEPT ![s].at = "backoff"]
         /\ UNCHANGED local
    ELSE Raise(s, request[s])

Resend(s) ==
    /\ request[s].at = "backoff"
    /\ Send(s, request[s])
    /\ UNCHANGED <<linked, known, lookups, placed, ended, unanswered, confirmed>>

-----------------------------------------------------------------------------
(* What becomes of a submission                                            *)

OnWire(s, op) == request[s].at = "wire" /\ request[s].op = op

\* mutant: the order identifier is not sent along
AcceptableAnew(s) == placed[s] < MaxTries

\* external: the exchange takes an orderLinkId once
Acceptable(s) == s \in linked => placed[s] = 0

Place(s) == placed' = [placed EXCEPT ![s] = @ + 1]

(* The order is placed and its answer read: by Binance's answer it may be  *)
(* filled already, Bybit's says nothing of fills.                          *)
Accepted(s) ==
    /\ OnWire(s, "submit")
    /\ Acceptable(s)
    /\ Place(s)
    /\ known' = [known EXCEPT ![s] = TRUE]
    /\ \E st \in IF s \in linked THEN {"SUBMITTED"} ELSE Taken :
          local' = [local EXCEPT ![s] = st]
    /\ request' = [request EXCEPT ![s] = NoRequest]
    /\ UNCHANGED <<linked, lookups, ended, unanswered, confirmed>>

(* The answer is an error, the order placed or not.                        *)
SubmitFails(s) ==
    /\ OnWire(s, "submit")
    /\ RetryOrRaise(s)
    /\ \/ UNCHANGED <<placed, unanswered>>
       \/ /\ Acceptable(s)
          /\ Place(s)
          /\ unanswered' = [unanswered EXCEPT ![s] = @ + 1]
    /\ UNCHANGED <<linked, known, lookups, ended, confirmed>>

(* The connection breaks, the order placed or not.                         *)
SubmitBreaks(s) ==
    /\ OnWire(s, "submit")
    /\ Raise(s, request[s])
    /\ \/ UNCHANGED <<placed, unanswered>>
       \/ /\ Acceptable(s)
          /\ Place(s)
          /\ unanswered' = [unanswered EXCEPT ![s] = @ + 1]
    /\ UNCHANGED <<linked, known, lookups, ended, confirmed>>

-----------------------------------------------------------------------------
(* What becomes of a cancel or a fetch                                     *)

\* external: the exchange finds an order by the identifier it gave it
Found(s) == request[s].by = "exchange"

\* the order s refers to is cancelled at the exchange
End(s) ==
    /\ ended[s] = 0
    /\ ended' = [ended EXCEPT ![s] = 1]

Confirmed(s) ==
    /\ \E op \in {"cancel", "fetch"} :
          /\ OnWire(s, op)
          /\ Found(s)
          /\ IF op = "cancel" THEN End(s) ELSE UNCHANGED ended
    /\ confirmed' = confirmed \cup {request[s].by}
    /\ request' = [request EXCEPT ![s] = NoRequest]
    /\ UNCHANGED <<linked, local, known, lookups, placed, unanswered>>

(* The answer is an error: not found, ended before, or cancelled just now. *)
LookupFails(s) ==
    /\ OnWire(s, "cancel") \/ OnWire(s, "fetch")
    /\ RetryOrRaise(s)
    /\ \/ UNCHANGED ended
       \/ OnWire(s, "cancel") /\ Found(s) /\ End(s)
    /\ UNCHANGED <<linked, known, lookups, placed, unanswered, confirmed>>

LookupBreaks(s) ==
    /\ OnWire(s, "cancel") \/ OnWire(s, "fetch")
    /\ Raise(s, request[s])
    /\ \/ UNCHANGED ended
       \/ OnWire(s, "cancel") /\ Found(s) /\ End(s)
    /\ UNCHANGED <<linked, known, lookups, placed, unanswered, confirmed>>

-----------------------------------------------------------------------------
OrderStep(s) ==
    \/ SubmitLive(s) \/ Resend(s)
    \/ Accepted(s) \/ SubmitFails(s) \/ SubmitBreaks(s)
    \/ \E op \in {"cancel", "fetch"}, by \in {"local", "exchange"} : Lookup(s, op, by)
    \/ Confirmed(s) \/ LookupFails(s) \/ LookupBreaks(s)

LiveNext ==
    \/ ConnNext /\ UNCHANGED orderVars
    \/ (\E s \in LiveSubs : OrderStep(s)) /\ UNCHANGED connVars

LiveSpec == LiveInit /\ [][LiveNext]_liveVars

-----------------------------------------------------------------------------
(* Properties                                                              *)

(* A submission that succeeds has placed one order, and every other order  *)
(* the retries placed is one whose answer was lost: at most one for each   *)
(* attempt, none beside the first for an order that carries an             *)
(* orderLinkId. An order this program knows nothing of is only ever left   *)
(* behind by a lost answer. And no lookup by Order.id ever succeeds.       *)
LiveOrdersAccounted ==
    /\ \A s \in LiveSubs :
          /\ placed[s] = unanswered[s] + (IF local[s] \in Taken THEN 1 ELSE 0)
          /\ placed[s] <= IF s \in linked THEN 1 ELSE MaxTries
          /\ ended[s] > 0 => known[s]
    /\ "local" \notin confirmed

-----------------------------------------------------------------------------
(* The inductive invariant                                                 *)

\* the number of orders the attempts so far may have placed
MayHavePlaced(s) ==
    CASE request[s].at = "wire" -> request[s].try - 1
      [] request[s].at = "backoff" -> request[s].try
      [] OTHER -> 0

RequestInv(s) ==
    /\ request[s].op = "none" => request[s] = NoRequest
    /\ request[s].op # "none" => request[s].at # "none" /\ request[s].try > 0
    /\ request[s].at = "backoff" => request[s].try < MaxTries
    /\ request[s].op = "submit" => local[s] = "PENDING" /\ request[s].by = "none"
    /\ request[s].op \in {"cancel", "fetch"} => local[s] \in Taken
    /\ request[s].by = "exchange" => known[s]
    /\ local[s] = "PENDING" => placed[s] <= MayHavePlaced(s)

LiveIInv ==
    /\ LiveTypeOK
    /\ \A s \in LiveSubs : RequestInv(s)
    /\ LiveOrdersAccounted
=============================================================================
