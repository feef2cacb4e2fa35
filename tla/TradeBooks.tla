----------------------------- MODULE TradeBooks -----------------------------
(***************************************************************************)
(* Two books over one stream of fills, for one symbol of one strategy: the *)
(* PortfolioManager of portfolio/portfolio_manager.py, which keeps cash,   *)
(* and the PositionTracker of portfolio/position_tracker.py, which keeps   *)
(* profit and loss. Each fill is one step of each. Quantities, prices and  *)
(* fees are whole numbers; averages are fractions, kept exactly.           *)
(*                                                                         *)
(* Left out: the trade log, the equity curve and what is computed from it, *)
(* and the marks (update_price, update_prices), which change no account:   *)
(* the properties hold at every price.                                     *)
(***************************************************************************)
EXTENDS Integers

CONSTANTS
    InitialCash,   \* initial_cash
    FillPrices,    \* the prices of fills
    FillSizes,     \* their quantities
    FillFees,      \* their commissions
    MaxBooked      \* bound on the fills booked

ASSUME BooksAssumption ==
    /\ InitialCash \in Int
    /\ FillPrices \subseteq Nat \ {0} /\ FillSizes \subseteq Nat \ {0}
    /\ FillFees \subseteq Nat /\ MaxBooked \in Nat

VARIABLES
    cash,       \* _cash
    pos,        \* _positions[key]: signed quantity (0 when deleted) and average
    realized,   \* _realized_pnl
    commission, \* _total_commission
    tracked,    \* PositionInfo: quantity, average, realized and fees
    booked,     \* the number of fills booked
    outlay,     \* history: bought less sold, in money
    exitFees,   \* history: the commissions of fills that reduced a position
    plain,      \* history: no short was opened and no position was added to
    crossed     \* history: a fill took the position from one side to the other

bookVars == <<cash, pos, realized, commission, tracked, booked, outlay, exitFees, plain, crossed>>

-----------------------------------------------------------------------------
(* Fractions: <<n, d>> with d > 0                                          *)

Divides(k, n) == n % k = 0
Reduced(n, d) ==
    LET g == CHOOSE k \in 1..d :
                 /\ Divides(k, n) /\ Divides(k, d)
                 /\ \A j \in (k + 1)..d : ~(Divides(j, n) /\ Divides(j, d))
    IN  <<n \div g, d \div g>>
Whole(n) == <<n, 1>>
Plus(a, b) == Reduced(a[1] * b[2] + b[1] * a[2], a[2] * b[2])
Times(a, n) == Reduced(a[1] * n, a[2])
Over(a, n) == Reduced(a[1], a[2] * n)

Abs(n) == IF n < 0 THEN -n ELSE n
SameSide(q, s) == q * s > 0

-----------------------------------------------------------------------------

Fraction == Int \X (Nat \ {0})

BooksTypeOK ==
    /\ cash \in Int /\ commission \in Nat
    /\ pos.quantity \in Int /\ pos.average \in Fraction
    /\ realized \in Fraction
    /\ tracked.quantity \in Int /\ tracked.fees \in Nat
    /\ tracked.average \in Fraction /\ tracked.realized \in Fraction
    /\ booked \in 0..MaxBooked
    /\ outlay \in Int /\ exitFees \in Nat
    /\ plain \in BOOLEAN /\ crossed \in BOOLEAN

BooksInit ==
    /\ cash = InitialCash /\ realized = Whole(0) /\ commission = 0
    /\ pos = [quantity |-> 0, average |-> Whole(0)]
    /\ tracked = [quantity |-> 0, average |-> Whole(0), realized |-> Whole(0), fees |-> 0]
    /\ booked = 0 /\ outlay = 0 /\ exitFees = 0
    /\ plain = TRUE /\ crossed = FALSE

(* The average after adding n at a price to q at an average.               *)
Averaged(average, q, price, n) == Over(Plus(Times(average, q), Whole(price * n)), q + n)

(* _calc_pnl, of closing n of a position on side s.                        *)
Pnl(average, s, price, n) == Times(Plus(Whole(price), Times(average, -1)), s * n)

(* apply_fill for a fill on the position's side: the average moves, the    *)
(* cash does not.                                                          *)
AddToPosition(s, n, price) ==
    /\ pos' = [quantity |-> pos.quantity + s * n,
               average |-> Averaged(pos.average, Abs(pos.quantity), price, n)]
    /\ UNCHANGED <<cash, realized, exitFees>>

(* _open_position, also for what an overfill leaves: it is paid for,       *)
(* whatever its side.                                                      *)
Cost(n, price, fee) == n * price + fee

\* mutant: the quantity left after an overfill is the whole fill
ReduceReopensWhole(s, n, price, fee) ==
    LET held == Abs(pos.quantity)
        closed == IF n < held THEN n ELSE held
        rest == IF n > held THEN n ELSE 0
    IN  /\ realized' = Plus(Plus(realized, Pnl(pos.average, -s, price, closed)), Whole(-fee))
        /\ cash' = cash + closed * price - fee - (IF rest > 0 THEN Cost(rest, price, fee) ELSE 0)
        /\ pos' = [quantity |-> IF n < held THEN pos.quantity + s * n ELSE s * rest,
                   average |-> IF n < held THEN pos.average ELSE Whole(price)]
        /\ exitFees' = exitFees + fee

(* apply_fill for a fill on the other side: what it closes is received in  *)
(* cash, whatever the side, and what is left over opens a position.        *)
Reduce(s, n, price, fee) ==
    LET held == Abs(pos.quantity)
        closed == IF n < held THEN n ELSE held
        rest == n - closed
    IN  /\ realized' = Plus(Plus(realized, Pnl(pos.average, -s, price, closed)), Whole(-fee))
        /\ cash' = cash + closed * price - fee - (IF rest > 0 THEN Cost(rest, price, fee) ELSE 0)
        /\ pos' = [quantity |-> pos.quantity + s * n,
                   average |-> IF n < held THEN pos.average ELSE Whole(price)]
        /\ exitFees' = exitFees + fee

Open(s, n, price, fee) ==
    /\ cash' = cash - Cost(n, price, fee)
    /\ pos' = [quantity |-> s * n, average |-> Whole(price)]
    /\ UNCHANGED <<realized, exitFees>>

ApplyFill(s, n, price, fee) ==
    /\ commission' = commission + fee
    /\ IF pos.quantity = 0 THEN Open(s, n, price, fee)
       ELSE IF SameSide(pos.quantity, s) THEN AddToPosition(s, n, price)
       ELSE Reduce(s, n, price, fee)

(* update_position: adding moves the average; a fill that leaves less than *)
(* there was realizes the profit of its whole quantity; one that leaves as *)
(* much or more on the other side realizes nothing. The average stays.     *)
UpdatePosition(s, n, price, fee) ==
    LET old == tracked.quantity
        new == old + s * n
        adds == old = 0 \/ SameSide(old, s)
    IN  tracked' =
           [quantity |-> new,
            average  |-> IF adds THEN Averaged(tracked.average, Abs(old), price, n)
                         ELSE tracked.average,
            realized |-> IF ~adds /\ Abs(new) < Abs(old)
                         THEN Plus(tracked.realized, Pnl(tracked.average, -s, price, n))
                         ELSE tracked.realized,
            fees     |-> tracked.fees + fee]

(* A fill reaches both books.                                              *)
Book(s, n, price, fee) ==
    /\ booked < MaxBooked
    /\ ApplyFill(s, n, price, fee)
    /\ UpdatePosition(s, n, price, fee)
    /\ booked' = booked + 1
    /\ outlay' = outlay + s * n * price
    /\ plain' = (plain /\ pos.quantity + s * n >= 0 /\ ~SameSide(pos.quantity, s))
    /\ crossed' = (crossed \/ pos.quantity * (pos.quantity + s * n) < 0)

BooksNext ==
    \E s \in {1, -1}, n \in FillSizes, p \in FillPrices, f \in FillFees : Book(s, n, p, f)

BooksSpec == BooksInit /\ [][BooksNext]_bookVars

-----------------------------------------------------------------------------
(* Properties                                                              *)

(* The profit realized so far and the cost of what is still held are what  *)
(* was paid: the identity behind a profit and loss that is right at every  *)
(* price.                                                                  *)
PaidFor(profit, average, quantity) ==
    Plus(profit, Whole(outlay)) = Times(average, quantity)

(* The portfolio's realized profit is exact through every sequence of      *)
(* fills, crossings included, less the commissions of its exits only.      *)
PortfolioExact == PaidFor(Plus(realized, Whole(exitFees)), pos.average, pos.quantity)

(* The tracker's is exact until a fill crosses from one side to the other. *)
TrackerExact ==
    /\ tracked.quantity = pos.quantity /\ tracked.fees = commission
    /\ ~crossed => PaidFor(tracked.realized, tracked.average, tracked.quantity)

(* The cash is what was there, less what was paid, as long as no short was *)
(* opened and no position added to.                                        *)
CashExact == plain => cash = InitialCash - outlay - commission

(* BooksAgree: both books hold the same position, and their accounts are   *)
(* exact within the cases named (portfolio_manager.py:64-134,              *)
(* position_tracker.py:71-91).                                             *)
BooksAgree == BooksTypeOK /\ PortfolioExact /\ TrackerExact /\ CashExact

=============================================================================
