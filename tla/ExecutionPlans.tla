--------------------------- MODULE ExecutionPlans ---------------------------
(***************************************************************************)
(* The execution algorithms (execution/algorithms/): an order is cut into  *)
(* slices by TWAP, by VWAP or by implementation shortfall ("is"), a driver *)
(* asks which slices are due, trades them and reports the fills, and may   *)
(* cancel the rest. A behaviour is the life of one plan.                   *)
(*                                                                         *)
(* The driver is external: it sends one order at a time, for the whole of  *)
(* a slice (for a VWAP bucket, for what is left of it), never for a        *)
(* quantity that is not positive, and reports what the order filled.       *)
(* Quantities are integers; prices are left out. VWAP weights are percent  *)
(* of the total; the cap of a bucket is its share of the market's volume,  *)
(* so it is proportional to the weight too.                                *)
(***************************************************************************)
EXTENDS Integers, FiniteSets, Sequences, Functions

CONSTANTS
    Total,       \* total_quantity
    Slices,      \* num_slices
    Jitters,     \* the jitters of a TWAP slice
    Floors,      \* the minimum slice sizes
    Profiles,    \* the volume profiles: sequences of Slices percentages
    Caps,        \* max_bucket_qty per percent of weight
    Schedules,   \* the optimal trajectories: quantities that sum to Total
    Shortfalls,  \* by how much an order may fall short of its quantity
    MaxSends     \* bound on the orders the driver sends

SumOf(s) == SumFunction(s)

\* Volumes are not negative; a trajectory starts at the total and ends at zero.
ASSUME ExecutionAssumption ==
    /\ Total \in Nat \ {0} /\ Slices \in Nat \ {0}
    /\ Floors \subseteq Nat /\ Caps \subseteq Nat
    /\ Jitters \subseteq Int
    /\ Profiles \subseteq [1..Slices -> Nat]
    /\ \A p \in Schedules : p \in Seq(Nat) /\ SumOf(p) = Total
    /\ Shortfalls \subseteq Nat /\ MaxSends \in Nat

VARIABLES
    algo,      \* the algorithm of the plan
    strained,  \* history: what the slices ask for by themselves may exceed the total
    target,    \* target[i]: quantity of slice i
    got,       \* got[i]: what slice i filled
    closed,    \* closed[i]: filled (TWAP), completed (VWAP)
    hour,      \* the slice whose time it is, past the last one in the end
    sending,   \* the order at the exchange: its slice, 0 for none, and quantity
    sends,     \* orders sent so far
    finished,  \* completed
    withdrawn  \* the plan was cancelled

planVars == <<algo, strained, target, got, closed, hour, sending, sends, finished, withdrawn>>

SliceIds == 1..Len(target)
NotSending == [slice |-> 0, qty |-> 0]

PlanTypeOK ==
    /\ algo \in {"twap", "vwap", "is"} /\ strained \in BOOLEAN
    /\ target \in Seq(Int)
    /\ got \in [SliceIds -> Nat] /\ closed \in [SliceIds -> BOOLEAN]
    /\ hour \in 0..(Len(target) + 1)
    /\ sending \in [slice : 0..Len(target), qty : Nat] /\ sends \in 0..MaxSends
    /\ finished \in BOOLEAN /\ withdrawn \in BOOLEAN

-----------------------------------------------------------------------------
(* The plans                                                               *)

Greater(x, y) == IF x > y THEN x ELSE y
Lesser(x, y) == IF x < y THEN x ELSE y

\* slices, of which the last absorbs what the others leave of the total
Absorbed(s) == [s EXCEPT ![Len(s)] = @ + Total - SumOf(s)]

(* create_twap_order: equal slices with some jitter, each at least the     *)
(* minimum, the last one excepted. A jitter as wide as this one on every   *)
(* slice may leave the last nothing: 10 slices and 10 percent do not, but  *)
(* num_slices and randomize_pct are whatever the configuration says.       *)
TwapPlan ==
    \E jitter \in [1..Slices -> Jitters], floor \in Floors :
       LET base == Total \div Slices
       IN /\ target = Absorbed([i \in 1..Slices |-> Greater(floor, base + jitter[i])])
          /\ strained = \E i \in 1..(Slices - 1) :
                            \/ base + jitter[i] < floor
                            \/ (Slices - 1) * (base + jitter[i]) > Total

(* create_vwap_order: slices by the volume profile, capped, at least the   *)
(* minimum unless empty, and the last one with what is left besides. The   *)
(* profile of the configuration is used raw; set_volume_profile, which     *)
(* normalises, and the default profile give one that sums to 100.          *)
VwapPlan ==
    \E profile \in Profiles, cap \in Caps, floor \in Floors :
       LET share(i) == Lesser((Total * profile[i]) \div 100, cap * profile[i])
       IN /\ target = Absorbed([i \in 1..Slices |-> IF share(i) > 0 THEN Greater(share(i), floor) ELSE 0])
          /\ strained = \/ SumOf(profile) > 100
                        \/ \E i \in 1..Slices : share(i) > 0 /\ share(i) < floor

(* create_is_order: the slices of a precomputed trajectory.                *)
IsPlan == target \in Schedules /\ strained = FALSE

PlanInit ==
    /\ \/ algo = "twap" /\ TwapPlan
       \/ algo = "vwap" /\ VwapPlan
       \/ algo = "is" /\ IsPlan
    /\ got = [i \in SliceIds |-> 0] /\ closed = [i \in SliceIds |-> FALSE]
    /\ hour = 0 /\ sending = NotSending /\ sends = 0
    /\ finished = FALSE /\ withdrawn = FALSE

-----------------------------------------------------------------------------
(* The life of a plan                                                      *)

TimePasses ==
    /\ hour <= Len(target)
    /\ hour' = hour + 1
    /\ UNCHANGED <<algo, strained, target, got, closed, sending, sends, finished, withdrawn>>

\* get_pending_slices, get_current_bucket: TWAP offers what is due and has no
\* fill, VWAP the bucket of the hour, and IS whatever is due, done or not
Pending ==
    CASE algo = "twap" -> {i \in SliceIds : i <= hour /\ ~closed[i]}
      [] algo = "vwap" -> {i \in SliceIds : i = hour /\ ~closed[i]}
      [] algo = "is" -> {i \in SliceIds : i <= hour /\ target[i] > 0}

\* what the driver orders for slice i
Wanted(i) == IF algo = "vwap" THEN target[i] - got[i] ELSE target[i]

DriverSends ==
    /\ sending = NotSending /\ sends < MaxSends
    /\ \E i \in Pending : Wanted(i) > 0 /\ sending' = [slice |-> i, qty |-> Wanted(i)]
    /\ sends' = sends + 1
    /\ UNCHANGED <<algo, strained, target, got, closed, hour, finished, withdrawn>>

\* mutant: a slice stays open until it is filled to the last unit
ClosesOnlyFull(i, qty) ==
    CASE algo = "twap" -> qty >= target[i]
      [] algo = "vwap" -> got[i] + qty >= target[i]
      [] algo = "is" -> FALSE

\* whether a fill of qty closes slice i
Closes(i, qty) ==
    CASE algo = "twap" -> TRUE
      [] algo = "vwap" -> 100 * (got[i] + qty) >= 99 * target[i]
      [] algo = "is" -> FALSE

(* record_fill                                                             *)
RecordFill(i, qty) ==
    /\ got' = [got EXCEPT ![i] = @ + qty]
    /\ closed' = [closed EXCEPT ![i] = @ \/ Closes(i, qty)]
    /\ finished' = (finished \/ 1000 * (SumOf(got) + qty) >= 999 * Total)

(* The order ends, with all of its quantity filled or with less.           *)
OrderEnds ==
    /\ sending # NotSending
    /\ \E short \in Shortfalls :
          IF sending.qty > short THEN RecordFill(sending.slice, sending.qty - short)
          ELSE UNCHANGED <<got, closed, finished>>
    /\ sending' = NotSending
    /\ UNCHANGED <<algo, strained, target, hour, sends, withdrawn>>

(* cancel: TWAP only marks the orders of its slices.                       *)
CancelPlan ==
    /\ ~withdrawn
    /\ withdrawn' = TRUE /\ finished' = TRUE
    /\ closed' = IF algo = "vwap" THEN [i \in SliceIds |-> TRUE] ELSE closed
    /\ target' = IF algo = "is" THEN [i \in SliceIds |-> 0] ELSE target
    /\ UNCHANGED <<algo, strained, got, hour, sending, sends>>

PlanNext == TimePasses \/ DriverSends \/ OrderEnds \/ CancelPlan

PlanSpec == PlanInit /\ [][PlanNext]_planVars

-----------------------------------------------------------------------------
(* Properties                                                              *)

\* no slice is negative
Whole == \A i \in SliceIds : target[i] >= 0

(* What a driver that trades whatever it is offered brings about. With     *)
(* TWAP and VWAP it never trades more than the total, cancelled or not,    *)
(* unless a slice is negative, which nobody trades. The last one is only   *)
(* when a minimum enlarged another one, a jitter is too wide for that many *)
(* slices, or the volume profile was not normalised and sums to more than  *)
(* one. Implementation shortfall offers traded slices again. A cancelled   *)
(* plan offers nothing, except TWAP's. A plan with nothing left to offer   *)
(* that is not completed had an order fall short, and stays so: VWAP       *)
(* closes its buckets at 99 percent, and they can leave the plan short of  *)
(* the 99.9 that complete it. The plan's record keeps its type.            *)
PlansAccounted ==
    /\ PlanTypeOK
    /\ algo # "is" => /\ Whole => SumOf(got) + sending.qty <= Total
                      /\ ~Whole => strained
    /\ withdrawn /\ algo # "twap" => Pending = {}
    /\ hour > Len(target) /\ sending = NotSending /\ Pending = {} /\ ~finished =>
          \E i \in SliceIds : got[i] < target[i]
    /\ algo = "vwap" /\ Whole /\ ~withdrawn /\ (\A i \in SliceIds : closed[i]) =>
          100 * SumOf(got) >= 99 * Total

\* what the order at the exchange is for
OrderedFor(i) == IF sending.slice = i THEN sending.qty ELSE 0

(* The inductive invariant behind it: the slices make up the total, no     *)
(* slice gets more than it is to trade, and a plan that is not completed   *)
(* is short of the 99.9 percent.                                           *)
PlanIInv ==
    /\ PlanTypeOK
    /\ sending.slice = 0 => sending.qty = 0
    /\ \A i \in SliceIds :
          /\ algo # "is" => got[i] + OrderedFor(i) <= Greater(0, target[i])
          /\ algo = "twap" /\ ~closed[i] => got[i] = 0
          /\ algo = "vwap" /\ closed[i] /\ ~withdrawn => 100 * got[i] >= 99 * target[i]
          /\ algo = "vwap" /\ withdrawn => closed[i]
          /\ algo = "is" /\ withdrawn => target[i] = 0
    /\ algo # "is" \/ ~withdrawn => SumOf(target) = Total
    /\ algo # "is" /\ ~Whole => strained
    /\ withdrawn => finished
    /\ ~finished => 1000 * SumOf(got) < 999 * Total
=============================================================================
