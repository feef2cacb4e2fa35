------------------------- MODULE StrategyAllocation -------------------------
(***************************************************************************)
(* The orchestrator of strategies/multi_strategy/orchestrator.py, which    *)
(* weights strategies and gives them capital, and the factory of           *)
(* evolution/strategy_factory.py, which keeps the instances made from      *)
(* genomes.                                                                *)
(*                                                                         *)
(* Weights are exact fractions: a strategy has share / shareUnit, with one *)
(* unit for all, so that to normalize is to make the unit the sum of the   *)
(* shares. Allocated capital is a fraction of total_capital. All           *)
(* strategies are active: nothing in the code says otherwise. Left out:    *)
(* the metrics that are kept and only reported.                            *)
(***************************************************************************)
EXTENDS Integers, FiniteSets, Functions

CONSTANTS
    Sids,          \* identifiers of strategies
    WeightUnit,    \* the unit of the three weights below
    MinShare,      \* min_weight
    MaxShare,      \* max_weight
    AskedShares,   \* initial weights asked for
    SharpeUnit,    \* what is added to a Sharpe ratio to rate it
    SharpeFloor,   \* the least rating
    Sharpes,       \* Sharpe ratios
    Strengths,     \* strengths of signals, in halves
    MaxListed,     \* max_strategies of the orchestrator
    MaxMoves,      \* bound on registrations and removals
    MaxInstances,  \* max_strategies of the factory
    MaxCreated     \* bound on the instances created

\* No given identifier has the form of the factory's own, which are numbers here
ASSUME AllocationAssumption ==
    /\ MinShare \in Nat \ {0} /\ MaxShare \in MinShare..WeightUnit /\ WeightUnit \in Nat
    /\ AskedShares \subseteq Nat /\ Sharpes \subseteq Int
    /\ SharpeUnit \in Nat /\ SharpeFloor \in Nat \ {0}
    /\ MaxListed \in Nat /\ MaxMoves \in Nat /\ MaxInstances \in Nat /\ MaxCreated \in Nat
    /\ Strengths \subseteq {1, 2}
    /\ \A s \in Sids : s \notin 0..MaxInstances

VARIABLES
    shareUnit, \* the unit of the shares
    listed,    \* _allocations
    since,     \* history: what was done since the last rebalance_weights
    grown,     \* history: a strategy was registered since the weights were normalized
    moves,     \* history: number of registrations and removals
    instances, \* the factory's _instances
    created,   \* history: number of instances created
    removed,   \* history: number of instances removed
    lost,      \* history: instances overwritten by one of the same identifier
    paused     \* history: instances that were paused at some time

allocationVars ==
    <<shareUnit, listed, since, grown, moves, instances, created, removed, lost, paused>>

Allocation(share, given, of, sharpe) ==
    [share |-> share, capital |-> given, of |-> of, sharpe |-> sharpe]

InstanceStates == {"idle", "running", "paused", "stopped"}

AllocationTypeOK ==
    /\ shareUnit \in Nat \ {0}
    /\ DOMAIN listed \subseteq Sids
    /\ \A s \in DOMAIN listed :
          listed[s] \in [share : Nat \ {0}, capital : Nat \ {0}, of : Nat \ {0},
                         sharpe : Sharpes \cup {0}]
    /\ since \subseteq {"registered", "removed"} /\ grown \in BOOLEAN /\ moves \in 0..MaxMoves
    /\ DOMAIN instances \subseteq Sids \cup (0..MaxInstances)
    /\ \A i \in DOMAIN instances :
          instances[i] \in [status : InstanceStates, serial : 1..MaxCreated, named : BOOLEAN]
    /\ Cardinality(DOMAIN instances) <= MaxInstances
    /\ created \in 0..MaxCreated /\ removed \in 0..MaxCreated
    /\ lost \subseteq [serial : 1..MaxCreated, named : BOOLEAN] /\ paused \subseteq 1..MaxCreated

AllocationInit ==
    /\ shareUnit = WeightUnit /\ listed = [s \in {} |-> 0]
    /\ since = {} /\ grown = FALSE /\ moves = 0
    /\ instances = [i \in {} |-> 0] /\ created = 0 /\ removed = 0 /\ lost = {} /\ paused = {}

factoryVars == <<instances, created, removed, lost, paused>>
weightVars == <<shareUnit, listed, since, grown, moves>>

-----------------------------------------------------------------------------
(* The orchestrator                                                        *)

Lesser(a, b) == IF a < b THEN a ELSE b
Greater(a, b) == IF a > b THEN a ELSE b

\* max(low, min(high, x))
Clamped(low, x, high) == Greater(low, Lesser(high, x))

Shares(l) == [s \in DOMAIN l |-> l[s].share]
Put(l, s, a) == [r \in DOMAIN l \cup {s} |-> IF r = s THEN a ELSE l[r]]

(* register_strategy: the weights of the others stay as they are, so that  *)
(* the sum may pass one. A strategy that is listed already is replaced.    *)
EnlistStrategy(s, asked) ==
    /\ moves < MaxMoves /\ Cardinality(DOMAIN listed) < MaxListed
    /\ LET w == Clamped(MinShare, asked, MaxShare)
           scale == IF shareUnit % WeightUnit = 0 THEN 1 ELSE WeightUnit
           scaled == [r \in DOMAIN listed |-> [listed[r] EXCEPT !.share = @ * scale]]
       IN  /\ shareUnit' = shareUnit * scale
           /\ listed' =
                 Put(scaled, s, Allocation((w * shareUnit') \div WeightUnit, w, WeightUnit, 0))
    /\ since' = since \cup {"registered"} /\ grown' = TRUE /\ moves' = moves + 1
    /\ UNCHANGED factoryVars

(* remove_strategy: every other strategy gets its part of the weight, up   *)
(* to the maximum, and the weights are normalized. The capital stays.      *)
DelistStrategy(s) ==
    /\ moves < MaxMoves /\ s \in DOMAIN listed
    /\ LET rest == DOMAIN listed \ {s}
           n == Cardinality(rest)
           \* in parts of shareUnit * n * WeightUnit
           Raised(r) == Lesser(MaxShare * shareUnit * n,
                               (listed[r].share * n + listed[s].share) * WeightUnit)
           left == [r \in rest |-> [listed[r] EXCEPT !.share = Raised(r)]]
       IN  /\ listed' = left
           /\ shareUnit' = IF n = 0 THEN WeightUnit ELSE SumFunction(Shares(left))
           /\ grown' = FALSE
    /\ since' = since \cup {"removed"} /\ moves' = moves + 1
    /\ UNCHANGED factoryVars

\* update_performance; of a strategy that is not listed it says nothing
UpdateSharpe(s, sharpe) ==
    /\ s \in DOMAIN listed
    /\ listed' = [listed EXCEPT ![s].sharpe = sharpe]
    /\ UNCHANGED <<shareUnit, since, grown, moves, factoryVars>>

Rating(a) == Greater(SharpeFloor, a.sharpe + SharpeUnit)

\* mutant: the weights are not limited
Unlimited(rating, total) == WeightUnit * rating

\* The weight before normalizing, in parts of WeightUnit * total
Rebalanced(rating, total) == Clamped(MinShare * total, WeightUnit * rating, MaxShare * total)

(* rebalance_weights: in proportion to the ratings, within the limits, and *)
(* then normalized, which may lead out of the limits again.                *)
RebalanceWeights ==
    /\ DOMAIN listed # {}
    /\ LET total == SumFunction([s \in DOMAIN listed |-> Rating(listed[s])])
           Share(s) == Rebalanced(Rating(listed[s]), total)
           sum == SumFunction([s \in DOMAIN listed |-> Share(s)])
       IN  /\ shareUnit' = sum
           /\ listed' = [s \in DOMAIN listed |->
                           Allocation(Share(s), Share(s), sum, listed[s].sharpe)]
    /\ since' = {} /\ grown' = FALSE
    /\ UNCHANGED <<moves, factoryVars>>

(* compute_signal for one symbol: signals is a function from strategies,   *)
(* listed or not, to what they say. The stronger side wins, by the weights *)
(* of those that are listed; the order is sized by the capital of the most *)
(* confident strategy of that side, zero if this one is not listed. A net  *)
(* strength below a hundredth is no signal.                                *)
Silent == [side |-> "none", strength |-> 0, confidence |-> 0]
Voices == {Silent} \cup [side : {"buy", "sell"}, strength : Strengths, confidence : {1, 2}]

Speaking(signals, side) == {s \in DOMAIN signals : signals[s].side = side}

\* In halves of shareUnit
StrengthOf(signals, side) ==
    SumFunction([s \in Speaking(signals, side) \cap DOMAIN listed |->
                    signals[s].strength * listed[s].share])

NetStrength(signals) == StrengthOf(signals, "buy") - StrengthOf(signals, "sell")

Side(signals) ==
    LET net == NetStrength(signals) IN
    CASE 100 * net >= 2 * shareUnit -> "buy"
      [] -100 * net >= 2 * shareUnit -> "sell"
      [] OTHER -> "none"

\* The strategies the size may be taken from: the first of these in the caller's list
MostConfident(signals) ==
    LET heard == Speaking(signals, Side(signals)) IN
    {s \in heard : \A r \in heard : signals[r].confidence <= signals[s].confidence}

\* allocated_size, in parts of 2 * shareUnit * listed[best].of
OrderSize(signals, best) ==
    LET net == NetStrength(signals) IN
    IF best \in DOMAIN listed
    THEN listed[best].capital * Lesser(2 * shareUnit, Greater(net, -net)) ELSE 0

-----------------------------------------------------------------------------
(* The factory                                                             *)

Instance(st, serial, named) == [status |-> st, serial |-> serial, named |-> named]

(* create_from_genome: without a name the identifier is the number of      *)
(* instances. One that is taken is overwritten.                            *)
CreateFromGenome(name, given) ==
    /\ created < MaxCreated /\ Cardinality(DOMAIN instances) < MaxInstances
    /\ LET id == IF given THEN name ELSE Cardinality(DOMAIN instances) IN
       /\ instances' = Put(instances, id, Instance("idle", created + 1, given))
       /\ lost' = IF id \in DOMAIN instances
                  THEN lost \cup {[serial |-> instances[id].serial, named |-> given]}
                  ELSE lost
    /\ created' = created + 1
    /\ UNCHANGED <<weightVars, removed, paused>>

SetStatus(i, st) ==
    /\ instances' = [instances EXCEPT ![i].status = st]
    /\ UNCHANGED <<weightVars, created, removed, lost>>

StopInstance(i) == SetStatus(i, "stopped") /\ UNCHANGED paused
PauseInstance(i) == SetStatus(i, "paused") /\ paused' = paused \cup {instances[i].serial}
ResumeInstance(i) ==
    instances[i].status = "paused" /\ SetStatus(i, "running") /\ UNCHANGED paused

RemoveInstance(i) ==
    /\ instances' = Restrict(instances, DOMAIN instances \ {i}) /\ removed' = removed + 1
    /\ UNCHANGED <<weightVars, created, lost, paused>>

FactoryNext ==
    \/ CreateFromGenome(0, FALSE)
    \/ \E s \in Sids : CreateFromGenome(s, TRUE)
    \/ \E i \in DOMAIN instances :
          StopInstance(i) \/ PauseInstance(i) \/ ResumeInstance(i) \/ RemoveInstance(i)

WeightNext ==
    \/ RebalanceWeights
    \/ \E s \in Sids : \/ DelistStrategy(s)
                       \/ \E w \in AskedShares : EnlistStrategy(s, w)
                       \/ \E x \in Sharpes : UpdateSharpe(s, x)

AllocationNext == WeightNext \/ FactoryNext

AllocationSpec == AllocationInit /\ [][AllocationNext]_allocationVars

-----------------------------------------------------------------------------
(* Properties                                                              *)

(* The sum of the allocated capital exceeds total_capital. Capital is in   *)
(* parts of WeightUnit or of the unit at the last rebalancing, which one   *)
(* of these strategies has if any has, so that for it the division is      *)
(* exact.                                                                  *)
CapitalExceeds ==
    \E s \in DOMAIN listed :
       LET common == listed[s].of * WeightUnit
           Part(r) == (listed[r].capital * common) \div listed[r].of
       IN  SumFunction([r \in DOMAIN listed |-> Part(r)]) > common

(* Weights and capital: unless a strategy was registered since they were   *)
(* normalized, the weights sum to one; unless one was removed since the    *)
(* last rebalancing, everybody's capital is its weight; and more capital   *)
(* than there is was given away only if a strategy was registered since.   *)
(* After a rebalancing the limits do not hold of the weights: what holds   *)
(* of n strategies is max / (max + (n - 1) min) from above and min / (min  *)
(* + (n - 1) max) from below (strategies/multi_strategy/orchestrator.py).  *)
WeightsHold ==
    LET n == Cardinality(DOMAIN listed) IN
    /\ ~grown /\ n > 0 => SumFunction(Shares(listed)) = shareUnit
    /\ "removed" \notin since =>
          \A s \in DOMAIN listed : listed[s].capital * shareUnit = listed[s].share * listed[s].of
    /\ CapitalExceeds => "registered" \in since
    /\ since = {} =>
          \A s \in DOMAIN listed :
             /\ listed[s].share * (MaxShare + (n - 1) * MinShare) <= MaxShare * shareUnit
             /\ listed[s].share * (MinShare + (n - 1) * MaxShare) >= MinShare * shareUnit

(* Conflicting signals: swapping buy and sell swaps the outcome; signals   *)
(* that agree, one of them by a listed strategy with a fiftieth of the     *)
(* weight, are never cancelled; the order is never larger than the whole   *)
(* capital of the strategy it is sized by, also while the weights sum to   *)
(* more than one; and its size is zero exactly if this strategy, the most  *)
(* confident of the winning side, is no longer listed, whatever the listed *)
(* ones say (compute_signal).                                              *)
Swapped(signals) ==
    [s \in DOMAIN signals |->
       [signals[s] EXCEPT !.side = CASE @ = "buy" -> "sell" [] @ = "sell" -> "buy" [] OTHER -> @]]

SignalsResolved ==
    \A signals \in [Sids -> Voices] :
       LET side == Side(signals) IN
       /\ side = "buy" <=> Side(Swapped(signals)) = "sell"
       /\ \A s \in DOMAIN listed :
             /\ signals[s].side # "none" /\ 50 * listed[s].share >= shareUnit
             /\ \A r \in Sids : signals[r].side \in {"none", signals[s].side}
             => side = signals[s].side
       /\ side # "none" =>
             /\ MostConfident(signals) # {}
             /\ \A best \in MostConfident(signals) :
                   IF best \in DOMAIN listed
                   THEN OrderSize(signals, best) \in 1..(listed[best].capital * 2 * shareUnit)
                   ELSE OrderSize(signals, best) = 0

(* The factory: every instance created is there, was removed or was        *)
(* overwritten; one that got its identifier from the number of instances   *)
(* overwrites another only after a removal; and only an instance that was  *)
(* paused before is ever reported as running                               *)
(* (evolution/strategy_factory.py).                                        *)
InstancesAccounted ==
    /\ created = Cardinality(DOMAIN instances) + removed + Cardinality(lost)
    /\ removed = 0 => \A l \in lost : l.named
    /\ \A i \in DOMAIN instances : instances[i].status = "running" => instances[i].serial \in paused
=============================================================================
