--------------------------- MODULE CircuitBreaker ---------------------------
(***************************************************************************)
(* One circuit breaker (infrastructure/circuit_breaker.py) shared by       *)
(* several threads. A call is admitted under the lock, runs outside it,    *)
(* and records its result under the lock again: a result may be recorded   *)
(* in another state, or another half-open period, than the one the call    *)
(* was admitted in.                                                        *)
(*                                                                         *)
(* Time is one fact: whether recovery_timeout has elapsed since the        *)
(* breaker opened. The rolling window of failure times is only reported,   *)
(* never decided upon, and is left out with the statistics.                *)
(***************************************************************************)
EXTENDS Integers, FiniteSets

CONSTANTS
    Threads,             \* the threads that call
    FailureThreshold,    \* config.failure_threshold
    HalfOpenMaxCalls,    \* config.half_open_max_calls
    SuccessThreshold,    \* config.success_threshold
    MaxManual            \* bound on the calls of trip and reset

ASSUME BreakerAssumption ==
    /\ IsFiniteSet(Threads)
    /\ FailureThreshold \in Nat \ {0}
    /\ HalfOpenMaxCalls \in Nat \ {0}
    /\ SuccessThreshold \in Nat \ {0}
    /\ MaxManual \in Nat

VARIABLES
    state,       \* _state
    elapsed,     \* recovery_timeout has passed since _opened_at
    failures,    \* _consecutive_failures, counted up to FailureThreshold
    successes,   \* _success_count
    probes,      \* _half_open_calls
    running,     \* the threads whose call runs
    probing,     \* those of them admitted in the current half-open period
    wasted,      \* history: probes of this period that ended in an excluded exception
    manual       \* calls of trip and reset so far

vars == <<state, elapsed, failures, successes, probes, running, probing, wasted, manual>>

TypeOK ==
    /\ state \in {"CLOSED", "OPEN", "HALF_OPEN"}
    /\ elapsed \in BOOLEAN
    /\ failures \in 0..FailureThreshold
    /\ successes \in 0..SuccessThreshold
    /\ probes \in 0..HalfOpenMaxCalls
    /\ running \subseteq Threads
    /\ probing \subseteq running
    /\ wasted \in 0..HalfOpenMaxCalls
    /\ manual \in 0..MaxManual

Init ==
    /\ state = "CLOSED"
    /\ elapsed = FALSE
    /\ failures = 0 /\ successes = 0 /\ probes = 0
    /\ running = {} /\ probing = {}
    /\ wasted = 0
    /\ manual = 0

-----------------------------------------------------------------------------
(* State transitions                                                       *)

(* _transition(CLOSED).                                                    *)
ToClosed ==
    /\ state' = "CLOSED"
    /\ failures' = 0 /\ successes' = 0
    /\ probing' = {} /\ wasted' = 0
    /\ UNCHANGED <<elapsed, probes>>

(* _opened_at = now and _transition(OPEN).                                 *)
ToOpen ==
    /\ state' = "OPEN"
    /\ elapsed' = FALSE
    /\ probing' = {} /\ wasted' = 0
    /\ UNCHANGED <<successes, probes>>

Elapse ==
    /\ state = "OPEN" /\ ~elapsed
    /\ elapsed' = TRUE
    /\ UNCHANGED <<state, failures, successes, probes, running, probing, wasted, manual>>

-----------------------------------------------------------------------------
(* call and guard                                                          *)

\* _maybe_transition finds that the breaker is due for half-open
Due == state = "OPEN" /\ elapsed

(* A call on a closed breaker runs.                                        *)
AdmitClosed(t) ==
    /\ t \notin running
    /\ state = "CLOSED"
    /\ running' = running \cup {t}
    /\ UNCHANGED <<state, elapsed, failures, successes, probes, probing, wasted, manual>>

\* mutant: the counters of the last half-open period are kept
AdmitFirstKeeps(t) ==
    /\ t \notin running
    /\ Due
    /\ state' = "HALF_OPEN"
    /\ probes' = IF probes < HalfOpenMaxCalls THEN probes + 1 ELSE probes
    /\ running' = running \cup {t}
    /\ probing' = {t}
    /\ wasted' = 0
    /\ UNCHANGED <<elapsed, failures, successes, manual>>

(* A call that finds the recovery timeout elapsed makes the breaker        *)
(* half-open and is its first probe.                                       *)
AdmitFirst(t) ==
    /\ t \notin running
    /\ Due
    /\ state' = "HALF_OPEN"
    /\ probes' = 1 /\ successes' = 0
    /\ running' = running \cup {t}
    /\ probing' = {t}
    /\ wasted' = 0
    /\ UNCHANGED <<elapsed, failures, manual>>

(* Reading the state property makes the transition, without a probe.       *)
ReadState ==
    /\ Due
    /\ state' = "HALF_OPEN"
    /\ probes' = 0 /\ successes' = 0
    /\ probing' = {} /\ wasted' = 0
    /\ UNCHANGED <<elapsed, failures, running, manual>>

(* A call on a half-open breaker runs as a probe while probes are left. A  *)
(* call on an open one, or when none is left, is rejected and changes      *)
(* nothing.                                                                *)
AdmitProbe(t) ==
    /\ t \notin running
    /\ state = "HALF_OPEN"
    /\ probes < HalfOpenMaxCalls
    /\ probes' = probes + 1
    /\ running' = running \cup {t}
    /\ probing' = probing \cup {t}
    /\ UNCHANGED <<state, elapsed, failures, successes, wasted, manual>>

-----------------------------------------------------------------------------
(* The results                                                             *)

\* mutant: a success in half-open is not counted
SucceedUncounted(t) ==
    /\ t \in running
    /\ running' = running \ {t}
    /\ probing' = probing \ {t}
    /\ failures' = 0
    /\ UNCHANGED <<state, elapsed, successes, probes, wasted, manual>>

(* _record_success: resets the failures; in half-open it counts, whichever *)
(* state the call was admitted in, and may close the breaker.              *)
Succeed(t) ==
    /\ t \in running
    /\ running' = running \ {t}
    /\ IF state # "HALF_OPEN"
       THEN /\ failures' = 0
            /\ probing' = probing \ {t}
            /\ UNCHANGED <<state, elapsed, successes, probes, wasted>>
       ELSE IF successes + 1 >= SuccessThreshold
       THEN ToClosed
       ELSE /\ failures' = 0
            /\ successes' = successes + 1
            /\ probing' = probing \ {t}
            /\ UNCHANGED <<state, elapsed, probes, wasted>>
    /\ UNCHANGED manual

(* _record_failure: opens a half-open breaker, and a closed one when the   *)
(* threshold is reached; in an open one it only counts.                    *)
Fail(t) ==
    /\ t \in running
    /\ running' = running \ {t}
    /\ failures' = IF failures < FailureThreshold THEN failures + 1 ELSE failures
    /\ IF state = "HALF_OPEN" \/ (state = "CLOSED" /\ failures' >= FailureThreshold)
       THEN ToOpen
       ELSE /\ probing' = probing \ {t}
            /\ UNCHANGED <<state, elapsed, successes, probes, wasted>>
    /\ UNCHANGED manual

(* The exception is one of exclude_exceptions: nothing is recorded, and a  *)
(* probe is not given back.                                                *)
Exclude(t) ==
    /\ t \in running
    /\ running' = running \ {t}
    /\ probing' = probing \ {t}
    /\ wasted' = IF t \in probing THEN wasted + 1 ELSE wasted
    /\ UNCHANGED <<state, elapsed, failures, successes, probes, manual>>

-----------------------------------------------------------------------------
(* Manual control                                                          *)

Reset ==
    /\ manual < MaxManual
    /\ manual' = manual + 1
    /\ ToClosed
    /\ UNCHANGED running

Trip ==
    /\ manual < MaxManual
    /\ manual' = manual + 1
    /\ ToOpen
    /\ UNCHANGED <<failures, running>>

-----------------------------------------------------------------------------
Admit(t) == AdmitClosed(t) \/ AdmitFirst(t) \/ AdmitProbe(t)
Finish(t) == Succeed(t) \/ Fail(t) \/ Exclude(t)

Next ==
    \/ \E t \in Threads : Admit(t) \/ Finish(t)
    \/ Elapse \/ ReadState \/ Reset \/ Trip

Spec == Init /\ [][Next]_vars

(* Time passes, guarded calls end, and some thread keeps calling.          *)
Fairness ==
    /\ WF_vars(Elapse)
    /\ \A t \in Threads : WF_vars(Finish(t))
    /\ WF_vars(\E t \in Threads : Admit(t))

FairSpec == Spec /\ Fairness

-----------------------------------------------------------------------------
(* Properties                                                              *)

(* A closed breaker has not reached the threshold of consecutive failures, *)
(* though results of calls admitted before it last opened keep coming in.  *)
ClosedBelowThreshold == state = "CLOSED" => failures < FailureThreshold

\* more probes lost to excluded exceptions than the period can spare
ProbesWasted == wasted > HalfOpenMaxCalls - SuccessThreshold

(* A half-open breaker that admits no more probes waits for one that runs: *)
(* it is never stuck, unless excluded exceptions, which use up probes and  *)
(* record nothing, have taken too many.                                    *)
HalfOpenNotStuck ==
    (state = "HALF_OPEN" /\ probes = HalfOpenMaxCalls /\ ~ProbesWasted) => probing # {}

(* So the test of recovery ends, in whichever state it ends.               *)
HalfOpenEnds == state = "HALF_OPEN" ~> (state # "HALF_OPEN" \/ ProbesWasted)

\* the results still missing in a half-open period are under way or lost
ProbeInv ==
    /\ state = "HALF_OPEN" => /\ probes <= successes + Cardinality(probing) + wasted
                              /\ successes < SuccessThreshold
                              /\ wasted + Cardinality(probing) <= probes
    /\ state # "HALF_OPEN" => probing = {} /\ wasted = 0

IInv == TypeOK /\ ClosedBelowThreshold /\ ProbeInv
=============================================================================
