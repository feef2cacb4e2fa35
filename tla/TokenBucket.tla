----------------------------- MODULE TokenBucket -----------------------------
(***************************************************************************)
(* The rate limiter every request of a connector passes                    *)
(* (exchanges/base_connector.py): a bucket of tokens refilled by the time  *)
(* that has passed. A request takes its weight or sleeps for the time the  *)
(* missing tokens take to come, and tries again. Nothing in acquire        *)
(* suspends while it holds the lock, so a try is one step.                 *)
(*                                                                         *)
(* Time is counted in ticks of Rate tokens each; a sleep ends at the first *)
(* tick at which it may, or later.                                         *)
(***************************************************************************)
EXTENDS Integers

CONSTANTS
    Requests,   \* the tasks that make requests
    Weights,    \* the weights of the requests
    MaxTokens,  \* max_tokens
    Rate,       \* refill_rate, per tick
    MaxClock    \* bound on the time

ASSUME TokenBucketAssumption ==
    /\ Weights \subseteq Nat
    /\ MaxTokens \in Nat /\ Rate \in Nat \ {0} /\ MaxClock \in Nat

VARIABLES
    clock,       \* the time
    tokens,      \* tokens
    lastRefill,  \* _last_refill
    asker,       \* asker[r]: the call of acquire of task r
    window       \* history: a window of time and what was granted in it

bucketVars == <<clock, tokens, lastRefill, asker, window>>

\* want is 0 when no call is under way; overtaken when another call was granted
\* tokens since this one went to sleep
Asker(want, wakeAt, overtaken) == [want |-> want, wakeAt |-> wakeAt, overtaken |-> overtaken]
NotAsking == Asker(0, 0, FALSE)

BucketTypeOK ==
    /\ clock \in 0..MaxClock
    /\ tokens \in 0..MaxTokens
    /\ lastRefill \in 0..clock
    /\ asker \in [Requests -> [want : Weights \cup {0}, wakeAt : Nat, overtaken : BOOLEAN]]
    /\ window \in [from : 0..clock, granted : Nat]

BucketInit ==
    /\ clock = 0
    /\ tokens = MaxTokens /\ lastRefill = 0
    /\ asker = [r \in Requests |-> NotAsking]
    /\ window = [from |-> 0, granted |-> 0]

-----------------------------------------------------------------------------

Tick ==
    /\ clock < MaxClock
    /\ clock' = clock + 1
    /\ UNCHANGED <<tokens, lastRefill, asker, window>>

\* A window may begin at any time.
OpenWindow ==
    /\ window' = [from |-> clock, granted |-> 0]
    /\ UNCHANGED <<clock, tokens, lastRefill, asker>>

\* _refill
Filled(n) == IF n < MaxTokens THEN n ELSE MaxTokens
Refilled == Filled(tokens + (clock - lastRefill) * Rate)

\* n is the number of ticks in which the tokens lacking will have come
TicksFor(lacking, n) == (n - 1) * Rate < lacking /\ lacking <= n * Rate

Granted(r, w) ==
    /\ w <= Refilled
    /\ tokens' = Refilled - w
    /\ asker' = [q \in Requests |->
                   IF q = r THEN NotAsking
                   ELSE [asker[q] EXCEPT !.overtaken = asker[q].want > 0 /\ (@ \/ w > 0)]]
    /\ window' = [window EXCEPT !.granted = @ + w]

Denied(r, w) ==
    /\ w > Refilled
    /\ tokens' = Refilled
    /\ \E n \in 1..w :
          /\ TicksFor(w - Refilled, n)
          /\ asker' = [asker EXCEPT ![r] = Asker(w, clock + n, FALSE)]
    /\ UNCHANGED window

\* mutant: the time of the refill is not written
TriesStale(r, w) ==
    /\ \/ asker[r].want = 0 /\ w \in Weights
       \/ asker[r].want = w /\ w > 0 /\ asker[r].wakeAt <= clock
    /\ Granted(r, w) \/ Denied(r, w)
    /\ UNCHANGED <<clock, lastRefill>>

(* A call comes, or one wakes, and finds its tokens or goes to sleep.      *)
Tries(r, w) ==
    /\ \/ asker[r].want = 0 /\ w \in Weights
       \/ asker[r].want = w /\ w > 0 /\ asker[r].wakeAt <= clock
    /\ Granted(r, w) \/ Denied(r, w)
    /\ lastRefill' = clock
    /\ UNCHANGED clock

BucketNext ==
    \/ Tick \/ OpenWindow
    \/ \E r \in Requests, w \in Weights : Tries(r, w)

BucketSpec == BucketInit /\ [][BucketNext]_bucketVars

-----------------------------------------------------------------------------
(* Properties                                                              *)

(* In any window of time at most one full bucket is granted beyond what    *)
(* the window itself refills (with the limit of an exchange as bucket and  *)
(* its period as window, twice that limit); and a call that wakes finds    *)
(* its tokens, unless others were granted some while it slept or it wants  *)
(* more than a full bucket: then it sleeps again, however often.           *)
BucketHolds ==
    /\ window.granted <= MaxTokens + (clock - window.from) * Rate
    /\ \A r \in Requests :
          asker[r].want \in 1..MaxTokens /\ ~asker[r].overtaken /\ asker[r].wakeAt <= clock =>
             asker[r].want <= Refilled
=============================================================================
