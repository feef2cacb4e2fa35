-------------------------- MODULE GracefulShutdown --------------------------
(***************************************************************************)
(* The phased shutdown of infrastructure/graceful_shutdown.py: a signal    *)
(* starts a daemon thread that runs it, and the end of the main thread     *)
(* runs it from atexit unless it has begun. The first caller that takes    *)
(* the lock runs every phase: cancel the open orders, reconcile the        *)
(* positions, persist what is still open, run the cleanup callbacks.       *)
(*                                                                         *)
(* Orders and positions are external: the rest of the program, and the     *)
(* exchange, go on opening and closing them. Time is one fact: whether the *)
(* deadline has passed. A callback that does not end in its own time is    *)
(* left to run on in its thread. What is to be asked and what is to be     *)
(* called is registered before the shutdown begins.                        *)
(***************************************************************************)
EXTENDS Integers, Sequences, FiniteSets

CONSTANTS
    SdItems,       \* names for orders and for positions
    Registrations, \* what may be registered for orders and for positions
    CbPhases,      \* the phases callbacks are registered for, in rank order
    MaxCallbacks,  \* bound on the callbacks registered
    MaxSignals     \* bound on the signals received

Kinds == {"orders", "positions"}

\* not registered; says what is open; can cancel or close it, too
Providers == {"none", "asking", "acting"}

ASSUME ShutdownAssumption ==
    /\ IsFiniteSet(SdItems) /\ "nothing" \notin SdItems
    /\ Registrations \subseteq [Kinds -> Providers]
    /\ CbPhases \in Seq({"orders", "positions", "persist", "cleanup"})
    /\ MaxCallbacks \in Nat
    /\ MaxSignals \in Nat

Phases == {"idle", "orders", "positions", "persist", "cleanup", "complete"}

VARIABLES
    sdPhase,    \* the phase of the shutdown under way
    runner,     \* the thread that runs it: "none", "daemon" or "main"
    claims,     \* history: callers that went past the check of _shutting_down
    threads,    \* signal threads that have not yet called shutdown
    signals,    \* signals received so far
    exited,     \* the process has ended
    late,       \* the deadline has passed
    ok,         \* success
    existing,   \* external: existing[k]: the orders and positions open now
    provider,   \* provider[k]: whether there is one, and what it can do
    listed,     \* listed[k]: those the phase found, once it has asked
    passed,     \* passed[k]: those its loop is past
    tried,      \* history: tried[k]: those it has called to cancel or close
    asked,      \* the kinds whose provider has been asked
    saved,      \* what the state file says is open, or NotSaved
    callbacks,  \* _callbacks: their phases, in the order they are kept
    cbNext,     \* the callback the cleanup phase looks at next
    cbRuns,     \* callbacks under way: the one waited for, and those left behind
    cbStarted   \* history: cbStarted[i]: how often callback i was started

sdVars == <<sdPhase, runner, claims, threads, signals, exited, late, ok, existing, provider,
            listed, passed, tried, asked, saved, callbacks, cbNext, cbRuns, cbStarted>>

\* what the phases change; what is registered, and the callbacks' state
workVars == <<existing, listed, passed, tried, asked, saved>>
cbVars == <<provider, callbacks, cbNext, cbRuns, cbStarted>>
threadVars == <<claims, threads, signals, exited>>

NotSaved == [k \in Kinds |-> {"nothing"}]

SdTypeOK ==
    /\ sdPhase \in Phases
    /\ runner \in {"none", "daemon", "main"}
    /\ claims \in Nat
    /\ threads \in 0..MaxSignals
    /\ signals \in 0..MaxSignals
    /\ exited \in BOOLEAN /\ late \in BOOLEAN /\ ok \in BOOLEAN
    /\ existing \in [Kinds -> SUBSET SdItems]
    /\ listed \in [Kinds -> SUBSET SdItems]
    /\ provider \in [Kinds -> Providers]
    /\ passed \in [Kinds -> SUBSET SdItems]
    /\ tried \in [Kinds -> SUBSET SdItems]
    /\ asked \in SUBSET Kinds
    /\ saved = NotSaved \/ saved \in [Kinds -> SUBSET SdItems]
    /\ callbacks \in Seq(1..Len(CbPhases))
    /\ cbNext \in 1..(MaxCallbacks + 1)
    /\ cbRuns \in 0..MaxCallbacks
    /\ cbStarted \in [1..MaxCallbacks -> Nat]

SdInit ==
    /\ sdPhase = "idle" /\ runner = "none"
    /\ claims = 0 /\ threads = 0 /\ signals = 0
    /\ exited = FALSE /\ late = FALSE /\ ok = TRUE
    /\ existing = [k \in Kinds |-> SdItems]
    /\ listed = [k \in Kinds |-> {}]
    /\ provider = [k \in Kinds |-> "none"]
    /\ passed = [k \in Kinds |-> {}]
    /\ tried = [k \in Kinds |-> {}]
    /\ asked = {}
    /\ saved = NotSaved
    /\ callbacks = <<>>
    /\ cbNext = 1 /\ cbRuns = 0
    /\ cbStarted = [i \in 1..MaxCallbacks |-> 0]

-----------------------------------------------------------------------------
(* Before and around the shutdown                                          *)

(* register_order_tracker, register_position_reconciler: cancel_order and  *)
(* close_position are None unless they are given.                          *)
RegisterProvider(k, p) ==
    /\ sdPhase = "idle" /\ ~exited
    /\ p # "none"
    /\ provider' = [provider EXCEPT ![k] = p]
    /\ provider' \in Registrations
    /\ UNCHANGED <<sdPhase, runner, threadVars, late, ok, workVars,
                   callbacks, cbNext, cbRuns, cbStarted>>

(* register_cleanup: the list is kept sorted by phase, and stable.         *)
RegisterCleanup(rank) ==
    /\ sdPhase = "idle" /\ ~exited
    /\ Len(callbacks) < MaxCallbacks
    /\ LET before == {i \in 1..Len(callbacks) : callbacks[i] <= rank}
           n == Cardinality(before)
       IN  callbacks' = SubSeq(callbacks, 1, n) \o <<rank>>
                          \o SubSeq(callbacks, n + 1, Len(callbacks))
    /\ UNCHANGED <<sdPhase, runner, threadVars, late, ok, workVars, provider,
                   cbNext, cbRuns, cbStarted>>

(* _signal_handler: every signal starts a thread. Only a sequence that ran *)
(* in the main thread gives the signals back; a daemon thread may not.     *)
Signal ==
    /\ ~exited /\ signals < MaxSignals
    /\ ~(runner = "main" /\ sdPhase = "complete")
    /\ signals' = signals + 1
    /\ threads' = threads + 1
    /\ UNCHANGED <<sdPhase, runner, claims, exited, late, ok, workVars, cbVars>>

\* mutant: whoever calls runs the sequence, from its beginning
ClaimAnyway(who) ==
    /\ claims' = claims + 1
    /\ sdPhase' = "orders"
    /\ runner' = who

(* shutdown, under its lock: the first caller runs the sequence, any other *)
(* returns.                                                                *)
Claim(who) ==
    IF sdPhase = "idle"
    THEN /\ claims' = claims + 1
         /\ sdPhase' = "orders"
         /\ runner' = who
    ELSE UNCHANGED <<claims, sdPhase, runner>>

ThreadCalls ==
    /\ ~exited /\ threads > 0
    /\ threads' = threads - 1
    /\ Claim("daemon")
    /\ UNCHANGED <<signals, exited, late, ok, workVars, cbVars>>

(* The main thread ends. The atexit handler runs the sequence in it if     *)
(* nobody has begun; else the process ends now, and the daemon thread that *)
(* may be in the middle of it ends with it.                                *)
MainEnds ==
    /\ ~exited /\ runner # "main"
    /\ IF sdPhase = "idle"
       THEN Claim("main") /\ UNCHANGED exited
       ELSE exited' = TRUE /\ UNCHANGED <<claims, sdPhase, runner>>
    /\ UNCHANGED <<threads, signals, late, ok, workVars, cbVars>>

(* The sequence run from atexit is over: the process ends.                 *)
MainExits ==
    /\ ~exited /\ runner = "main" /\ sdPhase = "complete"
    /\ exited' = TRUE
    /\ UNCHANGED <<sdPhase, runner, claims, threads, signals, late, ok, workVars, cbVars>>

(* external: orders are placed and filled, positions opened and closed.    *)
Trading(k, i) ==
    /\ ~exited
    /\ existing' = [existing EXCEPT ![k] = IF i \in @ THEN @ \ {i} ELSE @ \cup {i}]
    /\ UNCHANGED <<sdPhase, runner, threadVars, late, ok, listed, passed, tried, asked, saved, cbVars>>

DeadlinePasses ==
    /\ ~exited /\ ~late
    /\ sdPhase \notin {"idle", "complete"}
    /\ late' = TRUE
    /\ UNCHANGED <<sdPhase, runner, threadVars, ok, workVars, cbVars>>

-----------------------------------------------------------------------------
(* Cancelling orders and reconciling positions                             *)

Running(k) == ~exited /\ sdPhase = k

After(k) == IF k = "orders" THEN "positions" ELSE "persist"

Fails == ok' = FALSE

(* The provider is asked for what is open; when it raises the phase fails. *)
Ask(k) ==
    /\ Running(k) /\ k \notin asked
    /\ provider[k] # "none"
    /\ asked' = asked \cup {k}
    /\ \/ /\ listed' = [listed EXCEPT ![k] = existing[k]]
          /\ UNCHANGED <<sdPhase, ok>>
       \/ /\ Fails
          /\ sdPhase' = After(k)
          /\ UNCHANGED listed
    /\ UNCHANGED <<runner, threadVars, late, existing, passed, tried, saved, cbVars>>

(* One of the orders or positions listed. With a call for it: it is gone,  *)
(* or the call answers FALSE or raises; without one nothing is tried. The  *)
(* phase counts, and goes on.                                              *)
TryItem(k, i) ==
    /\ Running(k) /\ ~late
    /\ i \in listed[k] \ passed[k]
    /\ passed' = [passed EXCEPT ![k] = @ \cup {i}]
    /\ IF provider[k] = "acting"
       THEN /\ tried' = [tried EXCEPT ![k] = @ \cup {i}]
            /\ existing' \in {existing, [existing EXCEPT ![k] = @ \ {i}]}
       ELSE UNCHANGED <<tried, existing>>
    /\ UNCHANGED <<sdPhase, runner, threadVars, late, ok, listed, asked, saved, cbVars>>

(* Past the deadline with something left to look at: the phase fails.      *)
PhaseTimesOut(k) ==
    /\ Running(k) /\ late
    /\ listed[k] \ passed[k] # {}
    /\ Fails
    /\ sdPhase' = After(k)
    /\ UNCHANGED <<runner, threadVars, late, workVars, cbVars>>

\* mutant: the phase waits until nothing is open any more
PhaseEndsWhenGone(k) ==
    /\ Running(k)
    /\ \/ provider[k] = "none"
       \/ k \in asked /\ existing[k] = {}
    /\ sdPhase' = After(k)
    /\ UNCHANGED <<runner, threadVars, late, ok, workVars, cbVars>>

(* Nobody is there to be asked, or every one of those found was looked at: *)
(* the phase is over, with success, whatever is open.                      *)
PhaseEnds(k) ==
    /\ Running(k)
    /\ \/ provider[k] = "none"
       \/ k \in asked /\ listed[k] \subseteq passed[k]
    /\ sdPhase' = After(k)
    /\ UNCHANGED <<runner, threadVars, late, ok, workVars, cbVars>>

-----------------------------------------------------------------------------
(* Persisting the state                                                    *)

(* What is open by now is asked for again (an answer that raises counts as *)
(* empty, and so does nobody to ask) and written; the deadline is not      *)
(* looked at.                                                              *)
Persist ==
    /\ Running("persist")
    /\ sdPhase' = "cleanup"
    /\ \/ /\ \E failed \in SUBSET Kinds :
                saved' = [k \in Kinds |-> IF k \in failed \/ provider[k] = "none"
                                          THEN {} ELSE existing[k]]
          /\ UNCHANGED ok
       \/ Fails /\ UNCHANGED saved
    /\ UNCHANGED <<runner, threadVars, late, existing, listed, passed, tried, asked, cbVars>>

-----------------------------------------------------------------------------
(* The cleanup callbacks                                                   *)

AtCallback == Running("cleanup") /\ cbNext <= Len(callbacks)
ForCleanup(i) == CbPhases[callbacks[i]] = "cleanup"

(* A callback of another phase is passed over, in this phase and for good. *)
SkipCallback ==
    /\ AtCallback /\ ~ForCleanup(cbNext)
    /\ cbNext' = cbNext + 1
    /\ UNCHANGED <<sdPhase, runner, threadVars, late, ok, workVars, provider,
                   callbacks, cbRuns, cbStarted>>

(* It is started in a thread, which ends, raises or is left behind when    *)
(* its time is up; neither spoils the result.                              *)
RunCallback ==
    /\ AtCallback /\ ForCleanup(cbNext) /\ ~late
    /\ cbStarted' = [cbStarted EXCEPT ![cbNext] = @ + 1]
    /\ cbRuns' \in {cbRuns, cbRuns + 1}
    /\ cbNext' = cbNext + 1
    /\ UNCHANGED <<sdPhase, runner, threadVars, late, ok, workVars, provider, callbacks>>

CallbackEnds ==
    /\ ~exited /\ cbRuns > 0
    /\ cbRuns' = cbRuns - 1
    /\ UNCHANGED <<sdPhase, runner, threadVars, late, ok, workVars, provider,
                   callbacks, cbNext, cbStarted>>

CallbacksTimeOut ==
    /\ AtCallback /\ ForCleanup(cbNext) /\ late
    /\ Fails
    /\ sdPhase' = "complete"
    /\ UNCHANGED <<runner, threadVars, late, workVars, cbVars>>

Complete ==
    /\ Running("cleanup") /\ cbNext > Len(callbacks)
    /\ sdPhase' = "complete"
    /\ UNCHANGED <<runner, threadVars, late, ok, workVars, cbVars>>

-----------------------------------------------------------------------------
(* A step of the thread that runs the sequence                             *)
SdProceeds ==
    \/ \E k \in Kinds : Ask(k) \/ PhaseTimesOut(k) \/ PhaseEnds(k)
                          \/ \E i \in SdItems : TryItem(k, i)
    \/ Persist
    \/ SkipCallback \/ RunCallback \/ CallbacksTimeOut \/ Complete

SdNext ==
    \/ \E k \in Kinds, p \in Providers : RegisterProvider(k, p)
    \/ \E rank \in 1..Len(CbPhases) : RegisterCleanup(rank)
    \/ Signal \/ ThreadCalls \/ MainEnds \/ MainExits
    \/ \E k \in Kinds, i \in SdItems : Trading(k, i)
    \/ DeadlinePasses
    \/ SdProceeds
    \/ CallbackEnds

SdSpec == SdInit /\ [][SdNext]_sdVars

-----------------------------------------------------------------------------
(* Properties                                                              *)

(* However many signals arrive, the sequence runs once and no callback     *)
(* twice. When it ends with success, whoever was registered was asked,     *)
(* whatever was found was tried where there is a call to try it with, a    *)
(* state was written, and every cleanup callback was started. (Without a   *)
(* tracker, a reconciler or its call success says nothing of the orders or *)
(* positions: the phase has succeeded without doing anything.) It is cut   *)
(* short only by the end of the process under the daemon thread.           *)
ShutdownHonest ==
    /\ claims <= 1
    /\ \A i \in 1..MaxCallbacks : cbStarted[i] <= 1
    /\ sdPhase = "complete" /\ ok =>
          /\ \A k \in Kinds :
                /\ provider[k] # "none" => k \in asked
                /\ provider[k] = "acting" => listed[k] \subseteq tried[k]
          /\ saved # NotSaved
          /\ \A i \in 1..Len(callbacks) : ForCleanup(i) => cbStarted[i] = 1
    /\ exited /\ sdPhase # "complete" => runner = "daemon"

(* A shutdown that has begun completes, unless the main thread ends first. *)
ShutdownCompletes == sdPhase = "orders" ~> sdPhase = "complete" \/ exited

-----------------------------------------------------------------------------
(* The inductive invariant                                                 *)

\* phase k found out what is open and tried all of it, as far as it could
Done(k) ==
    /\ provider[k] # "none" => k \in asked
    /\ provider[k] = "acting" => listed[k] \subseteq tried[k]

\* a loop that can try passes nothing it has not tried
PassedInv ==
    \A k \in Kinds : /\ sdPhase = "idle" => passed[k] = {}
                     /\ provider[k] = "acting" => passed[k] \subseteq tried[k]

\* who runs the sequence, and when the process may be gone
RunnerInv ==
    /\ claims = IF sdPhase = "idle" THEN 0 ELSE 1
    /\ runner = "none" <=> sdPhase = "idle"
    /\ exited => sdPhase = "complete" \/ runner = "daemon"
    /\ threads <= signals

\* callbacks are started in their order, none of them twice
CallbackInv ==
    /\ Len(callbacks) <= MaxCallbacks /\ cbNext <= Len(callbacks) + 1
    /\ cbRuns < cbNext
    /\ \A i \in 1..MaxCallbacks : cbStarted[i] <= 1 /\ (i >= cbNext => cbStarted[i] = 0)
    /\ \A i \in 1..Len(callbacks) : i < cbNext /\ ForCleanup(i) => cbStarted[i] = 1
    /\ sdPhase = "idle" => cbNext = 1

\* a success so far means that every phase passed has done its work
ProgressInv ==
    ok => /\ sdPhase \in {"positions", "persist", "cleanup", "complete"} => Done("orders")
          /\ sdPhase \in {"persist", "cleanup", "complete"} => Done("positions")
          /\ sdPhase \in {"cleanup", "complete"} => saved # NotSaved
          /\ sdPhase = "complete" => cbNext > Len(callbacks)

SdIInv == SdTypeOK /\ RunnerInv /\ CallbackInv /\ PassedInv /\ ProgressInv

=============================================================================
