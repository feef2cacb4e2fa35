---------------------------- MODULE HealthMonitor ----------------------------
(***************************************************************************)
(* The health checker of infrastructure/health.py: components register a   *)
(* check, background loops and other threads run the checks outside the    *)
(* lock, and readiness is read off the stored results.                     *)
(*                                                                         *)
(* A check takes time: components may be registered, removed or checked by *)
(* somebody else while it runs. What a check answers is any status.        *)
(* Stopping waits at most five seconds for a loop that sleeps thirty, so   *)
(* it waits for nothing. Left out: messages, latencies, the HTTP server,   *)
(* and what a recovery action does to the component it is for.             *)
(***************************************************************************)
EXTENDS Integers, FiniteSets

CONSTANTS
    Components,  \* the names of components
    Checkers,    \* the threads that run checks
    Answers,     \* the statuses the checks answer
    NoComponent  \* a thread that is checking nothing

HealthStatus == {"healthy", "degraded", "unhealthy"}

ASSUME HealthAssumption == NoComponent \notin Components /\ Answers \subseteq HealthStatus

VARIABLES
    watched,     \* the keys of _checks
    results,     \* results[c]: _results[c].status, or "absent"
    looping,     \* _running
    checker,     \* checker[t]: what thread t is doing
    truth,       \* history: truth[c]: what the check of c that ended last said
    disturbed    \* history: components whose check overlapped another check, a
                 \* registration or a removal, since they were last checked alone

healthVars == <<watched, results, looping, checker, truth, disturbed>>

CheckStages == {"idle", "top", "between", "checking", "storing", "recovering", "sleeping"}

\* A checker of stage `at`: whether it is a background loop, the names still to
\* check, the one under way and its answer
Checker(at, loop, todo, on, answer) ==
    [at |-> at, loop |-> loop, todo |-> todo, on |-> on, got |-> answer]
Resting == Checker("idle", FALSE, {}, NoComponent, "healthy")

HealthTypeOK ==
    /\ watched \subseteq Components /\ disturbed \subseteq Components
    /\ results \in [Components -> HealthStatus \cup {"absent"}]
    /\ truth \in [Components -> HealthStatus \cup {"absent"}]
    /\ looping \in BOOLEAN
    /\ checker \in [Checkers -> [at : CheckStages, loop : BOOLEAN, todo : SUBSET Components,
                                 on : Components \cup {NoComponent}, got : HealthStatus]]

HealthInit ==
    /\ watched = {} /\ disturbed = {}
    /\ results = [c \in Components |-> "absent"] /\ truth = results
    /\ looping = FALSE
    /\ checker = [t \in Checkers |-> Resting]

\* A check of c is under way, by a thread other than those of T
Held(c, T) == \E t \in Checkers \ T : checker[t].at \in {"checking", "storing"} /\ checker[t].on = c

Disturbs(c, T) ==
    disturbed' = IF Held(c, T) THEN disturbed \cup {c} ELSE disturbed \ {c}

-----------------------------------------------------------------------------
(* Registration                                                            *)

(* register_check: a component not yet checked counts as healthy.          *)
RegisterCheck(c) ==
    /\ watched' = watched \cup {c}
    /\ results' = [results EXCEPT ![c] = "healthy"]
    /\ truth' = [truth EXCEPT ![c] = "healthy"]
    /\ Disturbs(c, {})
    /\ UNCHANGED <<looping, checker>>

\* mutant: the result of a removed component stays
RemoveCheckOnly(c) ==
    /\ watched' = watched \ {c}
    /\ truth' = [truth EXCEPT ![c] = "absent"]
    /\ Disturbs(c, {})
    /\ UNCHANGED <<looping, checker, results>>

(* remove_check                                                            *)
RemoveCheck(c) ==
    /\ watched' = watched \ {c}
    /\ results' = [results EXCEPT ![c] = "absent"]
    /\ truth' = [truth EXCEPT ![c] = "absent"]
    /\ Disturbs(c, {})
    /\ UNCHANGED <<looping, checker>>

-----------------------------------------------------------------------------
(* One check                                                               *)

(* check_component: the check is looked up without the lock and run.       *)
BeginCheck(t, c, state) ==
    /\ checker' = [checker EXCEPT ![t] = [state EXCEPT !.at = "checking", !.on = c]]
    /\ Disturbs(c, {t})
    /\ UNCHANGED <<watched, results, looping, truth>>

(* A caller of its own, for one component.                                 *)
CheckComponent(t, c) ==
    /\ checker[t].at = "idle" /\ c \in watched
    /\ BeginCheck(t, c, Checker("idle", FALSE, {}, NoComponent, "healthy"))

(* check_all takes the next name; one that was removed is passed over.     *)
CheckNext(t, c) ==
    /\ checker[t].at = "between" /\ c \in checker[t].todo
    /\ LET rest == [checker[t] EXCEPT !.todo = @ \ {c}] IN
       \/ c \in watched /\ BeginCheck(t, c, rest)
       \/ /\ c \notin watched
          /\ checker' = [checker EXCEPT ![t] = rest]
          /\ UNCHANGED <<watched, results, looping, truth, disturbed>>

(* The check answers, or raises, which counts as unhealthy.                *)
EndCheck(t, status) ==
    /\ checker[t].at = "checking"
    /\ checker' = [checker EXCEPT ![t] = [@ EXCEPT !.at = "storing", !.got = status]]
    /\ truth' = [truth EXCEPT ![checker[t].on] =
                    IF checker[t].on \in watched THEN status ELSE @]
    /\ UNCHANGED <<watched, results, looping, disturbed>>

(* The result is stored under the lock, whatever has become of the         *)
(* component; an unhealthy one is followed by its recovery action.         *)
StoreResult(t) ==
    /\ checker[t].at = "storing"
    /\ results' = [results EXCEPT ![checker[t].on] = checker[t].got]
    /\ LET next == IF checker[t].got = "unhealthy" THEN "recovering" ELSE "between" IN
       checker' = [checker EXCEPT ![t].at = next, ![t].on = NoComponent, ![t].got = "healthy"]
    /\ UNCHANGED <<watched, looping, truth, disturbed>>

(* _try_recovery: the action returns or raises; either way the check ends. *)
EndRecovery(t) ==
    /\ checker[t].at = "recovering"
    /\ checker' = [checker EXCEPT ![t].at = "between"]
    /\ UNCHANGED <<watched, results, looping, truth, disturbed>>

(* No name is left: a caller returns, a loop sleeps.                       *)
EndRound(t) ==
    /\ checker[t].at = "between" /\ checker[t].todo = {}
    /\ checker' = [checker EXCEPT ![t] =
                      IF @.loop THEN [Resting EXCEPT !.at = "sleeping", !.loop = TRUE] ELSE Resting]
    /\ UNCHANGED <<watched, results, looping, truth, disturbed>>

-----------------------------------------------------------------------------
(* The background loop                                                     *)

(* start_background_checks does not ask whether a loop is running.         *)
StartBackground(t) ==
    /\ checker[t].at = "idle"
    /\ looping' = TRUE
    /\ checker' = [checker EXCEPT ![t] = [Resting EXCEPT !.at = "top", !.loop = TRUE]]
    /\ UNCHANGED <<watched, results, truth, disturbed>>

StopBackground ==
    /\ looping' = FALSE
    /\ UNCHANGED <<watched, results, checker, truth, disturbed>>

(* The head of the loop: check_all takes the names under the lock, or the  *)
(* thread ends.                                                            *)
RoundTop(t) ==
    /\ checker[t].at \in {"top", "sleeping"}
    /\ checker' = [checker EXCEPT ![t] =
                      IF looping THEN [@ EXCEPT !.at = "between", !.todo = watched] ELSE Resting]
    /\ UNCHANGED <<watched, results, looping, truth, disturbed>>

HealthNext ==
    \/ StopBackground
    \/ \E c \in Components : RegisterCheck(c) \/ RemoveCheck(c)
    \/ \E t \in Checkers :
          \/ StoreResult(t) \/ EndRecovery(t) \/ EndRound(t) \/ StartBackground(t) \/ RoundTop(t)
          \/ \E c \in Components : CheckComponent(t, c) \/ CheckNext(t, c)
          \/ \E s \in Answers : EndCheck(t, s)

HealthSpec == HealthInit /\ [][HealthNext]_healthVars

-----------------------------------------------------------------------------
(* Properties                                                              *)

(* get_status and is_ready: the probe fails while a result is unhealthy.   *)
Ready == \A c \in Components : results[c] # "unhealthy"

(* The stored result of a component whose checks ran one at a time is the  *)
(* answer of the last of them, and gone if the component is: a result is   *)
(* out of date, or of a component that no longer exists, only when its     *)
(* check overlapped another, a registration or a removal. Nothing then     *)
(* takes a removed component's result away, and an unhealthy one fails the *)
(* readiness probe from then on; without such an overlap the probe fails   *)
(* only for a component whose last check did.                              *)
HealthHonest ==
    /\ \A c \in Components : c \notin disturbed /\ ~Held(c, {}) => results[c] = truth[c]
    /\ \A c \in watched : results[c] # "absent"
    /\ disturbed = {} /\ (\A c \in Components : ~Held(c, {})) =>
          (Ready <=> \A c \in watched : truth[c] # "unhealthy")
=============================================================================
