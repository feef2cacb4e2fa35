---------------------------- MODULE RecordsProofs ----------------------------
(***************************************************************************)
(* What the system keeps of credentials, of its doings, of its health, of  *)
(* alerts, of events and of trades: for each of the components the         *)
(* inductive invariant that makes its promise hold for every value of the  *)
(* constants; and, at the end, that a behaviour of the modules composed in *)
(* MCOperations keeps all of these promises.                               *)
(***************************************************************************)
EXTENDS MCOperations, Induction, SequenceTheorems

-----------------------------------------------------------------------------
(* Alerts                                                                  *)

\* what is proved with AlertsFireOnce: an alert not created has no condition yet
AlertIInv ==
    /\ AlertTypeOK /\ AlertsFireOnce
    /\ \A a \in Alerts : alert[a].status = "new" => alert[a].condition = "other"

LEMMA AlertInitHolds == AlertInit => AlertIInv
BY AlertAssumption DEF AlertInit, AlertIInv, AlertTypeOK, AlertsFireOnce, Alert, AlertKinds,
   Conditions, AlertStatus, Never

LEMMA AlertStep == AlertIInv /\ [AlertNext]_alertVars => AlertIInv'
<1> SUFFICES ASSUME AlertIInv, [AlertNext]_alertVars PROVE AlertIInv'
  OBVIOUS
<1>0. AlertTypeOK /\ MaxNow \in Nat /\ Lifetime \in Nat /\ Levels \subseteq Int
  BY AlertAssumption DEF AlertIInv
<1>1. ASSUME NEW a \in Alerts, NEW k \in AlertKinds, NEW c \in Conditions, NEW v \in Levels,
             CreateAlert(a, k, c, v)
      PROVE  AlertIInv'
  <2>1. fired[a] = 0 /\ a \notin owed
    BY <1>1 DEF CreateAlert, AlertIInv, AlertsFireOnce
  <2> DEFINE new == Alert(k, c, v, "active", IF k = "price" THEN now + Lifetime ELSE Never, Never)
  <2>2. /\ new \in [kind : AlertKinds, condition : Conditions, threshold : Levels \cup {0},
                    status : AlertStatus, expiresAt : Nat \cup {Never},
                    lastTriggered : Nat \cup {Never}]
        /\ new.status = "active" /\ new.lastTriggered = Never
    BY <1>0, <1>1 DEF Alert, AlertStatus, AlertTypeOK
  <2>3. alert' = [alert EXCEPT ![a] = new] /\ fired' = fired /\ owed' = owed /\ now' = now
    BY <1>1 DEF CreateAlert
  <2> HIDE DEF new
  <2>4. AlertTypeOK'
    BY <1>0, <2>2, <2>3 DEF AlertTypeOK
  <2> QED BY <1>0, <2>1, <2>2, <2>3, <2>4 DEF AlertIInv, AlertsFireOnce, AlertTypeOK
<1>2. ASSUME NEW a \in Alerts, Acknowledge(a) \/ RemoveAlert(a)
      PROVE  AlertIInv'
  BY <1>2, <1>0 DEF AlertIInv, AlertTypeOK, AlertsFireOnce, Acknowledge, RemoveAlert, AlertStatus
<1>3. CASE AlertTick
  BY <1>0, <1>3 DEF AlertIInv, AlertTypeOK, AlertsFireOnce, AlertTick
<1>4. ASSUME NEW k \in AlertKinds, NEW v \in Levels, Evaluate(k, v)
      PROVE  AlertIInv'
  <2> DEFINE met == {a \in Alerts : Met(a, k, v)}
             fires == {a \in met : ~Cooling(a) /\ ~Expired(a)}
  <2>1. ASSUME NEW a \in Alerts
        PROVE  /\ alert'[a] \in [kind : AlertKinds, condition : Conditions,
                                 threshold : Levels \cup {0}, status : AlertStatus,
                                 expiresAt : Nat \cup {Never}, lastTriggered : Nat \cup {Never}]
               /\ fired'[a] \in Nat
               /\ fired'[a] = IF a \in owed' THEN 1 ELSE 0
               /\ alert'[a].status = "active" => fired'[a] = 0 /\ alert'[a].lastTriggered = Never
               /\ alert'[a].status = "expired" => fired'[a] = 0
               /\ alert'[a].condition = "other" => fired'[a] = 0
               /\ alert'[a].status = "new" => alert'[a].condition = "other"
    <3>0. /\ alert'[a] = IF a \in met THEN Triggered(a) ELSE alert[a]
          /\ fired'[a] = IF a \in fires THEN fired[a] + 1 ELSE fired[a]
          /\ owed' = owed \cup {b \in met : ~Expired(b)}
          /\ now \in Nat
          /\ fired[a] \in Nat
          /\ alert[a] \in [kind : AlertKinds, condition : Conditions, threshold : Levels \cup {0},
                           status : AlertStatus, expiresAt : Nat \cup {Never},
                           lastTriggered : Nat \cup {Never}]
      BY <1>0, <1>4 DEF Evaluate, AlertTypeOK
    <3>1. CASE ~Met(a, k, v)
      <4>1. alert'[a] = alert[a] /\ fired'[a] = fired[a] /\ (a \in owed' <=> a \in owed)
        BY <3>0, <3>1
      <4> QED BY <3>0, <4>1 DEF AlertIInv, AlertsFireOnce
    <3>2. CASE Met(a, k, v)
      <4>1. /\ alert[a].status = "active" /\ fired[a] = 0 /\ a \notin owed
            /\ alert[a].lastTriggered = Never /\ alert[a].condition # "other" /\ ~Cooling(a)
        BY <3>2 DEF Met, AlertIInv, AlertsFireOnce, Cooling
      <4>2. CASE Expired(a)
        <5>1. alert'[a] = [alert[a] EXCEPT !.status = "expired"] /\ fired'[a] = 0 /\ a \notin owed'
          BY <3>0, <3>2, <4>1, <4>2 DEF Triggered
        <5> QED BY <3>0, <4>1, <5>1 DEF AlertStatus
      <4>3. CASE ~Expired(a)
        <5>1. /\ alert'[a] = [alert[a] EXCEPT !.status = "triggered", !.lastTriggered = now]
              /\ fired'[a] = 1 /\ a \in owed'
          BY <3>0, <3>2, <4>1, <4>3 DEF Triggered
        <5>2. alert'[a].status = "triggered" /\ alert'[a].condition # "other"
          BY <3>0, <4>1, <5>1
        <5>3. alert'[a] \in [kind : AlertKinds, condition : Conditions,
                             threshold : Levels \cup {0}, status : AlertStatus,
                             expiresAt : Nat \cup {Never}, lastTriggered : Nat \cup {Never}]
          BY <3>0, <5>1 DEF AlertStatus
        <5> QED BY <5>1, <5>2, <5>3
      <4> QED BY <4>2, <4>3
    <3> QED BY <3>1, <3>2
  <2>2. /\ alert' = [a \in Alerts |-> alert'[a]] /\ fired' = [a \in Alerts |-> fired'[a]]
        /\ owed' \subseteq Alerts /\ now' = now
    BY <1>0, <1>4 DEF Evaluate, AlertTypeOK
  <2>3. AlertTypeOK'
    BY <1>0, <2>1, <2>2 DEF AlertTypeOK
  <2> QED BY <2>1, <2>3 DEF AlertIInv, AlertsFireOnce
<1>5. CASE UNCHANGED alertVars
  BY <1>5 DEF AlertIInv, AlertTypeOK, AlertsFireOnce, alertVars
<1> QED BY <1>1, <1>2, <1>3, <1>4, <1>5 DEF AlertNext

(* AlertsFireOnce: an alert that an evaluation met in its lifetime has     *)
(* fired, once, and no alert fires twice (monitoring/alerts.py).           *)
THEOREM AlertsFireAtMostOnce == AlertSpec => [](AlertTypeOK /\ AlertsFireOnce)
<1>1. AlertIInv => AlertTypeOK /\ AlertsFireOnce
  BY DEF AlertIInv
<1> QED BY <1>1, AlertInitHolds, AlertStep, PTL DEF AlertSpec

-----------------------------------------------------------------------------
(* Health checks                                                           *)

\* thread t has looked up the check of c and not yet stored its result
Holds(t, c) == checker[t].at \in {"checking", "storing"} /\ checker[t].on = c

(* A component whose checks run one at a time has at most one of them, is  *)
(* registered while it runs, and ends with the answer of that one stored.  *)
(* What is not registered has no answer.                                   *)
CheckedAlone(c) ==
    c \notin disturbed =>
        /\ \A t, u \in Checkers : Holds(t, c) /\ Holds(u, c) => t = u
        /\ \A t \in Checkers : Holds(t, c) => c \in watched
        /\ \A t \in Checkers :
              Holds(t, c) /\ checker[t].at = "storing" => truth[c] = checker[t].got
        /\ (\A t \in Checkers : ~Holds(t, c)) => results[c] = truth[c]

HealthIInv ==
    /\ HealthTypeOK
    /\ \A c \in Components : CheckedAlone(c)
    /\ \A c \in watched : results[c] # "absent"
    /\ \A c \in Components \ watched : truth[c] = "absent"
    /\ \A t \in Checkers : checker[t].at \in {"checking", "storing"} => checker[t].on \in Components

LEMMA HeldMeans == \A c : Held(c, {}) <=> \E t \in Checkers : Holds(t, c)
BY DEF Held, Holds

LEMMA HealthInvImplies == HealthIInv => HealthTypeOK /\ HealthHonest
<1> SUFFICES ASSUME HealthIInv PROVE HealthHonest
  BY DEF HealthIInv
<1>1. \A c \in Components : c \notin disturbed /\ ~Held(c, {}) => results[c] = truth[c]
  BY HeldMeans DEF HealthIInv, CheckedAlone
<1>2. \A c \in Components : results[c] \in HealthStatus \cup {"absent"}
  BY DEF HealthIInv, HealthTypeOK
<1>3. ASSUME disturbed = {}, \A c \in Components : ~Held(c, {})
      PROVE  Ready <=> \A c \in watched : truth[c] # "unhealthy"
  <2>1. \A c \in Components : results[c] = truth[c]
    BY <1>1, <1>3
  <2>2. \A c \in Components \ watched : truth[c] # "unhealthy"
    BY DEF HealthIInv
  <2>3. watched \subseteq Components
    BY DEF HealthIInv, HealthTypeOK
  <2> QED BY <2>1, <2>2, <2>3 DEF Ready
<1> QED BY <1>1, <1>3 DEF HealthHonest, HealthIInv

LEMMA HealthInitHolds == HealthInit => HealthIInv
<1> SUFFICES ASSUME HealthInit PROVE HealthIInv
  OBVIOUS
<1>1. HealthTypeOK
  <2>1. Resting \in [at : CheckStages, loop : BOOLEAN, todo : SUBSET Components,
                     on : Components \cup {NoComponent}, got : HealthStatus]
    BY DEF Resting, Checker, CheckStages, HealthStatus
  <2> QED BY <2>1 DEF HealthInit, HealthTypeOK
<1>2. \A t \in Checkers : checker[t].at = "idle"
  BY DEF HealthInit, Resting, Checker
<1>3. \A c \in Components : results[c] = truth[c] /\ truth[c] = "absent"
  BY DEF HealthInit
<1> QED BY <1>1, <1>2, <1>3 DEF HealthIInv, CheckedAlone, Holds, HealthInit

LEMMA StopBackgroundStep == HealthIInv /\ StopBackground => HealthIInv'
<1> SUFFICES ASSUME HealthIInv, StopBackground PROVE HealthIInv'
  OBVIOUS
<1>1. HealthTypeOK'
  BY DEF StopBackground, HealthIInv, HealthTypeOK
<1>2. \A t, c : Holds(t, c)' <=> Holds(t, c)
  BY DEF StopBackground, Holds
<1>3. \A c \in Components : CheckedAlone(c)'
  BY <1>2 DEF StopBackground, HealthIInv, CheckedAlone
<1> QED BY <1>1, <1>3 DEF StopBackground, HealthIInv

(* A component is registered or removed: whoever checks it meanwhile       *)
(* disturbs.                                                               *)
LEMMA RegistrationStep ==
    ASSUME HealthIInv, NEW c \in Components, RegisterCheck(c) \/ RemoveCheck(c)
    PROVE  HealthIInv'
<1>1. checker' = checker /\ looping' = looping
  BY DEF RegisterCheck, RemoveCheck
<1>2. \A t, d : Holds(t, d)' <=> Holds(t, d)
  BY <1>1 DEF Holds
<1>3. /\ \A d \in Components : d # c => /\ d \in watched' <=> d \in watched
                                        /\ d \in disturbed' <=> d \in disturbed
                                        /\ results'[d] = results[d] /\ truth'[d] = truth[d]
      /\ results'[c] = truth'[c] /\ (c \in watched' => results'[c] # "absent")
      /\ (c \notin watched' => truth'[c] = "absent")
      /\ c \in disturbed' <=> \E t \in Checkers : Holds(t, c)
  BY HeldMeans DEF HealthIInv, HealthTypeOK, RegisterCheck, RemoveCheck, Disturbs
<1>4. HealthTypeOK'
  BY DEF HealthIInv, HealthTypeOK, RegisterCheck, RemoveCheck, Disturbs, HealthStatus
<1>5. ASSUME NEW d \in Components PROVE CheckedAlone(d)'
  <2>1. CASE d = c
    BY <1>2, <1>3, <2>1 DEF CheckedAlone
  <2>2. CASE d # c
    BY <1>1, <1>2, <1>3, <2>2 DEF CheckedAlone, HealthIInv
  <2> QED BY <2>1, <2>2
<1> QED BY <1>1, <1>3, <1>4, <1>5 DEF HealthIInv, HealthTypeOK

(* A thread that was not checking begins to check c.                       *)
LEMMA BeginStep ==
    ASSUME HealthIInv, NEW t \in Checkers, NEW c \in Components, c \in watched,
           checker[t].at \notin {"checking", "storing"},
           NEW s \in [at : CheckStages, loop : BOOLEAN, todo : SUBSET Components,
                      on : Components \cup {NoComponent}, got : HealthStatus],
           BeginCheck(t, c, s)
    PROVE  HealthIInv'
<1>1. /\ UNCHANGED <<watched, results, looping, truth>>
      /\ checker'[t].at = "checking" /\ checker'[t].on = c
      /\ \A u \in Checkers : u # t => checker'[u] = checker[u]
      /\ HealthTypeOK
  BY DEF BeginCheck, HealthIInv, HealthTypeOK
<1>2. /\ \A u \in Checkers : ~Holds(t, u)
      /\ \A u \in Checkers : \A d : Holds(u, d)' <=> IF u = t THEN d = c ELSE Holds(u, d)
  BY <1>1 DEF Holds
<1>3. /\ \A d : d # c => (d \in disturbed' <=> d \in disturbed)
      /\ c \in disturbed' <=> \E u \in Checkers : u # t /\ Holds(u, c)
  BY DEF BeginCheck, Disturbs, Held, Holds
<1>4. HealthTypeOK'
  BY <1>1 DEF BeginCheck, HealthTypeOK, CheckStages, Disturbs
<1>5. ASSUME NEW d \in Components PROVE CheckedAlone(d)'
  <2>1. CASE d = c
    BY <1>1, <1>2, <1>3, <2>1 DEF CheckedAlone
  <2>2. CASE d # c
    <3>1. ~Holds(t, d)
      BY DEF Holds
    <3> QED BY <1>1, <1>2, <1>3, <2>2, <3>1 DEF CheckedAlone, HealthIInv
  <2> QED BY <2>1, <2>2
<1> QED BY <1>1, <1>4, <1>5 DEF HealthIInv

(* A thread goes on between checks.                                        *)
LEMMA BetweenStep ==
    ASSUME HealthIInv, NEW t \in Checkers,
           UNCHANGED <<watched, results, truth, disturbed>>, looping' \in BOOLEAN,
           checker[t].at \notin {"checking", "storing"},
           NEW s \in [at : CheckStages, loop : BOOLEAN, todo : SUBSET Components,
                      on : Components \cup {NoComponent}, got : HealthStatus],
           s.at \notin {"checking", "storing"},
           checker' = [checker EXCEPT ![t] = s]
    PROVE  HealthIInv'
<1>1. checker'[t] = s /\ \A u \in Checkers : u # t => checker'[u] = checker[u]
  BY DEF HealthIInv, HealthTypeOK
<1>2. \A u \in Checkers : \A d : Holds(u, d)' <=> Holds(u, d)
  BY <1>1 DEF Holds
<1>3. HealthTypeOK'
  BY DEF HealthIInv, HealthTypeOK
<1>4. \A u \in Checkers : \A d : Holds(u, d) => u # t
  BY DEF Holds
<1>5. ASSUME NEW d \in Components PROVE CheckedAlone(d)'
  BY <1>1, <1>2, <1>4 DEF CheckedAlone, HealthIInv
<1> QED BY <1>1, <1>3, <1>5 DEF HealthIInv

LEMMA EndCheckStep ==
    ASSUME HealthIInv, NEW t \in Checkers, NEW s \in Answers, EndCheck(t, s)
    PROVE  HealthIInv'
<1> DEFINE c == checker[t].on
<1>1. /\ HealthTypeOK /\ c \in Components /\ Holds(t, c) /\ s \in HealthStatus
      /\ UNCHANGED <<watched, results, looping, disturbed>>
  BY HealthAssumption DEF HealthIInv, EndCheck, Holds
<1>2. /\ checker'[t].at = "storing" /\ checker'[t].on = c /\ checker'[t].got = s
      /\ \A u \in Checkers : u # t => checker'[u] = checker[u]
  BY <1>1 DEF EndCheck, HealthTypeOK
<1>3. /\ \A d \in Components : d # c => truth'[d] = truth[d]
      /\ truth'[c] = IF c \in watched THEN s ELSE truth[c]
  BY <1>1 DEF EndCheck, HealthTypeOK
<1>4. \A u \in Checkers : \A d : Holds(u, d)' <=> Holds(u, d)
  BY <1>1, <1>2 DEF Holds
<1>5. HealthTypeOK'
  BY <1>1 DEF EndCheck, HealthTypeOK, CheckStages
<1> HIDE DEF c
<1>6. ASSUME NEW d \in Components PROVE CheckedAlone(d)'
  <2>1. CASE d = c
    BY <1>1, <1>2, <1>3, <1>4, <2>1 DEF CheckedAlone, HealthIInv
  <2>2. CASE d # c
    BY <1>1, <1>2, <1>3, <1>4, <2>2 DEF CheckedAlone, HealthIInv, Holds
  <2> QED BY <2>1, <2>2
<1> QED BY <1>1, <1>2, <1>3, <1>5, <1>6 DEF HealthIInv

LEMMA StoreResultStep ==
    ASSUME HealthIInv, NEW t \in Checkers, StoreResult(t)
    PROVE  HealthIInv'
<1> DEFINE c == checker[t].on
<1>1. /\ HealthTypeOK /\ c \in Components /\ Holds(t, c) /\ checker[t].got \in HealthStatus
      /\ checker[t].at = "storing"
      /\ UNCHANGED <<watched, truth, looping, disturbed>>
  BY DEF HealthIInv, HealthTypeOK, StoreResult, Holds
<1>2. /\ checker'[t].at \in {"recovering", "between"}
      /\ \A u \in Checkers : u # t => checker'[u] = checker[u]
  BY <1>1 DEF StoreResult, HealthTypeOK
<1>3. /\ \A d \in Components : d # c => results'[d] = results[d]
      /\ results'[c] = checker[t].got /\ results'[c] # "absent"
  BY <1>1 DEF StoreResult, HealthTypeOK, HealthStatus
<1>4. \A u \in Checkers : \A d : Holds(u, d)' <=> u # t /\ Holds(u, d)
  BY <1>2 DEF Holds
<1>5. HealthTypeOK'
  <2> DEFINE Checking == [at : CheckStages, loop : BOOLEAN, todo : SUBSET Components,
                        on : Components \cup {NoComponent}, got : HealthStatus]
  <2>1. PICK n \in {"recovering", "between"} :
            checker' = [checker EXCEPT ![t].at = n, ![t].on = NoComponent, ![t].got = "healthy"]
    BY DEF StoreResult
  <2>2. [checker[t] EXCEPT !.at = n, !.on = NoComponent, !.got = "healthy"] \in Checking
    BY <1>1 DEF HealthTypeOK, CheckStages, HealthStatus
  <2>3. checker' \in [Checkers -> Checking]
    <3> HIDE DEF Checking
    <3> QED BY <1>1, <2>1, <2>2 DEF HealthTypeOK, Checking
  <2>4. results' \in [Components -> HealthStatus \cup {"absent"}]
    BY <1>1 DEF StoreResult, HealthTypeOK
  <2> QED BY <1>1, <2>3, <2>4 DEF HealthTypeOK
<1> HIDE DEF c
<1>6. ASSUME NEW d \in Components PROVE CheckedAlone(d)'
  <2>1. CASE d = c
    BY <1>1, <1>2, <1>3, <1>4, <2>1 DEF CheckedAlone, HealthIInv
  <2>2. CASE d # c
    <3>1. ~Holds(t, d)
      BY <2>2 DEF Holds, c
    <3> QED BY <1>1, <1>2, <1>3, <1>4, <2>2, <3>1 DEF CheckedAlone, HealthIInv
  <2> QED BY <2>1, <2>2
<1> QED BY <1>1, <1>2, <1>3, <1>5, <1>6 DEF HealthIInv, HealthTypeOK

LEMMA HealthStep == HealthIInv /\ [HealthNext]_healthVars => HealthIInv'
<1> SUFFICES ASSUME HealthIInv, [HealthNext]_healthVars PROVE HealthIInv'
  OBVIOUS
<1> DEFINE Stage == [at : CheckStages, loop : BOOLEAN, todo : SUBSET Components,
                     on : Components \cup {NoComponent}, got : HealthStatus]
<1>0. HealthTypeOK /\ checker \in [Checkers -> Stage] /\ Resting \in Stage
  BY DEF HealthIInv, HealthTypeOK, Resting, Checker, CheckStages, HealthStatus
<1>1. ASSUME NEW t \in Checkers, NEW c \in Components, CheckComponent(t, c)
      PROVE  HealthIInv'
  <2>1. Checker("idle", FALSE, {}, NoComponent, "healthy") \in Stage
    BY <1>0 DEF Resting
  <2> QED BY <1>1, <2>1, BeginStep DEF CheckComponent
<1>2. ASSUME NEW t \in Checkers, NEW c \in Components, CheckNext(t, c)
      PROVE  HealthIInv'
  <2> DEFINE rest == [checker[t] EXCEPT !.todo = @ \ {c}]
  <2>1. rest \in Stage /\ rest.at = "between" /\ checker[t].at = "between"
    BY <1>0, <1>2 DEF CheckNext
  <2>2. CASE c \in watched /\ BeginCheck(t, c, rest)
    <3> HIDE DEF rest
    <3> QED BY <2>1, <2>2, BeginStep
  <2>3. CASE c \notin watched /\ checker' = [checker EXCEPT ![t] = rest]
             /\ UNCHANGED <<watched, results, looping, truth, disturbed>>
    <3>1. looping' \in BOOLEAN
      BY <1>0, <2>3 DEF HealthTypeOK
    <3> HIDE DEF rest
    <3> QED BY <2>1, <2>3, <3>1, BetweenStep
  <2> QED BY <1>2, <2>2, <2>3 DEF CheckNext
<1>3. ASSUME NEW t \in Checkers,
             EndRecovery(t) \/ EndRound(t) \/ StartBackground(t) \/ RoundTop(t)
      PROVE  HealthIInv'
  <2>1. \E s \in Stage : s.at \notin {"checking", "storing"} /\ checker' = [checker EXCEPT ![t] = s]
    <3>1. CASE EndRecovery(t)
      <4>1. [checker[t] EXCEPT !.at = "between"] \in Stage
        BY <1>0 DEF CheckStages
      <4> QED BY <1>0, <3>1, <4>1 DEF EndRecovery
    <3>2. CASE EndRound(t)
      <4>1. [Resting EXCEPT !.at = "sleeping", !.loop = TRUE] \in Stage
        BY <1>0 DEF CheckStages, Resting, Checker
      <4> QED BY <1>0, <3>2, <4>1 DEF EndRound, Resting, Checker
    <3>3. CASE StartBackground(t)
      <4>1. [Resting EXCEPT !.at = "top", !.loop = TRUE] \in Stage
        BY <1>0 DEF CheckStages, Resting, Checker
      <4> QED BY <1>0, <3>3, <4>1 DEF StartBackground, Resting, Checker
    <3>4. CASE RoundTop(t)
      <4>1. [checker[t] EXCEPT !.at = "between", !.todo = watched] \in Stage
        BY <1>0 DEF CheckStages, HealthTypeOK
      <4> QED BY <1>0, <3>4, <4>1 DEF RoundTop, Resting, Checker
    <3> QED BY <1>3, <3>1, <3>2, <3>3, <3>4
  <2>2. UNCHANGED <<watched, results, truth, disturbed>> /\ looping' \in BOOLEAN
    BY <1>0, <1>3 DEF HealthTypeOK, EndRecovery, EndRound, StartBackground, RoundTop
  <2>3. checker[t].at \notin {"checking", "storing"}
    BY <1>3 DEF EndRecovery, EndRound, StartBackground, RoundTop
  <2> QED BY <2>1, <2>2, <2>3, BetweenStep
<1>4. CASE UNCHANGED healthVars
  BY <1>4 DEF healthVars, HealthIInv, HealthTypeOK, CheckedAlone, Holds
<1> QED BY <1>1, <1>2, <1>3, <1>4, StopBackgroundStep, RegistrationStep, EndCheckStep, StoreResultStep
        DEF HealthNext

(* HealthHonest: the stored result of a component whose checks ran one at  *)
(* a time is the answer of the last of them (infrastructure/health.py).    *)
THEOREM ResultsAreHonest == HealthSpec => [](HealthTypeOK /\ HealthHonest)
BY HealthInitHolds, HealthStep, HealthInvImplies, PTL DEF HealthSpec

-----------------------------------------------------------------------------
(* Credentials                                                             *)

\* a record's versions count its values, the earlier ones in ascending order
RecordOK(r, most) ==
    /\ r = NoRecord \/ r.version = Len(r.previous) + 1
    /\ r.value <= most
    /\ \A i \in 1..Len(r.previous) :
          /\ r.previous[i] < r.value
          /\ \A j \in 1..(i - 1) : r.previous[j] < r.previous[i]

CredIInv ==
    /\ CredTypeOK
    /\ \A n \in Names : RecordOK(held[n], issued) /\ RecordOK(file.content[n], issued)
    /\ serving => \A n \in Names \ lossy : held[n].value = given[n]
    /\ file.state = "whole" => \A n \in Names \ lossy : file.content[n].value = given[n]

LEMMA CredInvImplies == CredIInv => CredTypeOK /\ CredentialsKept
<1> SUFFICES ASSUME CredIInv PROVE CredentialsKept
  BY DEF CredIInv
<1>1. \A n \in Names : held[n] # NoRecord =>
          /\ held[n].version = Len(held[n].previous) + 1
          /\ \A i \in 1..Len(held[n].previous) :
                /\ held[n].previous[i] < held[n].value
                /\ \A j \in 1..i - 1 : held[n].previous[j] < held[n].previous[i]
  BY DEF CredIInv, RecordOK
<1>2. serving => \A n \in Names \ lossy :
          Get(n) = IF held[n].expires = "past" THEN 0 ELSE given[n]
  BY DEF CredIInv, Get
<1> QED BY <1>1, <1>2 DEF CredIInv, CredentialsKept

(* The empty record, and the records a step leaves as they were.           *)
LEMMA NoRecordOK ==
    /\ NoRecord \in Records /\ NoRecord.value = 0 /\ NoRecord.previous = <<>>
    /\ NoRecord.expires = "never" /\ NoRecord.version = 0
    /\ \A most \in Nat : RecordOK(NoRecord, most)
<1>1. /\ NoRecord \in Records /\ NoRecord.value = 0 /\ NoRecord.previous = <<>>
      /\ NoRecord.expires = "never" /\ NoRecord.version = 0
  BY DEF NoRecord, Entry, Records, Expiries
<1>2. Len(NoRecord.previous) = 0
  BY <1>1
<1> QED BY <1>1, <1>2 DEF RecordOK

LEMMA CredInitHolds == CredInit => CredIInv
<1> SUFFICES ASSUME CredInit PROVE CredIInv
  OBVIOUS
<1>1. issued \in Nat /\ MaxSets \in Nat /\ MaxStarts \in Nat
  BY CredentialAssumption DEF CredInit
<1>2. Nothing \in [Names -> Records] /\ \A n \in Names : Nothing[n] = NoRecord
  BY NoRecordOK DEF Nothing
<1>3. CredTypeOK
  <2>1. file \in [state : {"absent", "torn", "whole"}, key : MasterKeys, content : [Names -> Records]]
    BY <1>2 DEF CredInit, File
  <2>2. held \in [Names -> Records] /\ given \in [Names -> Nat] /\ lossy \subseteq Names
    BY <1>2 DEF CredInit
  <2>3. serving \in BOOLEAN /\ saving \in BOOLEAN /\ master \in MasterKeys
    BY DEF CredInit
  <2>4. issued \in 0..MaxSets /\ starts \in 0..MaxStarts
    BY <1>1 DEF CredInit
  <2> QED BY <2>1, <2>2, <2>3, <2>4 DEF CredTypeOK
<1>4. held = Nothing /\ file.content = Nothing /\ file.state = "absent" /\ ~serving
  BY DEF CredInit, File
<1>5. \A n \in Names : RecordOK(held[n], issued) /\ RecordOK(file.content[n], issued)
  BY <1>1, <1>2, <1>4, NoRecordOK
<1> QED BY <1>3, <1>4, <1>5 DEF CredIInv

LEMMA StartStoreStep ==
    ASSUME CredIInv, NEW key \in MasterKeys, StartStore(key)
    PROVE  CredIInv'
<1> DEFINE readable == file.state = "whole" /\ file.key = key
<1>1. /\ CredTypeOK /\ issued \in Nat /\ MaxStarts \in Nat
      /\ Nothing \in [Names -> Records] /\ \A n \in Names : Nothing[n] = NoRecord
  BY CredentialAssumption, NoRecordOK DEF CredIInv, CredTypeOK, Nothing
<1>2. /\ UNCHANGED <<file, saving, issued, given>> /\ serving' = TRUE /\ starts' = starts + 1
      /\ starts < MaxStarts /\ master' = key
      /\ held' = IF readable THEN file.content ELSE Nothing
      /\ lossy' = IF readable THEN lossy ELSE lossy \cup {n \in Names : given[n] # 0}
  BY DEF StartStore
<1>3. CredTypeOK'
  BY <1>1, <1>2 DEF CredTypeOK
<1>4. \A n \in Names : RecordOK(held[n], issued)' /\ RecordOK(file.content[n], issued)'
  BY <1>1, <1>2, NoRecordOK DEF CredIInv, RecordOK
<1>5. ASSUME NEW n \in Names \ lossy'
      PROVE  /\ held'[n].value = given'[n]
             /\ file'.state = "whole" => file'.content[n].value = given'[n]
  <2>1. CASE readable
    BY <1>2, <2>1 DEF CredIInv
  <2>2. CASE ~readable
    <3>1. n \notin lossy /\ given[n] = 0
      BY <1>2, <2>2
    <3> QED BY <1>1, <1>2, <2>2, <3>1, NoRecordOK DEF CredIInv
  <2> QED BY <2>1, <2>2
<1> QED BY <1>3, <1>4, <1>5 DEF CredIInv

(* The file is opened, and empty.                                          *)
LEMMA TornFile ==
    /\ File("torn", master, Nothing).content = Nothing
    /\ File("torn", master, Nothing).state = "torn"
    /\ \A n \in Names : Nothing[n] = NoRecord
    /\ CredTypeOK => File("torn", master, Nothing) \in
           [state : {"absent", "torn", "whole"}, key : MasterKeys, content : [Names -> Records]]
BY NoRecordOK DEF File, Nothing, CredTypeOK

LEMMA SetStep ==
    ASSUME CredIInv, NEW n \in Names, NEW e \in BOOLEAN, Set(n, e)
    PROVE  CredIInv'
<1> DEFINE old == held[n]
           prev == IF old = NoRecord THEN <<>> ELSE Append(old.previous, old.value)
           new == Entry(issued + 1, prev, old.version + 1, IF e THEN "later" ELSE old.expires)
<1>1. /\ CredTypeOK /\ issued \in Nat /\ MaxSets \in Nat /\ old \in Records /\ RecordOK(old, issued)
      /\ issued < MaxSets
  BY CredentialAssumption DEF CredIInv, CredTypeOK, Set
<1>2. /\ UNCHANGED <<serving, master, starts>> /\ issued' = issued + 1
      /\ held' = [held EXCEPT ![n] = new] /\ given' = [given EXCEPT ![n] = issued + 1]
      /\ lossy' = lossy \ {n} /\ saving' = TRUE /\ file' = File("torn", master, Nothing)
      /\ serving
  BY DEF Set
<1>3. /\ old.previous \in Seq(Nat) /\ old.value \in Nat /\ old.version \in Nat
      /\ old.expires \in Expiries /\ Len(old.previous) \in Nat
  BY <1>1 DEF Records
<1> HIDE DEF old
<1>4. /\ prev \in Seq(Nat) /\ old.version = Len(prev)
      /\ \A i \in 1..Len(prev) :
            prev[i] < issued + 1 /\ \A j \in 1..(i - 1) : prev[j] < prev[i]
  <2>1. CASE old = NoRecord
    <3>1. prev = <<>> /\ old.version = 0
      BY <2>1, NoRecordOK
    <3> HIDE DEF prev
    <3> QED BY <3>1
  <2>2. CASE old # NoRecord
    <3> DEFINE m == Len(old.previous)
    <3>1. /\ prev = Append(old.previous, old.value) /\ old.version = m + 1 /\ m \in Nat
          /\ old.value <= issued
          /\ \A i \in 1..m :
                /\ old.previous[i] < old.value
                /\ \A j \in 1..(i - 1) : old.previous[j] < old.previous[i]
      BY <1>1, <1>3, <2>2 DEF RecordOK
    <3> HIDE DEF prev
    <3>2. /\ prev \in Seq(Nat) /\ Len(prev) = m + 1 /\ prev[m + 1] = old.value
          /\ \A i \in 1..m : prev[i] = old.previous[i]
      BY <1>3, <3>1
    <3>3. \A i \in 1..m : old.previous[i] \in Nat
      BY <1>3
    <3> HIDE DEF m
    <3>4. ASSUME NEW i \in 1..(m + 1)
          PROVE  prev[i] < issued + 1 /\ \A j \in 1..(i - 1) : prev[j] < prev[i]
      <4>1. CASE i = m + 1
        BY <1>1, <1>3, <3>1, <3>2, <4>1
      <4>2. CASE i \in 1..m
        <5>1. prev[i] < issued + 1
          BY <1>1, <1>3, <3>1, <3>2, <3>3, <4>2
        <5>2. \A j \in 1..(i - 1) : j \in 1..m
          BY <3>1, <4>2
        <5> QED BY <3>1, <3>2, <4>2, <5>1, <5>2
      <4>3. i = m + 1 \/ i \in 1..m
        BY <3>1
      <4> QED BY <4>1, <4>2, <4>3
    <3> QED BY <3>1, <3>2, <3>4
  <2> QED BY <2>1, <2>2
<1>5. /\ new.value = issued + 1 /\ new.previous = prev /\ new.version = old.version + 1
      /\ new \in Records
  <2>1. (IF e THEN "later" ELSE old.expires) \in Expiries
    BY <1>3 DEF Expiries
  <2> HIDE DEF prev
  <2> QED BY <1>1, <1>3, <1>4, <2>1 DEF Entry, Records
<1> HIDE DEF new, prev
<1>6. CredTypeOK'
  <2>1. held' \in [Names -> Records]
    BY <1>1, <1>2, <1>5 DEF CredTypeOK
  <2>2. file' \in [state : {"absent", "torn", "whole"}, key : MasterKeys, content : [Names -> Records]]
    BY <1>1, <1>2, TornFile
  <2>3. issued' \in 0..MaxSets /\ given' \in [Names -> Nat]
    BY <1>1, <1>2 DEF CredTypeOK
  <2> QED BY <1>1, <1>2, <2>1, <2>2, <2>3 DEF CredTypeOK
<1>7. RecordOK(new, issued')
  BY <1>1, <1>2, <1>4, <1>5 DEF RecordOK
<1>8. ASSUME NEW m \in Names PROVE RecordOK(held[m], issued)' /\ RecordOK(file.content[m], issued)'
  <2>1. issued' \in Nat /\ RecordOK(NoRecord, issued')
    <3>1. issued' \in Nat
      BY <1>1, <1>2
    <3> QED BY <3>1, NoRecordOK
  <2>2. file'.content[m] = NoRecord
    BY <1>2, TornFile
  <2>3. CASE m = n
    BY <1>1, <1>2, <1>7, <2>1, <2>2, <2>3 DEF CredTypeOK
  <2>4. CASE m # n
    <3>1. held'[m] = held[m] /\ held[m] \in Records /\ RecordOK(held[m], issued)
      BY <1>1, <1>2, <2>4 DEF CredTypeOK, CredIInv
    <3>2. issued' \in Nat /\ issued <= issued'
      BY <1>1, <1>2
    <3>3. held[m].value \in Nat /\ held[m].value <= issued'
      BY <1>1, <3>1, <3>2 DEF Records, RecordOK
    <3> QED BY <2>1, <2>2, <3>1, <3>3 DEF RecordOK
  <2> QED BY <2>3, <2>4
<1>9. ASSUME NEW m \in Names \ lossy' PROVE held'[m].value = given'[m]
  <2>1. CASE m = n
    BY <1>1, <1>2, <1>5, <2>1 DEF CredTypeOK
  <2>2. CASE m # n
    BY <1>1, <1>2, <2>2 DEF CredTypeOK, CredIInv
  <2> QED BY <2>1, <2>2
<1>10. file'.state = "torn"
  BY <1>2, TornFile
<1> QED BY <1>6, <1>8, <1>9, <1>10 DEF CredIInv

LEMMA DeleteStep ==
    ASSUME CredIInv, NEW n \in Names, Delete(n)
    PROVE  CredIInv'
<1>1. CredTypeOK /\ issued \in Nat
  BY DEF CredIInv, CredTypeOK
<1>2. /\ UNCHANGED <<serving, master, issued, starts, lossy>> /\ serving
      /\ held' = [held EXCEPT ![n] = NoRecord] /\ given' = [given EXCEPT ![n] = 0]
      /\ saving' = TRUE /\ file' = File("torn", master, Nothing)
  BY DEF Delete
<1>3. CredTypeOK'
  <2>1. held' \in [Names -> Records] /\ given' \in [Names -> Nat]
    BY <1>1, <1>2, NoRecordOK DEF CredTypeOK
  <2>2. file' \in [state : {"absent", "torn", "whole"}, key : MasterKeys, content : [Names -> Records]]
    BY <1>1, <1>2, TornFile
  <2> QED BY <1>1, <1>2, <2>1, <2>2 DEF CredTypeOK
<1>4. \A m \in Names : held'[m] = (IF m = n THEN NoRecord ELSE held[m]) /\ file'.content[m] = NoRecord
  BY <1>1, <1>2, TornFile DEF CredTypeOK
<1>5. \A m \in Names : RecordOK(held[m], issued)' /\ RecordOK(file.content[m], issued)'
  BY <1>1, <1>2, <1>4, NoRecordOK DEF CredIInv, RecordOK
<1>6. \A m \in Names \ lossy' : held'[m].value = given'[m]
  BY <1>1, <1>2, <1>4, NoRecordOK DEF CredIInv, CredTypeOK
<1>7. file'.state = "torn"
  BY <1>2, TornFile
<1> QED BY <1>3, <1>5, <1>6, <1>7 DEF CredIInv

LEMMA PersistStep == CredIInv /\ Persist => CredIInv'
<1> SUFFICES ASSUME CredIInv, Persist PROVE CredIInv'
  OBVIOUS
<1>1. CredTypeOK
  BY DEF CredIInv
<1>2. /\ UNCHANGED <<serving, master, held, issued, starts, given, lossy>> /\ serving
      /\ saving' = FALSE /\ file' = File("whole", master, held)
      /\ file'.content = held
  BY DEF Persist, File
<1>3. CredTypeOK'
  BY <1>1, <1>2 DEF CredTypeOK, File
<1>4. \A m \in Names : RecordOK(held[m], issued)' /\ RecordOK(file.content[m], issued)'
  BY <1>2 DEF CredIInv, RecordOK
<1> QED BY <1>2, <1>3, <1>4 DEF CredIInv

(* Time changes nothing of a record but its expiry.                        *)
LEMMA AgedFacts ==
    ASSUME NEW r \in Records
    PROVE  /\ Aged(r) \in Records /\ Aged(r).value = r.value
           /\ \A most : RecordOK(r, most) => RecordOK(Aged(r), most)
<1>1. /\ Aged(r) \in Records /\ Aged(r).value = r.value /\ Aged(r).previous = r.previous
      /\ Aged(r).version = r.version
  BY DEF Aged, Records, Expiries
<1>2. r = NoRecord => Aged(r) = NoRecord
  BY NoRecordOK DEF Aged
<1> QED BY <1>1, <1>2 DEF RecordOK

LEMMA ExpireStep ==
    ASSUME CredIInv, NEW n \in Names, Expire(n)
    PROVE  CredIInv'
<1>1. CredTypeOK
  BY DEF CredIInv
<1>2. /\ UNCHANGED <<serving, master, saving, issued, starts, given, lossy>>
      /\ held' = [held EXCEPT ![n] = Aged(held[n])]
      /\ file' = [file EXCEPT !.content[n] = Aged(file.content[n])]
  BY DEF Expire
<1>3. /\ held[n] \in Records /\ file.content[n] \in Records /\ file.content \in [Names -> Records]
  BY <1>1 DEF CredTypeOK
<1>4. /\ file'.content = [file.content EXCEPT ![n] = Aged(file.content[n])]
      /\ file'.state = file.state /\ file'.key = file.key
      /\ file' \in [state : {"absent", "torn", "whole"}, key : MasterKeys, content : [Names -> Records]]
  BY <1>1, <1>2, <1>3, AgedFacts DEF CredTypeOK
<1>5. CredTypeOK'
  <2>1. held' \in [Names -> Records]
    BY <1>1, <1>2, <1>3, AgedFacts DEF CredTypeOK
  <2> QED BY <1>1, <1>2, <1>4, <2>1 DEF CredTypeOK
<1>6. ASSUME NEW m \in Names
      PROVE  /\ RecordOK(held'[m], issued) /\ held'[m].value = held[m].value
             /\ RecordOK(file'.content[m], issued) /\ file'.content[m].value = file.content[m].value
  <2>1. CASE m = n
    BY <1>1, <1>2, <1>3, <1>4, <2>1, AgedFacts DEF CredIInv, CredTypeOK
  <2>2. CASE m # n
    BY <1>1, <1>2, <1>3, <1>4, <2>2 DEF CredIInv, CredTypeOK
  <2> QED BY <2>1, <2>2
<1>7. \A m \in Names : RecordOK(held[m], issued)' /\ RecordOK(file.content[m], issued)'
  BY <1>2, <1>6 DEF RecordOK
<1> QED BY <1>2, <1>4, <1>5, <1>6, <1>7 DEF CredIInv

LEMMA EndsStep == CredIInv /\ Ends => CredIInv'
<1> SUFFICES ASSUME CredIInv, Ends PROVE CredIInv'
  OBVIOUS
<1>1. CredTypeOK /\ issued \in Nat
  BY DEF CredIInv, CredTypeOK
<1>2. /\ UNCHANGED <<master, file, issued, starts, given, lossy>>
      /\ serving' = FALSE /\ saving' = FALSE /\ held' = Nothing
  BY DEF Ends
<1>3. Nothing \in [Names -> Records] /\ \A n \in Names : Nothing[n] = NoRecord
  BY NoRecordOK DEF Nothing
<1>4. CredTypeOK'
  BY <1>1, <1>2, <1>3 DEF CredTypeOK
<1>5. \A m \in Names : RecordOK(held[m], issued)' /\ RecordOK(file.content[m], issued)'
  BY <1>1, <1>2, <1>3, NoRecordOK DEF CredIInv, RecordOK
<1> QED BY <1>2, <1>4, <1>5 DEF CredIInv

LEMMA CredStep == CredIInv /\ [CredNext]_credVars => CredIInv'
<1> SUFFICES ASSUME CredIInv, [CredNext]_credVars PROVE CredIInv'
  OBVIOUS
<1>1. CASE UNCHANGED credVars
  BY <1>1 DEF credVars, CredIInv, CredTypeOK, RecordOK
<1> QED BY <1>1, StartStoreStep, SetStep, DeleteStep, PersistStep, ExpireStep, EndsStep DEF CredNext

(* CredentialsKept: a store that runs returns for each name the value it   *)
(* was last set to, unless it has expired or the file was unreadable at a  *)
(* start since (infrastructure/credentials.py).                            *)
THEOREM CredentialsAreKept == CredSpec => [](CredTypeOK /\ CredentialsKept)
BY CredInitHolds, CredStep, CredInvImplies, PTL DEF CredSpec

-----------------------------------------------------------------------------
(* The audit log                                                           *)

\* at collects the positions of a name in a field, entry by entry
Collects(at, list, field, name) ==
    /\ at \in [0..Len(list) -> Seq(Nat)]
    /\ at[0] = <<>>
    /\ \A n \in 1..Len(list) :
          at[n] = IF list[n][field] = name THEN Append(at[n - 1], n) ELSE at[n - 1]
    /\ Positions(list, field, name) = at[Len(list)]

LEMMA PositionsFacts ==
    ASSUME NEW S, NEW list \in Seq(S), NEW field, NEW name
    PROVE  \E at : Collects(at, list, field, name)
<1> DEFINE n == Len(list)
           step == [i \in 1..n |-> [q \in Seq(Nat) |->
                       IF list[i][field] = name THEN Append(q, i) ELSE q]]
           Rec(f) == f = [i \in 0..n |->
                       IF i = 0 THEN <<>>
                       ELSE IF list[i][field] = name THEN Append(f[i - 1], i) ELSE f[i - 1]]
           at == CHOOSE f : Rec(f)
<1>1. Positions(list, field, name) = at[n]
  BY DEF Positions
<1>2. n \in Nat
  OBVIOUS
<1>3. step \in StepsOn(n, Seq(Nat))
  <2>1. ASSUME NEW i \in 1..n, NEW q \in Seq(Nat)
        PROVE  (IF list[i][field] = name THEN Append(q, i) ELSE q) \in Seq(Nat)
    <3>1. i \in Nat
      BY <1>2
    <3> QED BY <3>1
  <2> QED BY <2>1 DEF StepsOn
<1>4. PICK g \in [0..n -> Seq(Nat)] :
          /\ g[0] = <<>>
          /\ \A i \in 1..n : g[i] = step[i][g[i - 1]]
  <2>1. \E f : Follows(f, n, Seq(Nat), <<>>, step)
    <3>1. <<>> \in Seq(Nat)
      OBVIOUS
    <3> HIDE DEF step, n
    <3> QED BY <1>2, <1>3, <3>1, RecursionUpTo
  <2> HIDE DEF step, n
  <2> QED BY <2>1 DEF Follows
<1>5. ASSUME NEW i \in 1..n
      PROVE  g[i] = IF list[i][field] = name THEN Append(g[i - 1], i) ELSE g[i - 1]
  <2>1. i - 1 \in 0..n
    BY <1>2
  <2>2. g[i - 1] \in Seq(Nat)
    BY <1>4, <2>1
  <2>3. g[i] = step[i][g[i - 1]]
    BY <1>4
  <2> QED BY <2>2, <2>3
<1>6. Rec(g)
  <2> DEFINE rhs == [i \in 0..n |->
                       IF i = 0 THEN <<>>
                       ELSE IF list[i][field] = name THEN Append(g[i - 1], i) ELSE g[i - 1]]
  <2>1. ASSUME NEW i \in 0..n PROVE g[i] = rhs[i]
    <3>1. CASE i = 0
      BY <1>4, <3>1
    <3>2. CASE i # 0
      <4>1. i \in 1..n
        BY <1>2, <3>2
      <4> QED BY <1>5, <3>2, <4>1
    <3> QED BY <3>1, <3>2
  <2>2. g = rhs
    <3> HIDE DEF rhs
    <3>1. g = [i \in 0..n |-> g[i]]
      BY <1>4
    <3>2. rhs = [i \in 0..n |-> rhs[i]]
      BY DEF rhs
    <3> QED BY <2>1, <3>1, <3>2
  <2> QED BY <2>2
<1>7. Rec(at)
  <2> HIDE DEF Rec
  <2> QED BY <1>6
<1>8. at = g
  <2> DEFINE B == {i \in 0..n : at[i] = g[i]}
  <2>0. /\ at = [i \in 0..n |-> at[i]]
        /\ at[0] = <<>>
        /\ \A i \in 1..n : at[i] = IF list[i][field] = name THEN Append(at[i - 1], i) ELSE at[i - 1]
    <3> HIDE DEF at
    <3> DEFINE rhs == [i \in 0..n |->
                         IF i = 0 THEN <<>>
                         ELSE IF list[i][field] = name THEN Append(at[i - 1], i) ELSE at[i - 1]]
    <3>1. at = rhs
      BY <1>7
    <3>2. rhs = [i \in 0..n |-> rhs[i]] /\ rhs[0] = <<>>
      BY <1>2
    <3>3. ASSUME NEW i \in 1..n
          PROVE  rhs[i] = IF list[i][field] = name THEN Append(at[i - 1], i) ELSE at[i - 1]
      <4>1. i \in 0..n /\ i # 0
        BY <1>2
      <4> QED BY <4>1
    <3> HIDE DEF rhs
    <3> QED BY <3>1, <3>2, <3>3
  <2> HIDE DEF at
  <2>1. 0 \in B
    BY <1>2, <1>4, <2>0
  <2>2. ASSUME NEW i \in 1..n, i - 1 \in B PROVE i \in B
    <3>1. i \in 0..n /\ at[i - 1] = g[i - 1]
      BY <1>2, <2>2
    <3>2. at[i] = IF list[i][field] = name THEN Append(at[i - 1], i) ELSE at[i - 1]
      BY <2>0
    <3> QED BY <1>5, <3>1, <3>2
  <2>3. 0..n \subseteq B
    <3> HIDE DEF B
    <3> QED BY <1>2, <2>1, <2>2, EveryNumberUpTo
  <2>4. \A i \in 0..n : at[i] = g[i]
    BY <2>3
  <2>5. g = [i \in 0..n |-> g[i]]
    BY <1>4
  <2> QED BY <2>0, <2>4, <2>5
<1> HIDE DEF at, Rec, step
<1>9. Collects(g, list, field, name)
  BY <1>1, <1>4, <1>5, <1>8 DEF Collects
<1> QED BY <1>9

(* They are a sequence of the numbers whose entry has the name there.      *)
LEMMA PositionsType ==
    ASSUME NEW S, NEW list \in Seq(S), NEW field, NEW name
    PROVE  /\ Positions(list, field, name) \in Seq(Nat)
           /\ {Positions(list, field, name)[i] : i \in 1..Len(Positions(list, field, name))}
                 = {i \in 1..Len(list) : list[i][field] = name}
<1> DEFINE n == Len(list)
           Listing(q) == {q[i] : i \in 1..Len(q)}
<1>1. n \in Nat
  OBVIOUS
<1>0. PICK at : Collects(at, list, field, name)
  BY PositionsFacts
<1>2. /\ at \in [0..n -> Seq(Nat)] /\ at[0] = <<>>
      /\ \A i \in 1..n : at[i] = IF list[i][field] = name THEN Append(at[i - 1], i) ELSE at[i - 1]
      /\ Positions(list, field, name) = at[n]
  BY <1>0 DEF Collects
<1> DEFINE B == {m \in 0..n : Listing(at[m]) = {i \in 1..m : list[i][field] = name}}
<1>3. 0 \in B
  <2>1. Listing(<<>>) = {}
    OBVIOUS
  <2>2. {i \in 1..0 : list[i][field] = name} = {}
    OBVIOUS
  <2> HIDE DEF Listing
  <2> QED BY <1>1, <1>2, <2>1, <2>2
<1>4. ASSUME NEW m \in 1..n, m - 1 \in B PROVE m \in B
  <2>1. /\ m - 1 \in 0..n /\ at[m - 1] \in Seq(Nat) /\ m \in Nat
        /\ Listing(at[m - 1]) = {i \in 1..(m - 1) : list[i][field] = name}
    <3>1. m \in Nat /\ m - 1 \in 0..n
      BY <1>1
    <3> HIDE DEF Listing
    <3> QED BY <1>2, <1>4, <3>1
  <2>2. Listing(Append(at[m - 1], m)) = Listing(at[m - 1]) \cup {m}
    <3> DEFINE q == at[m - 1]
    <3>1. /\ Len(Append(q, m)) = Len(q) + 1 /\ Append(q, m)[Len(q) + 1] = m /\ Len(q) \in Nat
          /\ \A i \in 1..Len(q) : Append(q, m)[i] = q[i]
      BY <2>1
    <3>2. \A i : i \in 1..(Len(q) + 1) <=> i \in 1..Len(q) \/ i = Len(q) + 1
      <4>1. \A k \in Nat : \A i : i \in 1..(k + 1) <=> i \in 1..k \/ i = k + 1
        OBVIOUS
      <4> HIDE DEF q
      <4> QED BY <3>1, <4>1
    <3> HIDE DEF q
    <3>3. \A x : x \in Listing(Append(q, m)) <=> x \in Listing(q) \/ x = m
      BY <3>1, <3>2
    <3> QED BY <3>3 DEF q
  <2>3. \A i : i \in 1..m <=> i \in 1..(m - 1) \/ i = m
    BY <2>1
  <2> HIDE DEF Listing
  <2>4. CASE list[m][field] = name
    <3>1. Listing(at[m]) = Listing(at[m - 1]) \cup {m}
      BY <1>2, <2>2, <2>4
    <3> QED BY <1>4, <2>1, <2>3, <2>4, <3>1
  <2>5. CASE list[m][field] # name
    <3>1. at[m] = at[m - 1]
      BY <1>2, <2>5
    <3> QED BY <1>4, <2>1, <2>3, <2>5, <3>1
  <2> QED BY <2>4, <2>5
<1>5. 0..n \subseteq B
  <2> HIDE DEF B
  <2> QED BY <1>1, <1>3, <1>4, EveryNumberUpTo
<1>6. n \in 0..n
  BY <1>1
<1> HIDE DEF Listing
<1>7. Listing(at[n]) = {i \in 1..n : list[i][field] = name}
  BY <1>5, <1>6
<1> QED BY <1>2, <1>6, <1>7 DEF Listing

(* One more entry is one more position of its names, at the end.           *)
LEMMA PositionsAppend ==
    ASSUME NEW S, NEW list \in Seq(S), NEW e \in S, NEW field, NEW name
    PROVE  Positions(Append(list, e), field, name)
             = IF e[field] = name THEN Append(Positions(list, field, name), Len(list) + 1)
               ELSE Positions(list, field, name)
<1> DEFINE n == Len(list)
           more == Append(list, e)
<1>1. /\ n \in Nat /\ more \in Seq(S) /\ Len(more) = n + 1 /\ more[n + 1] = e
      /\ \A i \in 1..n : more[i] = list[i]
  OBVIOUS
<1>0. PICK at : Collects(at, list, field, name)
  BY PositionsFacts
<1>2. /\ at \in [0..n -> Seq(Nat)] /\ at[0] = <<>>
      /\ \A i \in 1..n : at[i] = IF list[i][field] = name THEN Append(at[i - 1], i) ELSE at[i - 1]
      /\ Positions(list, field, name) = at[n]
  BY <1>0 DEF Collects
<1>10. PICK ups : Collects(ups, more, field, name)
  <2> HIDE DEF more
  <2> QED BY <1>1, PositionsFacts
<1>3. /\ ups \in [0..(n + 1) -> Seq(Nat)] /\ ups[0] = <<>>
      /\ \A i \in 1..(n + 1) :
            ups[i] = IF more[i][field] = name THEN Append(ups[i - 1], i) ELSE ups[i - 1]
      /\ Positions(more, field, name) = ups[n + 1]
  <2> HIDE DEF more
  <2> QED BY <1>1, <1>10 DEF Collects
<1> DEFINE B == {m \in 0..n : ups[m] = at[m]}
<1>4. 0 \in B
  BY <1>1, <1>2, <1>3
<1>5. ASSUME NEW m \in 1..n, m - 1 \in B PROVE m \in B
  <2>1. m \in 1..(n + 1) /\ more[m] = list[m] /\ ups[m - 1] = at[m - 1] /\ m \in 0..n
    BY <1>1, <1>5
  <2> HIDE DEF more
  <2>2. ups[m] = IF list[m][field] = name THEN Append(at[m - 1], m) ELSE at[m - 1]
    BY <1>3, <2>1
  <2> QED BY <1>2, <2>1, <2>2
<1>6. 0..n \subseteq B
  <2> HIDE DEF B
  <2> QED BY <1>1, <1>4, <1>5, EveryNumberUpTo
<1>7. n \in 0..n /\ n + 1 \in 1..(n + 1) /\ (n + 1) - 1 = n
  BY <1>1
<1>8. ups[n] = at[n]
  BY <1>6, <1>7
<1>9. ups[n + 1] = IF e[field] = name THEN Append(at[n], n + 1) ELSE at[n]
  <2> HIDE DEF more
  <2> QED BY <1>1, <1>3, <1>7, <1>8
<1> QED BY <1>2, <1>3, <1>9

-----------------------------------------------------------------------------

\* the entries kept are the last of all that were logged
KeepsLast(kept, all) ==
    /\ Len(kept) <= Len(all)
    /\ \A i \in 1..Len(kept) : kept[i] = all[(Len(all) - Len(kept)) + i]

AuditIInv ==
    /\ AuditTypeOK
    /\ KeepsLast(entries, trail)
    /\ Len(entries) = (IF Len(trail) < MaxEntries THEN Len(trail) ELSE MaxEntries)
    /\ \A s \in AuditStrategies : byStrategy[s] = Positions(entries, "strategy", s)
    /\ \A t \in AuditTypes : byType[t] = Positions(entries, "type", t)
    /\ \A y \in AuditSymbols : bySymbol[y] = Positions(entries, "symbol", y)

LEMMA EndsAreSubSeq ==
    ASSUME NEW S, NEW kept \in Seq(S), NEW all \in Seq(S), KeepsLast(kept, all)
    PROVE  kept = SubSeq(all, Len(all) - Len(kept) + 1, Len(all))
<1> DEFINE k == Len(kept)
           n == Len(all)
<1>1. k \in Nat /\ n \in Nat /\ k <= n
  BY DEF KeepsLast
<1>2. kept = [i \in 1..k |-> kept[i]]
  OBVIOUS
<1>3. SubSeq(all, (n - k) + 1, n) = [i \in 1..k |-> all[(n - k) + i]]
  <2>1. SubSeq(all, (n - k) + 1, n)
          = [i \in 1..((n - ((n - k) + 1)) + 1) |-> all[(i + ((n - k) + 1)) - 1]]
    BY <1>1
  <2>2. (n - ((n - k) + 1)) + 1 = k
    BY <1>1
  <2>3. \A i \in 1..k : (i + ((n - k) + 1)) - 1 = (n - k) + i
    BY <1>1
  <2> HIDE DEF k, n
  <2> QED BY <2>1, <2>2, <2>3
<1> QED BY <1>2, <1>3 DEF KeepsLast

\* a query for the name in the field is rightly answered by the index
AnsweredBy(index, field, name) ==
    Listed(index, name) = {i \in 1..Len(entries) : name = NoName \/ entries[i][field] = name}

(* What an index lists, as a query reads it.                               *)
LEMMA ListedMeans ==
    ASSUME AuditTypeOK, NEW index, NEW field, NEW name,
           name # NoName => index[name] = Positions(entries, field, name)
    PROVE  AnsweredBy(index, field, name)
<1>1. CASE name = NoName
  BY <1>1 DEF AnsweredBy, Listed
<1>2. CASE name # NoName
  <2>2. entries \in Seq(AuditEntries)
    BY DEF AuditTypeOK
  <2>3. {Positions(entries, field, name)[i] : i \in 1..Len(Positions(entries, field, name))}
           = {i \in 1..Len(entries) : entries[i][field] = name}
    BY <2>2, PositionsType
  <2> QED BY <1>2, <2>3 DEF AnsweredBy, Listed
<1> QED BY <1>1, <1>2

LEMMA AuditInvImplies == AuditIInv => AuditTypeOK /\ AuditAnswers
<1> SUFFICES ASSUME AuditIInv PROVE AuditAnswers
  BY DEF AuditIInv
<1>1. entries = SubSeq(trail, Len(trail) - Len(entries) + 1, Len(trail))
  <2>1. entries \in Seq(AuditEntries) /\ trail \in Seq(AuditEntries) /\ KeepsLast(entries, trail)
    BY DEF AuditIInv, AuditTypeOK
  <2> QED BY <2>1, EndsAreSubSeq
<1>2. ASSUME NEW q \in AuditQueries
      PROVE  Query(q) = {e \in {i \in 1..Len(entries) : Suits(entries[i], q)} :
                 Cardinality({d \in {i \in 1..Len(entries) : Suits(entries[i], q)} : d > e}) < q.limit}
  <2>0. /\ q.strategy \in AuditStrategies \cup {NoName} /\ q.type \in AuditTypes \cup {NoName}
        /\ q.symbol \in AuditSymbols \cup {NoName} /\ AuditTypeOK
        /\ NoName \notin AuditStrategies /\ NoName \notin AuditSymbols /\ NoName \notin AuditTypes
    BY AuditAssumption DEF AuditQueries, AuditIInv
  <2>1. Listed(byStrategy, q.strategy)
          = {i \in 1..Len(entries) : q.strategy = NoName \/ entries[i]["strategy"] = q.strategy}
    <3>1. q.strategy # NoName => byStrategy[q.strategy] = Positions(entries, "strategy", q.strategy)
      BY <2>0 DEF AuditIInv
    <3>2. AnsweredBy(byStrategy, "strategy", q.strategy)
      BY <2>0, <3>1, ListedMeans
    <3> QED BY <3>2 DEF AnsweredBy
  <2>2. Listed(byType, q.type)
          = {i \in 1..Len(entries) : q.type = NoName \/ entries[i]["type"] = q.type}
    <3>1. q.type # NoName => byType[q.type] = Positions(entries, "type", q.type)
      BY <2>0 DEF AuditIInv
    <3>2. AnsweredBy(byType, "type", q.type)
      BY <2>0, <3>1, ListedMeans
    <3> QED BY <3>2 DEF AnsweredBy
  <2>3. Listed(bySymbol, q.symbol)
          = {i \in 1..Len(entries) : q.symbol = NoName \/ entries[i]["symbol"] = q.symbol}
    <3>1. q.symbol # NoName => bySymbol[q.symbol] = Positions(entries, "symbol", q.symbol)
      BY <2>0 DEF AuditIInv
    <3>2. AnsweredBy(bySymbol, "symbol", q.symbol)
      BY <2>0, <3>1, ListedMeans
    <3> QED BY <3>2 DEF AnsweredBy
  <2> DEFINE found == {i \in Listed(byStrategy, q.strategy) \cap Listed(byType, q.type)
                                \cap Listed(bySymbol, q.symbol) : entries[i].at \in q.from..q.to}
             suiting == {i \in 1..Len(entries) : Suits(entries[i], q)}
  <2>4. found = suiting
    BY <2>1, <2>2, <2>3 DEF Suits
  <2>5. Query(q) = {i \in found : Cardinality({j \in found : j > i}) < q.limit}
    BY DEF Query
  <2> HIDE DEF found, suiting
  <2> QED BY <2>4, <2>5 DEF suiting
<1> QED BY <1>1, <1>2 DEF AuditIInv, AuditAnswers

LEMMA AuditInitHolds == AuditInit => AuditIInv
<1> SUFFICES ASSUME AuditInit PROVE AuditIInv
  OBVIOUS
<1>1. \A field, name : Positions(<<>>, field, name) = <<>>
  <2>1. ASSUME NEW field, NEW name PROVE Positions(<<>>, field, name) = <<>>
    <3> DEFINE none == <<>>
    <3>1. none \in Seq(Nat) /\ Len(none) = 0
      OBVIOUS
    <3> HIDE DEF none
    <3>2. PICK at : Collects(at, none, field, name)
      BY <3>1, PositionsFacts
    <3>3. Positions(none, field, name) = <<>>
      BY <3>1, <3>2 DEF Collects
    <3> QED BY <3>3 DEF none
  <2> QED BY <2>1
<1>2. KeepsLast(entries, trail) /\ Len(entries) = 0 /\ Len(trail) = 0
  BY DEF AuditInit, KeepsLast
<1>3. AuditTypeOK
  BY DEF AuditInit, AuditTypeOK
<1> QED BY <1>1, <1>2, <1>3, AuditAssumption DEF AuditInit, AuditIInv

(* An entry appended to the list, and to the log of everything.            *)
LEMMA KeepsMore ==
    ASSUME NEW S, NEW kept \in Seq(S), NEW all \in Seq(S), KeepsLast(kept, all), NEW e \in S
    PROVE  /\ KeepsLast(Append(kept, e), Append(all, e))
           /\ KeepsLast(Tail(Append(kept, e)), Append(all, e))
           /\ Len(Tail(Append(kept, e))) = Len(kept)
           /\ Tail(Append(kept, e)) \in Seq(S)
<1> DEFINE k == Len(kept)
           n == Len(all)
           more == Append(kept, e)
           every == Append(all, e)
           last == Tail(more)
<1>1. /\ k \in Nat /\ n \in Nat /\ k <= n
      /\ \A i \in 1..k : kept[i] = all[(n - k) + i]
  BY DEF KeepsLast
<1>2. /\ more \in Seq(S) /\ Len(more) = k + 1 /\ more[k + 1] = e
      /\ \A i \in 1..k : more[i] = kept[i]
      /\ every \in Seq(S) /\ Len(every) = n + 1 /\ every[n + 1] = e
      /\ \A i \in 1..n : every[i] = all[i]
  OBVIOUS
<1>3. last \in Seq(S) /\ Len(last) = k /\ \A i \in 1..k : last[i] = more[i + 1]
  <2> HIDE DEF more
  <2>1. more # <<>>
    BY <1>1, <1>2
  <2> QED BY <1>1, <1>2, <2>1
<1> HIDE DEF k, n, more, every, last
<1>4. ASSUME NEW i \in 1..(k + 1) PROVE more[i] = every[(n - k) + i]
  <2>1. CASE i = k + 1
    <3>1. (n - k) + i = n + 1
      BY <1>1, <2>1
    <3> QED BY <1>2, <2>1, <3>1
  <2>2. CASE i \in 1..k
    <3>1. (n - k) + i \in 1..n
      BY <1>1, <2>2
    <3> QED BY <1>1, <1>2, <2>2, <3>1
  <2>3. i = k + 1 \/ i \in 1..k
    BY <1>1
  <2> QED BY <2>1, <2>2, <2>3
<1>5. KeepsLast(more, every)
  <2>1. (n + 1) - (k + 1) = n - k /\ k + 1 <= n + 1
    BY <1>1
  <2> QED BY <1>2, <1>4, <2>1 DEF KeepsLast
<1>6. KeepsLast(last, every)
  <2>1. k <= n + 1
    BY <1>1
  <2>2. ASSUME NEW i \in 1..k PROVE last[i] = every[((n + 1) - k) + i]
    <3>1. i + 1 \in 1..(k + 1) /\ (n - k) + (i + 1) = ((n + 1) - k) + i
      BY <1>1
    <3> QED BY <1>3, <1>4, <3>1
  <2> QED BY <1>2, <1>3, <2>1, <2>2 DEF KeepsLast
<1> QED BY <1>3, <1>5, <1>6 DEF more, every, last, k

\* the index lists, for each of the names, the positions the list has it at
IndexOf(index, names, list, field) ==
    /\ index \in [names -> Seq(Nat)]
    /\ \A x \in names : index[x] = Positions(list, field, x)

(* An index follows the list it is of, entry by entry.                     *)
LEMMA IndexedMore ==
    ASSUME NEW S, NEW list \in Seq(S), NEW e \in S, NEW names, NEW field, NEW index,
           IndexOf(index, names, list, field)
    PROVE  IndexOf(Indexed(index, e[field], Len(list) + 1), names, Append(list, e), field)
<1> DEFINE n == Len(list) + 1
           more == Append(list, e)
<1>1. /\ index = [x \in names |-> index[x]] /\ DOMAIN index = names /\ n \in Nat
      /\ \A x \in names : index[x] \in Seq(Nat) /\ index[x] = Positions(list, field, x)
  BY DEF IndexOf
<1>2. Indexed(index, e[field], n)
         = [x \in names |-> IF x = e[field] THEN Append(index[x], n) ELSE index[x]]
  BY <1>1 DEF Indexed
<1>3. ASSUME NEW x \in names PROVE Indexed(index, e[field], n)[x] \in Seq(Nat)
  <2>1. Append(index[x], n) \in Seq(Nat) /\ index[x] \in Seq(Nat)
    BY <1>1
  <2> HIDE DEF n
  <2> QED BY <1>2, <2>1
<1>4. ASSUME NEW x \in names PROVE Indexed(index, e[field], n)[x] = Positions(more, field, x)
  <2>1. Positions(more, field, x)
           = IF e[field] = x THEN Append(Positions(list, field, x), n) ELSE Positions(list, field, x)
    BY PositionsAppend
  <2> HIDE DEF n, more
  <2> QED BY <1>1, <1>2, <2>1
<1> HIDE DEF n, more
<1>5. Indexed(index, e[field], n) \in [names -> Seq(Nat)]
  BY <1>2, <1>3
<1> QED BY <1>4, <1>5 DEF IndexOf, n, more

LEMMA LogStep ==
    ASSUME AuditIInv, NEW shape \in Shapes, Log(shape)
    PROVE  AuditIInv'
<1> DEFINE entry == AuditEntry(shape, Len(trail) + 1)
           n == Len(entries) + 1
           kept == Tail(Append(entries, entry))
<1>1. /\ AuditTypeOK /\ entries \in Seq(AuditEntries) /\ trail \in Seq(AuditEntries)
      /\ Len(entries) \in Nat /\ Len(trail) \in Nat /\ MaxEntries \in Nat /\ MaxEntries >= 1
      /\ KeepsLast(entries, trail)
  BY AuditAssumption DEF AuditIInv, AuditTypeOK
<1>2. /\ entry \in AuditEntries
      /\ trail' = Append(trail, entry) /\ trail' \in Seq(AuditEntries) /\ Len(trail') = Len(trail) + 1
  <2>1. Len(trail) < MaxLogged /\ trail' = Append(trail, entry) /\ MaxLogged \in Nat
    BY AuditAssumption DEF Log
  <2>2. entry \in AuditEntries
    BY <1>1, <2>1 DEF AuditEntries
  <2> HIDE DEF entry
  <2> QED BY <1>1, <2>1, <2>2
<1>3. /\ KeepsLast(Append(entries, entry), trail') /\ KeepsLast(kept, trail')
      /\ Len(kept) = Len(entries) /\ kept \in Seq(AuditEntries)
  <2> HIDE DEF entry
  <2> QED BY <1>1, <1>2, KeepsMore
<1>4. CASE n <= MaxEntries
  <2>1. /\ entries' = Append(entries, entry)
        /\ byStrategy' = Indexed(byStrategy, entry.strategy, n)
        /\ byType' = Indexed(byType, entry.type, n)
        /\ bySymbol' = Indexed(bySymbol, entry.symbol, n)
    BY <1>1, <1>4 DEF Log
  <2> HIDE DEF entry
  <2>2. entries' \in Seq(AuditEntries) /\ Len(entries') = n /\ n \in Nat
    BY <1>1, <1>2, <2>1
  <2>3. /\ IndexOf(byStrategy, AuditStrategies, entries, "strategy")
        /\ IndexOf(byType, AuditTypes, entries, "type")
        /\ IndexOf(bySymbol, AuditSymbols, entries, "symbol")
    BY <1>1 DEF AuditTypeOK, AuditIInv, IndexOf
  <2>4. IndexOf(byStrategy', AuditStrategies, entries', "strategy")
    <3>1. IndexOf(Indexed(byStrategy, entry["strategy"], n), AuditStrategies,
                  Append(entries, entry), "strategy")
      BY <1>1, <1>2, <2>3, IndexedMore
    <3> QED BY <2>1, <3>1
  <2>5. IndexOf(byType', AuditTypes, entries', "type")
    <3>1. IndexOf(Indexed(byType, entry["type"], n), AuditTypes,
                  Append(entries, entry), "type")
      BY <1>1, <1>2, <2>3, IndexedMore
    <3> QED BY <2>1, <3>1
  <2>6. IndexOf(bySymbol', AuditSymbols, entries', "symbol")
    <3>1. IndexOf(Indexed(bySymbol, entry["symbol"], n), AuditSymbols,
                  Append(entries, entry), "symbol")
      BY <1>1, <1>2, <2>3, IndexedMore
    <3> QED BY <2>1, <3>1
  <2>7. Len(entries') = (IF Len(trail') < MaxEntries THEN Len(trail') ELSE MaxEntries)
    BY <1>1, <1>2, <1>4, <2>2 DEF AuditIInv
  <2> QED BY <1>2, <1>3, <2>1, <2>2, <2>4, <2>5, <2>6, <2>7 DEF AuditIInv, AuditTypeOK, IndexOf
<1>5. CASE n > MaxEntries
  <2>1. /\ entries' = kept
        /\ byStrategy' = Rebuilt(kept, "strategy", AuditStrategies)
        /\ byType' = Rebuilt(kept, "type", AuditTypes)
        /\ bySymbol' = Rebuilt(kept, "symbol", AuditSymbols)
    BY <1>1, <1>5 DEF Log
  <2> HIDE DEF entry, kept
  <2>2. ASSUME NEW field, NEW names
        PROVE  /\ Rebuilt(kept, field, names) \in [names -> Seq(Nat)]
               /\ \A x \in names : Rebuilt(kept, field, names)[x] = Positions(kept, field, x)
    <3>1. \A x \in names : Positions(kept, field, x) \in Seq(Nat)
      BY <1>3, PositionsType
    <3> QED BY <3>1 DEF Rebuilt
  <2>3. Len(entries') = (IF Len(trail') < MaxEntries THEN Len(trail') ELSE MaxEntries)
    BY <1>1, <1>2, <1>3, <1>5, <2>1 DEF AuditIInv, KeepsLast
  <2> QED BY <1>2, <1>3, <2>1, <2>2, <2>3 DEF AuditIInv, AuditTypeOK
<1> QED BY <1>1, <1>4, <1>5

LEMMA AuditStep == AuditIInv /\ [AuditNext]_auditVars => AuditIInv'
<1>1. AuditIInv /\ UNCHANGED auditVars => AuditIInv'
  BY DEF auditVars, AuditIInv, AuditTypeOK
<1> QED BY <1>1, LogStep DEF AuditNext

(* AuditAnswers: the log holds the newest entries, and a query answered    *)
(* through the indices returns what a search of the whole log would        *)
(* (monitoring/audit_log.py).                                              *)
THEOREM QueriesAreAnswered == AuditSpec => [](AuditTypeOK /\ AuditAnswers)
BY AuditInitHolds, AuditStep, AuditInvImplies, PTL DEF AuditSpec

-----------------------------------------------------------------------------
(* The event hub                                                           *)

FrameSet ==
    [event : Events, topic : Topics, loop : {"topic", "global"}, next : Nat, busy : BOOLEAN,
     called : Seq(Handlers), shifts : Nat]

\* the places of the list a loop is past without having called who is there
Missed(f, list) == {k \in 1..(f.next - 1) : k > Len(list) \/ list[k] \notin ToSet(f.called)}

(* A loop has missed no more places than it was shifted by, and a loop     *)
(* never shifted none.                                                     *)
FrameOK(f, list) ==
    /\ f.next >= 1
    /\ Cardinality(Missed(f, list)) <= f.shifts
    /\ f.shifts = 0 => f.next - 1 <= Len(list) /\ f.called = SubSeq(list, 1, f.next - 1)
    /\ f.loop = "global" => f.shifts = 0

\* who was called has the event
Informed(f, had) == \A h \in ToSet(f.called) : Contains(had[h], f.event)

\* every event after f's own was published amid f's delivery
Amidst(f, count, during) ==
    /\ f.event <= count
    /\ \A e \in Events : f.event < e /\ e <= count => f.event \in during[e]

\* events come in ascending order, but for those published amid others
Ordered(had, count, during) ==
    /\ \A i \in DOMAIN had : had[i] <= count
    /\ \A i, j \in DOMAIN had : i < j /\ had[i] > had[j] => had[j] \in during[had[i]]

Latest(list, count) == \A i \in DOMAIN list : list[i] = (count - Len(list)) + i

ListFor(f, lists, every) == IF f.loop = "topic" THEN lists[f.topic] ELSE every

(* A publish under way.                                                    *)
FrameFine(f, list, had, count, during) ==
    FrameOK(f, list) /\ Informed(f, had) /\ Amidst(f, count, during)

HubIInv ==
    /\ HubTypeOK
    /\ \A i \in DOMAIN loops :
          FrameFine(loops[i], ListFor(loops[i], subscribers, everyTopic), received, eventCount, amid)
    /\ \A h \in Handlers : Ordered(received[h], eventCount, amid)
    /\ Latest(past, eventCount)

LEMMA MissedFinite ==
    ASSUME NEW f, NEW list, f.next \in Nat
    PROVE  IsFiniteSet(Missed(f, list)) /\ Cardinality(Missed(f, list)) \in Nat
<1> DEFINE places == 1..(f.next - 1)
<1>1. IsFiniteSet(places)
  BY FS_Interval
<1>2. Missed(f, list) \in SUBSET places
  BY DEF Missed
<1>3. IsFiniteSet(Missed(f, list))
  <2> HIDE DEF places
  <2> QED BY <1>1, <1>2, FS_Subset
<1> QED BY <1>3, FS_CardinalityType

(* Fewer missed places, and the rest of a loop as it was.                  *)
LEMMA MissedLess ==
    ASSUME NEW f, NEW list, f.next \in Nat, NEW g, NEW other, g.next \in Nat,
           Missed(g, other) \subseteq Missed(f, list)
    PROVE  Cardinality(Missed(g, other)) <= Cardinality(Missed(f, list))
<1>1. Missed(g, other) \in SUBSET Missed(f, list)
  OBVIOUS
<1>2. IsFiniteSet(Missed(f, list))
  BY MissedFinite
<1> QED BY <1>1, <1>2, FS_Subset

LEMMA GrownList ==
    ASSUME NEW f \in FrameSet, NEW list \in Seq(Handlers), NEW h \in Handlers, FrameOK(f, list)
    PROVE  FrameOK(f, Append(list, h))
<1> DEFINE more == Append(list, h)
<1>1. /\ f.next \in Nat /\ f.shifts \in Nat /\ f.next >= 1
      /\ Len(list) \in Nat /\ Len(more) = Len(list) + 1 /\ more \in Seq(Handlers)
      /\ \A i \in 1..Len(list) : more[i] = list[i]
  BY DEF FrameSet, FrameOK
<1>2. Missed(f, more) \subseteq Missed(f, list)
  <2> HIDE DEF more
  <2> QED BY <1>1 DEF Missed
<1>3. Cardinality(Missed(f, more)) <= f.shifts
  <2> HIDE DEF more
  <2>1. Cardinality(Missed(f, more)) <= Cardinality(Missed(f, list))
    BY <1>1, <1>2, MissedLess
  <2>2. Cardinality(Missed(f, more)) \in Nat /\ Cardinality(Missed(f, list)) \in Nat
    BY <1>1, MissedFinite
  <2> QED BY <1>1, <2>1, <2>2 DEF FrameOK
<1>4. ASSUME f.shifts = 0
      PROVE  f.next - 1 <= Len(more) /\ f.called = SubSeq(more, 1, f.next - 1)
  <2>1. f.next - 1 <= Len(list) /\ f.called = SubSeq(list, 1, f.next - 1)
    BY <1>4 DEF FrameOK
  <2>2. SubSeq(more, 1, f.next - 1) = SubSeq(list, 1, f.next - 1)
    <3> DEFINE m == f.next - 1
    <3>1. m \in Nat /\ m <= Len(list)
      BY <1>1, <2>1
    <3>2. SubSeq(more, 1, m) = [i \in 1..m |-> more[i]] /\ SubSeq(list, 1, m) = [i \in 1..m |-> list[i]]
      <4> HIDE DEF m, more
      <4> QED BY <1>1, <3>1
    <3>3. ASSUME NEW i \in 1..m PROVE more[i] = list[i]
      <4>1. i \in 1..Len(list)
        BY <1>1, <3>1
      <4> HIDE DEF m, more
      <4> QED BY <1>1, <4>1
    <3> HIDE DEF m, more
    <3>4. SubSeq(more, 1, m) = SubSeq(list, 1, m)
      BY <3>2, <3>3
    <3> QED BY <3>4 DEF m
  <2> QED BY <1>1, <2>1, <2>2
<1> QED BY <1>1, <1>3, <1>4 DEF FrameOK

LEMMA CalledFrame ==
    ASSUME NEW f \in FrameSet, NEW list \in Seq(Handlers), FrameOK(f, list), f.next <= Len(list)
    PROVE  FrameOK([f EXCEPT !.next = @ + 1, !.busy = TRUE, !.called = Append(@, list[f.next])],
                   list)
<1> DEFINE g == [f EXCEPT !.next = @ + 1, !.busy = TRUE, !.called = Append(@, list[f.next])]
           more == Append(f.called, list[f.next])
<1>1. /\ g.next = f.next + 1 /\ g.called = more /\ g.shifts = f.shifts /\ g.loop = f.loop
      /\ f.next \in Nat /\ f.shifts \in Nat /\ f.called \in Seq(Handlers) /\ f.next >= 1
  BY DEF FrameSet, FrameOK
<1>2. /\ list[f.next] \in Handlers /\ more \in Seq(Handlers) /\ Len(more) = Len(f.called) + 1
      /\ \A i \in 1..Len(f.called) : more[i] = f.called[i]
      /\ more[Len(f.called) + 1] = list[f.next] /\ Len(f.called) \in Nat
  BY <1>1
<1>3. ToSet(f.called) \subseteq ToSet(more) /\ list[f.next] \in ToSet(more)
  <2> HIDE DEF more
  <2>1. DOMAIN more = 1..(Len(f.called) + 1) /\ DOMAIN f.called = 1..Len(f.called)
    BY <1>1, <1>2
  <2> QED BY <1>2, <2>1 DEF ToSet
<1>4. Missed(g, list) \subseteq Missed(f, list)
  <2> HIDE DEF g, more
  <2>1. ASSUME NEW k \in Missed(g, list) PROVE k \in Missed(f, list)
    <3>1. k \in 1..f.next /\ (k > Len(list) \/ list[k] \notin ToSet(more))
      BY <1>1, <2>1 DEF Missed
    <3>2. k # f.next
      BY <1>1, <1>3, <3>1
    <3>3. k \in 1..(f.next - 1)
      BY <1>1, <3>1, <3>2
    <3> QED BY <1>3, <3>1, <3>3 DEF Missed
  <2> QED BY <2>1
<1>5. Cardinality(Missed(g, list)) <= f.shifts
  <2> HIDE DEF g
  <2>0. g.next \in Nat
    BY <1>1
  <2>1. Cardinality(Missed(g, list)) <= Cardinality(Missed(f, list))
    BY <1>1, <1>4, <2>0, MissedLess
  <2>2. Cardinality(Missed(g, list)) \in Nat /\ Cardinality(Missed(f, list)) \in Nat
    BY <1>1, <2>0, MissedFinite
  <2> QED BY <1>1, <2>1, <2>2 DEF FrameOK
<1>6. ASSUME f.shifts = 0 PROVE more = SubSeq(list, 1, f.next)
  <2> DEFINE m == f.next - 1
  <2>1. m \in Nat /\ m <= Len(list) /\ f.called = SubSeq(list, 1, m) /\ m + 1 = f.next
    BY <1>1, <1>6 DEF FrameOK
  <2>2. SubSeq(list, 1, m) = [i \in 1..m |-> list[i]]
    <3> HIDE DEF m
    <3> QED BY <2>1
  <2>3. Len(f.called) = m /\ \A i \in 1..m : f.called[i] = list[i]
    <3> HIDE DEF m
    <3> QED BY <2>1, <2>2
  <2>4. SubSeq(list, 1, f.next) = [i \in 1..f.next |-> list[i]]
    BY <1>1
  <2>5. more = [i \in 1..f.next |-> more[i]]
    <3>1. Len(more) = f.next
      BY <1>2, <2>1, <2>3
    <3>2. \A q \in Seq(Handlers) : q = [i \in 1..Len(q) |-> q[i]]
      OBVIOUS
    <3> HIDE DEF m, more
    <3> QED BY <1>2, <3>1, <3>2
  <2>6. ASSUME NEW i \in 1..f.next PROVE more[i] = list[i]
    <3>1. i \in 1..m \/ i = m + 1
      BY <1>1
    <3> HIDE DEF m, more
    <3> QED BY <1>2, <2>1, <2>3, <3>1
  <2> HIDE DEF more
  <2> QED BY <2>4, <2>5, <2>6
<1> HIDE DEF g
<1>7. g.next >= 1 /\ g.next - 1 = f.next
  BY <1>1
<1>8. FrameOK(g, list)
  BY <1>1, <1>5, <1>6, <1>7 DEF FrameOK
<1> QED BY <1>8 DEF g

LEMMA BusyFrame ==
    ASSUME NEW f \in FrameSet, NEW list, FrameOK(f, list)
    PROVE  FrameOK([f EXCEPT !.busy = FALSE], list)
<1> DEFINE g == [f EXCEPT !.busy = FALSE]
<1>1. g.next = f.next /\ g.called = f.called /\ g.shifts = f.shifts /\ g.loop = f.loop
  BY DEF FrameSet
<1> HIDE DEF g
<1>2. Missed(g, list) = Missed(f, list)
  BY <1>1 DEF Missed
<1>3. FrameOK(g, list)
  BY <1>1, <1>2 DEF FrameOK
<1> QED BY <1>3 DEF g

LEMMA NewFrame ==
    ASSUME NEW e, NEW t, NEW loop, NEW list \in Seq(Handlers)
    PROVE  FrameOK(Frame(e, t, loop, 1, FALSE, <<>>, 0), list)
<1> DEFINE f == Frame(e, t, loop, 1, FALSE, <<>>, 0)
<1>1. f.next = 1 /\ f.called = <<>> /\ f.shifts = 0
  BY DEF Frame
<1> HIDE DEF f
<1>2. Missed(f, list) = {}
  BY <1>1 DEF Missed
<1>3. SubSeq(list, 1, 1 - 1) = <<>> /\ Len(list) \in Nat /\ Cardinality({}) = 0
  BY FS_EmptySet
<1>4. FrameOK(f, list)
  BY <1>1, <1>2, <1>3 DEF FrameOK
<1> QED BY <1>4 DEF f

(* A list without one of its places.                                       *)
LEMMA RemoveAtFacts ==
    ASSUME NEW S, NEW list \in Seq(S), NEW gap \in 1..Len(list)
    PROVE  /\ RemoveAt(list, gap) \in Seq(S)
           /\ Len(RemoveAt(list, gap)) = Len(list) - 1
           /\ \A k \in 1..(Len(list) - 1) :
                 RemoveAt(list, gap)[k] = IF k < gap THEN list[k] ELSE list[k + 1]
<1> DEFINE n == Len(list)
           before == SubSeq(list, 1, gap - 1)
           rest == SubSeq(list, gap + 1, n)
<1>1. n \in Nat /\ gap \in Nat /\ gap >= 1 /\ gap <= n
  OBVIOUS
<1>2. before \in Seq(S) /\ Len(before) = gap - 1 /\ \A k \in 1..(gap - 1) : before[k] = list[k]
  BY <1>1
<1>3. rest \in Seq(S) /\ Len(rest) = n - gap /\ \A k \in 1..(n - gap) : rest[k] = list[gap + k]
  BY <1>1
<1>4. RemoveAt(list, gap) = before \o rest
  BY DEF RemoveAt
<1> HIDE DEF n, before, rest
<1>5. /\ before \o rest \in Seq(S) /\ Len(before \o rest) = n - 1
      /\ \A k \in 1..(n - 1) :
            (before \o rest)[k] = IF k <= gap - 1 THEN before[k] ELSE rest[k - (gap - 1)]
  <2>1. \A u, v \in Seq(S) :
          /\ u \o v \in Seq(S) /\ Len(u \o v) = Len(u) + Len(v)
          /\ \A k \in 1..(Len(u) + Len(v)) :
                (u \o v)[k] = IF k <= Len(u) THEN u[k] ELSE v[k - Len(u)]
    OBVIOUS
  <2>2. Len(before) + Len(rest) = n - 1
    BY <1>1, <1>2, <1>3
  <2>3. /\ before \o rest \in Seq(S) /\ Len(before \o rest) = Len(before) + Len(rest)
        /\ \A k \in 1..(Len(before) + Len(rest)) :
              (before \o rest)[k] = IF k <= Len(before) THEN before[k] ELSE rest[k - Len(before)]
    BY <1>2, <1>3, <2>1
  <2> QED BY <1>2, <2>2, <2>3
<1>6. ASSUME NEW k \in 1..(n - 1)
      PROVE  (before \o rest)[k] = IF k < gap THEN list[k] ELSE list[k + 1]
  <2>1. CASE k < gap
    BY <1>1, <1>2, <1>5, <2>1
  <2>2. CASE ~(k < gap)
    <3>1. k - (gap - 1) \in 1..(n - gap) /\ gap + (k - (gap - 1)) = k + 1 /\ ~(k <= gap - 1)
      BY <1>1, <2>2
    <3> QED BY <1>3, <1>5, <2>2, <3>1
  <2> QED BY <2>1, <2>2
<1> QED BY <1>4, <1>5, <1>6 DEF n

LEMMA ShrunkList ==
    ASSUME NEW f \in FrameSet, NEW list \in Seq(Handlers), FrameOK(f, list),
           NEW gap \in 1..Len(list)
    PROVE  /\ gap < f.next /\ f.loop = "topic" =>
                 FrameOK([f EXCEPT !.shifts = @ + 1], RemoveAt(list, gap))
           /\ ~(gap < f.next) => FrameOK(f, RemoveAt(list, gap))
<1> DEFINE less == RemoveAt(list, gap)
           g == [f EXCEPT !.shifts = @ + 1]
           n == Len(list)
<1>1. /\ f.next \in Nat /\ f.shifts \in Nat /\ f.next >= 1 /\ n \in Nat /\ gap \in Nat
      /\ 1 <= gap /\ gap <= n
      /\ g.next = f.next /\ g.called = f.called /\ g.shifts = f.shifts + 1 /\ g.loop = f.loop
  BY DEF FrameSet, FrameOK
<1>2. /\ less \in Seq(Handlers) /\ Len(less) = n - 1
      /\ \A k \in 1..(n - 1) : less[k] = IF k < gap THEN list[k] ELSE list[k + 1]
  BY RemoveAtFacts
<1> HIDE DEF less, g, n
<1>3. Cardinality(Missed(f, list)) <= f.shifts
  BY DEF FrameOK
<1>4. ASSUME ~(gap < f.next) PROVE FrameOK(f, less)
  <2>1. Missed(f, less) \subseteq Missed(f, list)
    <3>1. ASSUME NEW k \in Missed(f, less) PROVE k \in Missed(f, list)
      <4>1. k \in 1..(f.next - 1) /\ (k > n - 1 \/ less[k] \notin ToSet(f.called))
        BY <1>2, <3>1 DEF Missed
      <4>2. k < gap /\ k \in 1..(n - 1) /\ k \in 1..n
        BY <1>1, <1>4, <4>1
      <4>3. list[k] \notin ToSet(f.called)
        BY <1>1, <1>2, <4>1, <4>2
      <4> QED BY <4>1, <4>3 DEF Missed
    <3> QED BY <3>1
  <2>2. Cardinality(Missed(f, less)) <= f.shifts
    <3>1. Cardinality(Missed(f, less)) <= Cardinality(Missed(f, list))
      BY <1>1, <2>1, MissedLess
    <3>2. Cardinality(Missed(f, less)) \in Nat /\ Cardinality(Missed(f, list)) \in Nat
      BY <1>1, MissedFinite
    <3> QED BY <1>1, <1>3, <3>1, <3>2
  <2>3. ASSUME f.shifts = 0
        PROVE  f.next - 1 <= Len(less) /\ f.called = SubSeq(less, 1, f.next - 1)
    <3> DEFINE m == f.next - 1
    <3>1. m \in Nat /\ m <= n - 1 /\ m < gap
      BY <1>1, <1>4
    <3>2. f.called = SubSeq(list, 1, m)
      BY <2>3 DEF FrameOK
    <3> HIDE DEF m
    <3>3. SubSeq(less, 1, m) = [i \in 1..m |-> less[i]] /\ SubSeq(list, 1, m) = [i \in 1..m |-> list[i]]
      BY <1>1, <1>2, <3>1 DEF n
    <3>4. \A i \in 1..m : less[i] = list[i]
      BY <1>1, <1>2, <3>1
    <3>5. SubSeq(less, 1, m) = SubSeq(list, 1, m)
      BY <3>3, <3>4
    <3> QED BY <1>2, <3>1, <3>2, <3>5 DEF m
  <2> QED BY <2>2, <2>3 DEF FrameOK
<1>5. ASSUME gap < f.next, f.loop = "topic" PROVE FrameOK(g, less)
  <2> DEFINE last == f.next - 1
             rest == Missed(g, less) \ {last}
             was == [k \in rest |-> IF k < gap THEN k ELSE k + 1]
  <2>0. last \in Nat /\ last >= 1
    BY <1>1, <1>5
  <2>1. ASSUME NEW k \in rest PROVE was[k] \in Missed(f, list)
    <3>1. k \in 1..last /\ k # last /\ (k > n - 1 \/ less[k] \notin ToSet(f.called))
      BY <1>1, <1>2 DEF Missed
    <3>2. k + 1 \in 1..last /\ k \in Nat
      BY <2>0, <3>1
    <3>3. CASE k < gap
      <4>1. k \in 1..(n - 1)
        BY <1>1, <3>1, <3>3
      <4>2. list[k] \notin ToSet(f.called)
        BY <1>1, <1>2, <3>1, <3>3, <4>1
      <4>3. was[k] = k
        BY <3>3
      <4> QED BY <3>1, <4>2, <4>3 DEF Missed
    <3>4. CASE ~(k < gap)
      <4>1. was[k] = k + 1
        BY <3>4
      <4>2. k + 1 > n \/ list[k + 1] \notin ToSet(f.called)
        <5>1. CASE k > n - 1
          BY <1>1, <3>1, <5>1
        <5>2. CASE ~(k > n - 1)
          <6>1. k \in 1..(n - 1)
            BY <1>1, <3>1, <5>2
          <6> QED BY <1>2, <3>1, <3>4, <5>2, <6>1
        <5> QED BY <5>1, <5>2
      <4> QED BY <3>2, <4>1, <4>2 DEF Missed, n
    <3> QED BY <3>3, <3>4
  <2>2. ASSUME NEW j \in rest, NEW k \in rest, was[j] = was[k] PROVE j = k
    <3>1. j \in Nat /\ k \in Nat
      BY DEF Missed
    <3> QED BY <1>1, <2>2, <3>1
  <2>3. was \in Injection(rest, Missed(f, list))
    <3> HIDE DEF rest, last
    <3>1. was \in [rest -> Missed(f, list)]
      <4>1. was = [k \in rest |-> was[k]]
        OBVIOUS
      <4> HIDE DEF was
      <4> QED BY <2>1, <4>1
    <3> HIDE DEF was
    <3> QED BY <2>2, <3>1 DEF Injection, IsInjective
  <2>4. IsFiniteSet(rest) /\ Cardinality(rest) <= Cardinality(Missed(f, list))
    <3>1. IsFiniteSet(Missed(f, list))
      BY <1>1, MissedFinite
    <3> HIDE DEF rest, was
    <3> QED BY <2>3, <3>1, FS_Injection
  <2>5. Cardinality(Missed(g, less)) <= Cardinality(rest) + 1
    <3>1. /\ IsFiniteSet(rest \cup {last})
          /\ Cardinality(rest \cup {last})
               = IF last \in rest THEN Cardinality(rest) ELSE Cardinality(rest) + 1
      <4> HIDE DEF rest, last
      <4> QED BY <2>4, FS_AddElement
    <3>2. Missed(g, less) \in SUBSET (rest \cup {last})
      OBVIOUS
    <3>3. Cardinality(Missed(g, less)) <= Cardinality(rest \cup {last})
      <4> HIDE DEF rest, last
      <4> QED BY <3>1, <3>2, FS_Subset
    <3>4. last \notin rest
      OBVIOUS
    <3> HIDE DEF rest, last
    <3> QED BY <3>1, <3>3, <3>4
  <2>6. Cardinality(Missed(g, less)) <= g.shifts
    <3>1. Cardinality(Missed(g, less)) \in Nat /\ Cardinality(Missed(f, list)) \in Nat
      BY <1>1, MissedFinite
    <3>2. Cardinality(rest) \in Nat
      <4> HIDE DEF rest
      <4> QED BY <2>4, FS_CardinalityType
    <3> HIDE DEF rest
    <3> QED BY <1>1, <1>3, <2>4, <2>5, <3>1, <3>2
  <2> QED BY <1>1, <1>5, <2>6 DEF FrameOK
<1> QED BY <1>4, <1>5 DEF less, g

\* the handlers passed by a loop
PassedBy(f, list) == {list[k] : k \in {n \in DOMAIN list : n < f.next}}

LEMMA PassedAreFew ==
    ASSUME NEW f \in FrameSet, NEW list \in Seq(Handlers), FrameOK(f, list)
    PROVE  Cardinality(PassedBy(f, list) \ ToSet(f.called)) <= f.shifts
<1> DEFINE lost == PassedBy(f, list) \ ToSet(f.called)
           place == [x \in lost |-> CHOOSE k \in Missed(f, list) : list[k] = x]
<1>1. f.next \in Nat /\ f.shifts \in Nat
  BY DEF FrameSet
<1>2. ASSUME NEW x \in lost PROVE place[x] \in Missed(f, list) /\ list[place[x]] = x
  <2>1. PICK k \in DOMAIN list : k < f.next /\ list[k] = x
    BY DEF PassedBy
  <2>2. k \in 1..(f.next - 1) /\ x \notin ToSet(f.called)
    BY <1>1, <2>1
  <2>3. k \in Missed(f, list)
    BY <2>1, <2>2 DEF Missed
  <2>4. place[x] = CHOOSE j \in Missed(f, list) : list[j] = x
    OBVIOUS
  <2> HIDE DEF lost, place
  <2> QED BY <2>1, <2>3, <2>4
<1>3. place \in Injection(lost, Missed(f, list))
  <2>1. place = [x \in lost |-> place[x]]
    OBVIOUS
  <2> HIDE DEF lost, place
  <2>2. place \in [lost -> Missed(f, list)]
    BY <1>2, <2>1
  <2>3. \A x, y \in lost : place[x] = place[y] => x = y
    BY <1>2
  <2> QED BY <2>2, <2>3 DEF Injection, IsInjective
<1>4. IsFiniteSet(lost) /\ Cardinality(lost) <= Cardinality(Missed(f, list))
  <2>1. IsFiniteSet(Missed(f, list))
    BY <1>1, MissedFinite
  <2> HIDE DEF lost, place
  <2> QED BY <1>3, <2>1, FS_Injection
<1>5. Cardinality(lost) \in Nat /\ Cardinality(Missed(f, list)) \in Nat
  <2> HIDE DEF lost
  <2> QED BY <1>1, <1>4, MissedFinite, FS_CardinalityType
<1> HIDE DEF lost
<1>6. Cardinality(lost) <= f.shifts
  BY <1>1, <1>4, <1>5 DEF FrameOK
<1> QED BY <1>6 DEF lost

(* The parts of the type invariant that the steps need.                    *)
LEMMA HubTypes ==
    ASSUME HubTypeOK
    PROVE  /\ subscribers \in [Topics -> Seq(Handlers)] /\ everyTopic \in Seq(Handlers)
           /\ past \in Seq(Events) /\ Len(past) <= MaxHistory
           /\ loops \in Seq(FrameSet) /\ DOMAIN loops = 1..Len(loops) /\ Len(loops) \in Nat
           /\ Len(loops) <= MaxNesting
           /\ eventCount \in 0..MaxPublished /\ changes \in 0..MaxChanges
           /\ received \in [Handlers -> Seq(Events)] /\ amid \in [Events -> SUBSET Events]
           /\ MaxPublished \in Nat /\ MaxChanges \in Nat /\ MaxNesting \in Nat /\ MaxHistory \in Nat
           /\ MaxHistory >= 1
           /\ \A i \in DOMAIN loops :
                 loops[i] \in FrameSet /\ ListFor(loops[i], subscribers, everyTopic) \in Seq(Handlers)
<1>1. /\ loops \in Seq(FrameSet) /\ DOMAIN loops = 1..Len(loops) /\ Len(loops) \in Nat
      /\ subscribers \in [Topics -> Seq(Handlers)] /\ everyTopic \in Seq(Handlers)
  BY DEF HubTypeOK, FrameSet
<1>2. ASSUME NEW i \in DOMAIN loops
      PROVE  loops[i] \in FrameSet /\ ListFor(loops[i], subscribers, everyTopic) \in Seq(Handlers)
  <2>1. loops[i] \in FrameSet
    BY <1>1
  <2>2. loops[i].topic \in Topics
    BY <2>1 DEF FrameSet
  <2> QED BY <1>1, <2>1, <2>2 DEF ListFor
<1> QED BY <1>1, <1>2, HubAssumption DEF HubTypeOK

LEMMA HubInvImplies == HubIInv => HubTypeOK /\ HubDelivers
<1> SUFFICES ASSUME HubIInv PROVE HubDelivers
  BY DEF HubIInv
<1>0. HubTypeOK
  BY DEF HubIInv
<1>1. ASSUME NEW i \in DOMAIN loops
      PROVE  /\ loops[i].shifts = 0 =>
                    loops[i].called = SubSeq(LoopOf(loops[i]), 1, loops[i].next - 1)
             /\ \A h \in ToSet(loops[i].called) : Contains(received[h], loops[i].event)
             /\ Cardinality(PassedBy(loops[i], LoopOf(loops[i])) \ ToSet(loops[i].called))
                    <= loops[i].shifts
             /\ loops[i].loop = "global" => loops[i].shifts = 0
  <2> DEFINE f == loops[i]
             list == LoopOf(f)
  <2>1. f \in FrameSet /\ ListFor(f, subscribers, everyTopic) \in Seq(Handlers)
    BY <1>0, HubTypes
  <2>2. ListFor(f, subscribers, everyTopic) = list
    BY DEF ListFor, LoopOf
  <2>3. FrameOK(f, list) /\ Informed(f, received)
    BY <2>2 DEF HubIInv, FrameFine
  <2> HIDE DEF f, list
  <2>4. Cardinality(PassedBy(f, list) \ ToSet(f.called)) <= f.shifts
    BY <2>1, <2>2, <2>3, PassedAreFew
  <2>5. (f.shifts = 0 => f.called = SubSeq(list, 1, f.next - 1)) /\ (f.loop = "global" => f.shifts = 0)
    BY <2>3 DEF FrameOK
  <2>6. \A h \in ToSet(f.called) : Contains(received[h], f.event)
    BY <2>3 DEF Informed
  <2> QED BY <2>4, <2>5, <2>6 DEF f, list
<1>2. \A h \in Handlers : \A i, j \in DOMAIN received[h] :
          i < j /\ received[h][i] > received[h][j] => received[h][j] \in amid[received[h][i]]
  BY DEF HubIInv, Ordered
<1>3. \A i \in DOMAIN past : past[i] = eventCount - Len(past) + i
  BY DEF HubIInv, Latest
<1> QED BY <1>1, <1>2, <1>3 DEF HubDelivers, PassedBy

LEMMA HubInitHolds == HubInit => HubIInv
<1> SUFFICES ASSUME HubInit PROVE HubIInv
  OBVIOUS
<1>1. HubTypeOK
  BY HubAssumption DEF HubInit, HubTypeOK
<1>2. DOMAIN loops = {} /\ DOMAIN past = {} /\ \A h \in Handlers : DOMAIN received[h] = {}
  BY DEF HubInit
<1> QED BY <1>1, <1>2 DEF HubIInv, Ordered, Latest

(* What the state is before a step.                                        *)
LEMMA HubIs ==
    ASSUME HubIInv
    PROVE  /\ HubTypeOK
           /\ \A i \in DOMAIN loops :
                 /\ FrameOK(loops[i], ListFor(loops[i], subscribers, everyTopic))
                 /\ Informed(loops[i], received) /\ Amidst(loops[i], eventCount, amid)
           /\ \A h \in Handlers : Ordered(received[h], eventCount, amid)
           /\ Latest(past, eventCount)
BY DEF HubIInv, FrameFine

(* What it takes to be so after it.                                        *)
LEMMA HubWillBe ==
    ASSUME HubTypeOK',
           \A i \in DOMAIN loops' :
              /\ FrameOK(loops'[i], ListFor(loops'[i], subscribers', everyTopic'))
              /\ Informed(loops'[i], received') /\ Amidst(loops'[i], eventCount', amid'),
           \A h \in Handlers : Ordered(received'[h], eventCount', amid'),
           Latest(past', eventCount')
    PROVE  HubIInv'
BY DEF HubIInv, FrameFine

LEMMA SubscribeHub ==
    ASSUME HubIInv, NEW t \in Topics, NEW h \in Handlers, Subscribe(t, h)
    PROVE  HubIInv'
<1>1. HubTypeOK
  BY HubIs
<1>2. /\ subscribers' = [subscribers EXCEPT ![t] = Append(subscribers[t], h)]
      /\ changes' \in 0..MaxChanges
      /\ UNCHANGED <<everyTopic, past, loops, eventCount, received, amid>>
  BY <1>1, HubTypes DEF Subscribe, Changed
<1>3. subscribers' \in [Topics -> Seq(Handlers)]
  BY <1>1, <1>2, HubTypes
<1>4. HubTypeOK'
  BY <1>1, <1>2, <1>3 DEF HubTypeOK
<1>5. ASSUME NEW i \in DOMAIN loops
      PROVE  FrameOK(loops[i], ListFor(loops[i], subscribers', everyTopic))
  <2> DEFINE f == loops[i]
             list == ListFor(f, subscribers, everyTopic)
             after == ListFor(f, subscribers', everyTopic)
  <2>1. f \in FrameSet /\ list \in Seq(Handlers) /\ FrameOK(f, list)
    BY <1>1, HubTypes, HubIs
  <2>2. after = list \/ after = Append(list, h)
    BY <1>1, <1>2, <2>1, HubTypes DEF ListFor, FrameSet
  <2> HIDE DEF f, list, after
  <2>3. FrameOK(f, Append(list, h))
    BY <2>1, GrownList
  <2>4. FrameOK(f, after)
    BY <2>1, <2>2, <2>3
  <2> QED BY <2>4 DEF f, after
<1> QED BY <1>2, <1>4, <1>5, HubIs, HubWillBe

LEMMA SubscribeAllHub ==
    ASSUME HubIInv, NEW h \in Handlers, SubscribeAll(h)
    PROVE  HubIInv'
<1>1. HubTypeOK
  BY HubIs
<1>2. /\ everyTopic' = Append(everyTopic, h)
      /\ changes' \in 0..MaxChanges
      /\ UNCHANGED <<subscribers, past, loops, eventCount, received, amid>>
  BY <1>1, HubTypes DEF SubscribeAll, Changed
<1>4. HubTypeOK'
  <2>1. everyTopic' \in Seq(Handlers)
    BY <1>1, <1>2, HubTypes
  <2> QED BY <1>1, <1>2, <2>1 DEF HubTypeOK
<1>5. ASSUME NEW i \in DOMAIN loops
      PROVE  FrameOK(loops[i], ListFor(loops[i], subscribers, everyTopic'))
  <2> DEFINE f == loops[i]
             list == ListFor(f, subscribers, everyTopic)
             after == ListFor(f, subscribers, everyTopic')
  <2>1. f \in FrameSet /\ list \in Seq(Handlers) /\ FrameOK(f, list)
    BY <1>1, HubTypes, HubIs
  <2>2. after = list \/ after = Append(list, h)
    BY <1>2 DEF ListFor
  <2> HIDE DEF f, list, after
  <2>3. FrameOK(f, Append(list, h))
    BY <2>1, GrownList
  <2>4. FrameOK(f, after)
    BY <2>1, <2>2, <2>3
  <2> QED BY <2>4 DEF f, after
<1> QED BY <1>2, <1>4, <1>5, HubIs, HubWillBe

LEMMA UnsubscribeHub ==
    ASSUME HubIInv, NEW t \in Topics, NEW h \in Handlers, Unsubscribe(t, h)
    PROVE  HubIInv'
<1> DEFINE gap == CHOOSE i \in DOMAIN subscribers[t] : subscribers[t][i] = h
           Passed(f) == f.topic = t /\ f.loop = "topic" /\ gap < f.next
           Now(f) == IF Passed(f) THEN [f EXCEPT !.shifts = @ + 1] ELSE f
<1>1. HubTypeOK
  BY HubIs
<1>2. /\ subscribers' = [subscribers EXCEPT ![t] = RemoveAt(subscribers[t], gap)]
      /\ loops' = [i \in DOMAIN loops |-> Now(loops[i])]
      /\ Contains(subscribers[t], h) /\ changes' \in 0..MaxChanges
      /\ UNCHANGED <<everyTopic, past, eventCount, received, amid>>
  BY <1>1, HubTypes DEF Unsubscribe, Changed
<1>3. subscribers[t] \in Seq(Handlers) /\ gap \in 1..Len(subscribers[t])
  <2>1. subscribers[t] \in Seq(Handlers)
    BY <1>1, HubTypes
  <2>2. DOMAIN subscribers[t] = 1..Len(subscribers[t])
    BY <2>1
  <2> QED BY <1>2, <2>1, <2>2 DEF Contains
<1>4. /\ RemoveAt(subscribers[t], gap) \in Seq(Handlers)
      /\ subscribers' \in [Topics -> Seq(Handlers)]
  <2> HIDE DEF gap
  <2>1. RemoveAt(subscribers[t], gap) \in Seq(Handlers)
    BY <1>3, RemoveAtFacts
  <2> QED BY <1>1, <1>2, <2>1, HubTypes
<1> HIDE DEF gap
<1>5. ASSUME NEW i \in DOMAIN loops
      PROVE  /\ Now(loops[i]) \in FrameSet
             /\ Now(loops[i]).called = loops[i].called /\ Now(loops[i]).event = loops[i].event
             /\ Now(loops[i]).loop = loops[i].loop /\ Now(loops[i]).topic = loops[i].topic
  <2>1. loops[i] \in FrameSet
    BY <1>1, HubTypes
  <2>2. [loops[i] EXCEPT !.shifts = @ + 1] \in FrameSet
    BY <2>1 DEF FrameSet
  <2>3. CASE Passed(loops[i])
    BY <2>1, <2>2, <2>3 DEF FrameSet
  <2>4. CASE ~Passed(loops[i])
    BY <2>1, <2>4
  <2> QED BY <2>3, <2>4
<1>6. loops' \in Seq(FrameSet) /\ Len(loops') = Len(loops) /\ DOMAIN loops' = DOMAIN loops
  <2> HIDE DEF Now
  <2>1. DOMAIN loops = 1..Len(loops) /\ Len(loops) \in Nat
    BY <1>1, HubTypes
  <2>2. loops' \in [1..Len(loops) -> FrameSet]
    BY <1>2, <1>5, <2>1
  <2> QED BY <2>1, <2>2
<1>7. HubTypeOK'
  BY <1>1, <1>2, <1>4, <1>6 DEF HubTypeOK, FrameSet
<1>8. ASSUME NEW i \in DOMAIN loops
      PROVE  FrameOK(Now(loops[i]), ListFor(Now(loops[i]), subscribers', everyTopic))
  <2> DEFINE f == loops[i]
             list == ListFor(f, subscribers, everyTopic)
             after == ListFor(Now(f), subscribers', everyTopic)
  <2>1. f \in FrameSet /\ list \in Seq(Handlers) /\ FrameOK(f, list) /\ f.topic \in Topics
    BY <1>1, HubTypes, HubIs DEF FrameSet
  <2>2. Now(f).loop = f.loop /\ Now(f).topic = f.topic
    BY <1>5
  <2>3. CASE f.topic = t /\ f.loop = "topic"
    <3>1. list = subscribers[t] /\ after = RemoveAt(list, gap)
      BY <1>1, <1>2, <2>2, <2>3, HubTypes DEF ListFor
    <3>2. Now(f) = IF gap < f.next THEN [f EXCEPT !.shifts = @ + 1] ELSE f
      BY <2>3
    <3> HIDE DEF f, list, after, Now
    <3>3. /\ gap < f.next => FrameOK([f EXCEPT !.shifts = @ + 1], RemoveAt(list, gap))
          /\ ~(gap < f.next) => FrameOK(f, RemoveAt(list, gap))
      BY <1>3, <2>1, <2>3, <3>1, ShrunkList
    <3>4. FrameOK(Now(f), after)
      BY <3>1, <3>2, <3>3
    <3> QED BY <3>4 DEF f, after
  <2>4. CASE ~(f.topic = t /\ f.loop = "topic")
    <3>1. after = list
      BY <1>1, <1>2, <2>1, <2>2, <2>4, HubTypes DEF ListFor
    <3>2. Now(f) = f
      BY <2>4
    <3> HIDE DEF f, list, after, Now
    <3>3. FrameOK(Now(f), after)
      BY <2>1, <3>1, <3>2
    <3> QED BY <3>3 DEF f, after
  <2> QED BY <2>3, <2>4
<1>9. ASSUME NEW i \in DOMAIN loops'
      PROVE  /\ FrameOK(loops'[i], ListFor(loops'[i], subscribers', everyTopic'))
             /\ Informed(loops'[i], received') /\ Amidst(loops'[i], eventCount', amid')
  <2>1. i \in DOMAIN loops /\ loops'[i] = Now(loops[i])
    BY <1>2, <1>6
  <2>2. Informed(loops[i], received) /\ Amidst(loops[i], eventCount, amid)
    BY <2>1, HubIs
  <2>3. /\ FrameOK(Now(loops[i]), ListFor(Now(loops[i]), subscribers', everyTopic))
        /\ Now(loops[i]).called = loops[i].called /\ Now(loops[i]).event = loops[i].event
    BY <1>5, <1>8, <2>1
  <2> HIDE DEF Now
  <2> QED BY <1>2, <2>1, <2>2, <2>3 DEF Informed, Amidst
<1> QED BY <1>2, <1>7, <1>9, HubIs, HubWillBe

LEMMA ClearHub == ASSUME HubIInv, ClearHistory PROVE HubIInv'
<1>1. HubTypeOK
  BY HubIs
<1>2. /\ past' = <<>> /\ changes' \in 0..MaxChanges
      /\ UNCHANGED <<subscribers, everyTopic, loops, eventCount, received, amid>>
  BY <1>1, HubTypes DEF ClearHistory, Changed
<1>3. HubTypeOK'
  BY <1>1, <1>2, HubTypes DEF HubTypeOK
<1>4. Latest(past', eventCount')
  BY <1>2 DEF Latest
<1> QED BY <1>2, <1>3, <1>4, HubIs, HubWillBe

(* The history after one more event.                                       *)
LEMMA RememberedFacts ==
    ASSUME HubTypeOK, Latest(past, eventCount), eventCount < MaxPublished
    PROVE  /\ Remembered(eventCount + 1) \in Seq(Events)
           /\ Len(Remembered(eventCount + 1)) <= MaxHistory
           /\ Latest(Remembered(eventCount + 1), eventCount + 1)
<1> DEFINE n == Len(past)
           all == Append(past, eventCount + 1)
           cut == IF n + 1 > MaxHistory THEN (n + 1) - MaxHistory ELSE 0
           kept == SubSeq(all, 1 + cut, n + 1)
<1>1. /\ past \in Seq(Events) /\ n \in Nat /\ n <= MaxHistory /\ MaxHistory \in Nat /\ MaxHistory >= 1
      /\ eventCount \in Nat /\ MaxPublished \in Nat /\ eventCount + 1 \in Events
  BY HubTypes DEF Events
<1>2. /\ all \in Seq(Events) /\ Len(all) = n + 1 /\ all[n + 1] = eventCount + 1
      /\ \A i \in 1..n : all[i] = past[i]
  BY <1>1
<1>3. Remembered(eventCount + 1) = kept
  BY <1>2 DEF Remembered
<1> HIDE DEF all
<1>4. cut \in Nat /\ cut <= n /\ (n + 1) - cut <= MaxHistory
  BY <1>1
<1> HIDE DEF cut, n
<1>5. /\ kept \in Seq(Events) /\ Len(kept) = (n + 1) - cut
      /\ \A i \in 1..((n + 1) - cut) : kept[i] = all[cut + i]
  BY <1>1, <1>2, <1>4
<1>6. \A i \in 1..(n + 1) : all[i] = (eventCount - n) + i
  <2>1. ASSUME NEW i \in 1..n PROVE all[i] = (eventCount - n) + i
    <3>1. i \in DOMAIN past
      BY <1>1 DEF n
    <3> QED BY <1>2, <3>1 DEF Latest, n
  <2> QED BY <1>1, <1>2, <2>1
<1> HIDE DEF kept
<1>7. ASSUME NEW i \in DOMAIN kept
      PROVE  kept[i] = ((eventCount + 1) - Len(kept)) + i
  <2>1. i \in 1..((n + 1) - cut)
    BY <1>5
  <2>2. cut + i \in 1..(n + 1)
    BY <1>1, <1>4, <2>1
  <2>3. kept[i] = (eventCount - n) + (cut + i)
    BY <1>5, <1>6, <2>1, <2>2
  <2> QED BY <1>1, <1>4, <1>5, <2>1, <2>3
<1>8. Latest(kept, eventCount + 1)
  BY <1>7 DEF Latest
<1> QED BY <1>3, <1>4, <1>5, <1>8

LEMMA PublishHub ==
    ASSUME HubIInv, NEW t \in Topics, Publish(t)
    PROVE  HubIInv'
<1> DEFINE e == eventCount + 1
           new == Frame(e, t, "topic", 1, FALSE, <<>>, 0)
           n == Len(loops)
           around == {loops[i].event : i \in DOMAIN loops}
<1>1. HubTypeOK
  BY HubIs
<1>2. /\ eventCount < MaxPublished /\ n < MaxNesting
      /\ eventCount' = e /\ past' = Remembered(e) /\ loops' = Append(loops, new)
      /\ amid' = [amid EXCEPT ![e] = around]
      /\ UNCHANGED <<subscribers, everyTopic, received, changes>>
  BY DEF Publish
<1>3. /\ e \in Events /\ e \in 0..MaxPublished /\ eventCount \in Nat /\ n \in Nat /\ MaxNesting \in Nat
      /\ loops \in Seq(FrameSet) /\ DOMAIN loops = 1..n
  BY <1>1, <1>2, HubTypes DEF Events
<1>4. new \in FrameSet /\ new.event = e /\ new.called = <<>> /\ new.loop = "topic" /\ new.topic = t
  <2> HIDE DEF e
  <2> QED BY <1>3 DEF Frame, FrameSet
<1>5. around \subseteq Events
  BY <1>1, HubTypes DEF FrameSet
<1> HIDE DEF new, around
<1>6. /\ loops' \in Seq(FrameSet) /\ Len(loops') = n + 1 /\ DOMAIN loops' = 1..(n + 1)
      /\ loops'[n + 1] = new /\ \A i \in 1..n : loops'[i] = loops[i]
  BY <1>2, <1>3, <1>4
<1>7. amid' \in [Events -> SUBSET Events] /\ amid'[e] = around
      /\ \A d \in Events : d # e => amid'[d] = amid[d]
  <2> HIDE DEF e
  <2> QED BY <1>1, <1>2, <1>3, <1>5, HubTypes
<1>8. past' \in Seq(Events) /\ Len(past') <= MaxHistory /\ Latest(past', eventCount')
  BY <1>1, <1>2, RememberedFacts, HubIs
<1>9. HubTypeOK'
  <2>1. n + 1 <= MaxNesting
    BY <1>2, <1>3
  <2> HIDE DEF e, n
  <2> QED BY <1>1, <1>2, <1>3, <1>6, <1>7, <1>8, <2>1 DEF HubTypeOK, FrameSet
<1>10. ASSUME NEW i \in DOMAIN loops'
       PROVE  /\ FrameOK(loops'[i], ListFor(loops'[i], subscribers', everyTopic'))
              /\ Informed(loops'[i], received') /\ Amidst(loops'[i], eventCount', amid')
  <2>1. CASE i = n + 1
    <3>1. ListFor(new, subscribers, everyTopic) \in Seq(Handlers)
      BY <1>1, <1>4, HubTypes DEF ListFor
    <3>2. FrameOK(new, ListFor(new, subscribers, everyTopic))
      BY <3>1, NewFrame DEF new
    <3>3. Informed(new, received)
      BY <1>4 DEF Informed, ToSet
    <3>4. Amidst(new, e, amid')
      BY <1>3, <1>4 DEF Amidst, Events
    <3> QED BY <1>2, <1>6, <2>1, <3>2, <3>3, <3>4
  <2>2. CASE i \in 1..n
    <3>1. loops'[i] = loops[i] /\ i \in DOMAIN loops
      BY <1>3, <1>6, <2>2
    <3>2. /\ FrameOK(loops[i], ListFor(loops[i], subscribers, everyTopic))
          /\ Informed(loops[i], received) /\ Amidst(loops[i], eventCount, amid)
      BY <3>1, HubIs
    <3>3. loops[i].event \in Events /\ loops[i].event \in around
      BY <1>1, <3>1, HubTypes DEF FrameSet, around
    <3>4. Amidst(loops[i], e, amid')
      <4>1. loops[i].event <= e
        BY <1>3, <3>2, <3>3 DEF Amidst, Events
      <4>2. ASSUME NEW d \in Events, loops[i].event < d, d <= e
            PROVE  loops[i].event \in amid'[d]
        <5>1. CASE d = e
          BY <1>7, <3>3, <5>1
        <5>2. CASE d # e
          <6>1. d <= eventCount
            BY <1>3, <4>2, <5>2 DEF Events
          <6> HIDE DEF e
          <6> QED BY <1>7, <3>2, <4>2, <5>2, <6>1 DEF Amidst
        <5> QED BY <5>1, <5>2
      <4> HIDE DEF e
      <4> QED BY <4>1, <4>2 DEF Amidst
    <3> QED BY <1>2, <3>1, <3>2, <3>4
  <2>3. i = n + 1 \/ i \in 1..n
    BY <1>3, <1>6
  <2> QED BY <2>1, <2>2, <2>3
<1>11. ASSUME NEW h \in Handlers PROVE Ordered(received'[h], eventCount', amid')
  <2> DEFINE had == received[h]
  <2>1. had \in Seq(Events) /\ Ordered(had, eventCount, amid)
    BY <1>1, HubTypes, HubIs
  <2> HIDE DEF had
  <2>2. \A i \in DOMAIN had : had[i] \in Events /\ had[i] <= eventCount /\ had[i] # e /\ had[i] <= e
    <3>1. \A i \in DOMAIN had : had[i] \in Events /\ had[i] <= eventCount
      BY <2>1 DEF Ordered
    <3>2. \A m \in Events : m <= eventCount => m # e /\ m <= e
      BY <1>3 DEF Events
    <3> HIDE DEF e
    <3> QED BY <3>1, <3>2
  <2> HIDE DEF e
  <2>3. Ordered(had, e, amid')
    BY <1>7, <2>1, <2>2 DEF Ordered
  <2> QED BY <1>2, <2>3 DEF had
<1> QED BY <1>8, <1>9, <1>10, <1>11, HubWillBe

(* One more event in what a handler received.                              *)
LEMMA ContainsMore ==
    ASSUME NEW S, NEW s \in Seq(S), NEW e \in S
    PROVE  /\ Contains(Append(s, e), e)
           /\ \A d : Contains(s, d) => Contains(Append(s, e), d)
<1>1. /\ Len(Append(s, e)) = Len(s) + 1 /\ Append(s, e)[Len(s) + 1] = e /\ Len(s) \in Nat
      /\ \A i \in 1..Len(s) : Append(s, e)[i] = s[i]
  OBVIOUS
<1>2. Len(s) + 1 \in 1..(Len(s) + 1) /\ \A i \in 1..Len(s) : i \in 1..(Len(s) + 1)
  BY <1>1
<1> QED BY <1>1, <1>2 DEF Contains

LEMMA OrderedMore ==
    ASSUME NEW had \in Seq(Events), NEW f, f.event \in Events, NEW count \in Nat, NEW during,
           Ordered(had, count, during), Amidst(f, count, during)
    PROVE  Ordered(Append(had, f.event), count, during)
<1> DEFINE more == Append(had, f.event)
           n == Len(had)
<1>1. /\ n \in Nat /\ DOMAIN more = 1..(n + 1) /\ DOMAIN had = 1..n /\ more[n + 1] = f.event
      /\ \A i \in 1..n : more[i] = had[i]
  OBVIOUS
<1>2. \A i \in 1..n : had[i] \in Events /\ had[i] <= count
  BY <1>1 DEF Ordered
<1> HIDE DEF more, n
<1>3. \A i \in DOMAIN more : i \in 1..n \/ i = n + 1
  BY <1>1
<1>4. \A i \in DOMAIN more : more[i] <= count
  BY <1>1, <1>2, <1>3 DEF Amidst
<1>5. ASSUME NEW i \in DOMAIN more, NEW j \in DOMAIN more, i < j, more[i] > more[j]
      PROVE  more[j] \in during[more[i]]
  <2>1. i \in 1..n /\ (j \in 1..n \/ j = n + 1)
    BY <1>1, <1>3, <1>5
  <2>2. CASE j \in 1..n
    BY <1>1, <1>5, <2>1, <2>2 DEF Ordered
  <2>3. CASE j = n + 1
    BY <1>1, <1>2, <1>5, <2>1, <2>3 DEF Amidst, Events
  <2> QED BY <2>1, <2>2, <2>3
<1>6. Ordered(more, count, during)
  BY <1>4, <1>5 DEF Ordered
<1> QED BY <1>6 DEF more

LEMMA CallHub == ASSUME HubIInv, CallHandler PROVE HubIInv'
<1> DEFINE n == Len(loops)
           f == loops[n]
           list == ListFor(f, subscribers, everyTopic)
           who == list[f.next]
           g == [f EXCEPT !.next = @ + 1, !.busy = TRUE, !.called = Append(@, list[f.next])]
<1>1. HubTypeOK
  BY HubIs
<1>2. n \in 1..n /\ n \in Nat /\ DOMAIN loops = 1..n /\ loops \in Seq(FrameSet)
  <2>1. n # 0
    BY <1>1, HubTypes DEF CallHandler
  <2> QED BY <1>1, <2>1, HubTypes
<1>3. /\ f \in FrameSet /\ list \in Seq(Handlers)
      /\ FrameOK(f, list) /\ Informed(f, received) /\ Amidst(f, eventCount, amid)
  BY <1>1, <1>2, HubTypes, HubIs
<1>4. /\ f.next <= Len(list)
      /\ received' = [received EXCEPT ![who] = Append(received[who], f.event)]
      /\ loops' = [loops EXCEPT ![n] = g]
      /\ UNCHANGED <<subscribers, everyTopic, past, eventCount, amid, changes>>
  <2>1. LoopOf(f) = list
    BY DEF ListFor, LoopOf
  <2> QED BY <2>1 DEF CallHandler, Last, EventOf
<1>5. who \in Handlers /\ f.event \in Events /\ f.called \in Seq(Handlers) /\ f.next \in Nat
  <2>1. f.next \in 1..Len(list)
    BY <1>3, <1>4 DEF FrameSet, FrameOK
  <2> HIDE DEF f, list
  <2> QED BY <1>3, <2>1 DEF FrameSet
<1>6. /\ g \in FrameSet /\ g.event = f.event /\ g.called = Append(f.called, who)
      /\ g.loop = f.loop /\ g.topic = f.topic
  <2>1. f.next + 1 \in Nat /\ Append(f.called, who) \in Seq(Handlers)
    BY <1>5
  <2> DEFINE next == f.next + 1
             called == Append(f.called, who)
  <2>2. g = [f EXCEPT !.next = next, !.busy = TRUE, !.called = called]
    OBVIOUS
  <2>3. next \in Nat /\ called \in Seq(Handlers)
    BY <2>1
  <2> HIDE DEF g, f, list, next, called
  <2>4. g \in FrameSet /\ g.called = called /\ g.event = f.event /\ g.loop = f.loop /\ g.topic = f.topic
    BY <1>3, <2>2, <2>3 DEF FrameSet
  <2> QED BY <2>4 DEF called
<1>7. FrameOK(g, list)
  <2> HIDE DEF f, list
  <2> QED BY <1>3, <1>4, CalledFrame
<1> HIDE DEF n, f, list, who, g
<1>8. /\ loops' \in Seq(FrameSet) /\ Len(loops') = n /\ DOMAIN loops' = 1..n
      /\ loops'[n] = g /\ \A i \in 1..n : i # n => loops'[i] = loops[i]
  BY <1>2, <1>4, <1>6
<1>9. /\ received' \in [Handlers -> Seq(Events)] /\ received'[who] = Append(received[who], f.event)
      /\ \A h \in Handlers : h # who => received'[h] = received[h]
      /\ \A h \in Handlers : received[h] \in Seq(Events)
  <2>1. received \in [Handlers -> Seq(Events)]
    BY <1>1, HubTypes
  <2> QED BY <1>4, <1>5, <2>1
<1>10. HubTypeOK'
  BY <1>1, <1>2, <1>4, <1>8, <1>9 DEF HubTypeOK, FrameSet, n
<1>11. \A h \in Handlers : \A d : Contains(received[h], d) => Contains(received'[h], d)
  <2>1. \A d : Contains(received[who], d) => Contains(Append(received[who], f.event), d)
    BY <1>5, <1>9, ContainsMore
  <2> QED BY <1>9, <2>1
<1>12. Contains(received'[who], f.event)
  BY <1>5, <1>9, ContainsMore
<1>13. ASSUME NEW i \in DOMAIN loops'
       PROVE  /\ FrameOK(loops'[i], ListFor(loops'[i], subscribers', everyTopic'))
              /\ Informed(loops'[i], received') /\ Amidst(loops'[i], eventCount', amid')
  <2>1. CASE i = n
    <3>1. ListFor(g, subscribers, everyTopic) = list
      BY <1>6 DEF ListFor, list
    <3>2. Informed(g, received')
      <4>1. ToSet(g.called) \subseteq ToSet(f.called) \cup {who}
        BY <1>5, <1>6 DEF ToSet
      <4>2. ToSet(f.called) \subseteq Handlers
        BY <1>5 DEF ToSet
      <4> QED BY <1>3, <1>6, <1>11, <1>12, <4>1, <4>2 DEF Informed
    <3>3. Amidst(g, eventCount, amid)
      BY <1>3, <1>6 DEF Amidst
    <3> QED BY <1>4, <1>7, <1>8, <2>1, <3>1, <3>2, <3>3
  <2>2. CASE i # n
    <3>1. i \in DOMAIN loops /\ loops'[i] = loops[i]
      BY <1>2, <1>8, <2>2
    <3>2. /\ FrameOK(loops[i], ListFor(loops[i], subscribers, everyTopic))
          /\ Informed(loops[i], received) /\ Amidst(loops[i], eventCount, amid)
      BY <3>1, HubIs
    <3>3. Informed(loops[i], received')
      <4>1. ToSet(loops[i].called) \subseteq Handlers
        <5>1. loops[i].called \in Seq(Handlers)
          BY <1>1, <3>1, HubTypes DEF FrameSet
        <5> QED BY <5>1 DEF ToSet
      <4> QED BY <1>11, <3>2, <4>1 DEF Informed
    <3> QED BY <1>4, <3>1, <3>2, <3>3
  <2> QED BY <2>1, <2>2
<1>14. ASSUME NEW h \in Handlers PROVE Ordered(received'[h], eventCount', amid')
  <2>1. Ordered(received[h], eventCount, amid) /\ eventCount \in Nat
    BY <1>1, HubTypes, HubIs
  <2>2. h = who => Ordered(Append(received[h], f.event), eventCount, amid)
    BY <1>3, <1>5, <1>9, <2>1, OrderedMore
  <2> QED BY <1>4, <1>9, <2>1, <2>2
<1> QED BY <1>4, <1>10, <1>13, <1>14, HubIs, HubWillBe

LEMMA EndsHub == ASSUME HubIInv, HandlerEnds PROVE HubIInv'
<1> DEFINE n == Len(loops)
           f == loops[n]
           g == [f EXCEPT !.busy = FALSE]
<1>1. HubTypeOK
  BY HubIs
<1>2. n \in 1..n /\ n \in Nat /\ DOMAIN loops = 1..n /\ loops \in Seq(FrameSet)
  <2>1. n # 0
    BY <1>1, HubTypes DEF HandlerEnds
  <2> QED BY <1>1, <2>1, HubTypes
<1>3. /\ f \in FrameSet /\ FrameOK(f, ListFor(f, subscribers, everyTopic))
      /\ Informed(f, received) /\ Amidst(f, eventCount, amid)
  BY <1>1, <1>2, HubTypes, HubIs
<1>4. /\ loops' = [loops EXCEPT ![n] = g]
      /\ UNCHANGED <<subscribers, everyTopic, past, eventCount, received, amid, changes>>
  BY DEF HandlerEnds
<1>5. /\ g \in FrameSet /\ g.event = f.event /\ g.called = f.called
      /\ g.loop = f.loop /\ g.topic = f.topic
  <2> HIDE DEF f
  <2> QED BY <1>3 DEF FrameSet
<1>6. FrameOK(g, ListFor(f, subscribers, everyTopic))
  <2> HIDE DEF f
  <2> QED BY <1>3, BusyFrame
<1> HIDE DEF n, f, g
<1>7. /\ loops' \in Seq(FrameSet) /\ Len(loops') = n /\ DOMAIN loops' = 1..n
      /\ loops'[n] = g /\ \A i \in 1..n : i # n => loops'[i] = loops[i]
  BY <1>2, <1>4, <1>5
<1>8. HubTypeOK'
  BY <1>1, <1>4, <1>7 DEF HubTypeOK, FrameSet, n
<1>9. ASSUME NEW i \in DOMAIN loops
      PROVE  /\ FrameOK(loops'[i], ListFor(loops'[i], subscribers, everyTopic))
             /\ Informed(loops'[i], received) /\ Amidst(loops'[i], eventCount, amid)
  <2>1. CASE i = n
    <3>1. ListFor(g, subscribers, everyTopic) = ListFor(f, subscribers, everyTopic)
      BY <1>5 DEF ListFor
    <3>2. Informed(g, received) /\ Amidst(g, eventCount, amid)
      BY <1>3, <1>5 DEF Informed, Amidst
    <3> QED BY <1>6, <1>7, <2>1, <3>1, <3>2
  <2>2. CASE i # n
    BY <1>2, <1>7, <2>2, HubIs
  <2> QED BY <2>1, <2>2
<1> QED BY <1>2, <1>4, <1>7, <1>8, <1>9, HubIs, HubWillBe

LEMMA EndLoopHub == ASSUME HubIInv, EndLoop PROVE HubIInv'
<1> DEFINE n == Len(loops)
           f == loops[n]
           rest == Front(loops)
           new == Frame(f.event, f.topic, "global", 1, FALSE, <<>>, 0)
<1>1. HubTypeOK
  BY HubIs
<1>2. n \in 1..n /\ n \in Nat /\ DOMAIN loops = 1..n /\ loops \in Seq(FrameSet) /\ n - 1 \in Nat
  <2>1. n # 0
    BY <1>1, HubTypes DEF EndLoop
  <2> QED BY <1>1, <2>1, HubTypes
<1>3. f \in FrameSet /\ Amidst(f, eventCount, amid)
  BY <1>1, <1>2, HubTypes, HubIs
<1>4. /\ loops' = IF f.loop = "topic" THEN Append(rest, new) ELSE rest
      /\ UNCHANGED <<subscribers, everyTopic, past, eventCount, received, amid, changes>>
  BY DEF EndLoop, Last
<1>5. new \in FrameSet /\ new.event = f.event /\ new.called = <<>> /\ new.loop = "global"
  <2>1. f.event \in Events /\ f.topic \in Topics
    BY <1>3 DEF FrameSet
  <2> HIDE DEF f
  <2> QED BY <2>1 DEF Frame, FrameSet
<1>6. rest \in Seq(FrameSet) /\ Len(rest) = n - 1 /\ \A i \in 1..(n - 1) : rest[i] = loops[i]
  <2> HIDE DEF n
  <2>1. rest = SubSeq(loops, 1, n - 1)
    BY DEF Front, n
  <2>2. Len(loops) = n
    BY DEF n
  <2> HIDE DEF rest
  <2> QED BY <1>2, <2>1, <2>2
<1>7. ASSUME NEW i \in 1..(n - 1)
      PROVE  /\ FrameOK(rest[i], ListFor(rest[i], subscribers, everyTopic))
             /\ Informed(rest[i], received) /\ Amidst(rest[i], eventCount, amid)
  <2>1. i \in DOMAIN loops
    BY <1>2
  <2> QED BY <1>6, <2>1, HubIs
<1>8. /\ FrameOK(new, ListFor(new, subscribers, everyTopic))
      /\ Informed(new, received) /\ Amidst(new, eventCount, amid)
  <2>1. ListFor(new, subscribers, everyTopic) \in Seq(Handlers)
    BY <1>1, <1>5, HubTypes DEF ListFor
  <2>2. FrameOK(new, ListFor(new, subscribers, everyTopic))
    BY <2>1, NewFrame
  <2>3. Informed(new, received)
    <3>1. ToSet(<<>>) = {}
      BY DEF ToSet
    <3>2. ToSet(new.called) = {}
      BY <1>5, <3>1
    <3> QED BY <3>2 DEF Informed
  <2> QED BY <1>3, <1>5, <2>2, <2>3 DEF Amidst
<1>9. n <= MaxNesting /\ MaxNesting \in Nat
  BY <1>1, HubTypes
<1> HIDE DEF n, f, rest, new
<1>10. CASE f.loop = "topic"
  <2>1. loops' = Append(rest, new)
    BY <1>4, <1>10
  <2>2. /\ loops' \in Seq(FrameSet) /\ Len(loops') = n /\ DOMAIN loops' = 1..n
        /\ loops'[n] = new /\ \A i \in 1..(n - 1) : loops'[i] = rest[i]
    BY <1>2, <1>5, <1>6, <2>1
  <2>3. HubTypeOK'
    BY <1>1, <1>4, <1>9, <2>2 DEF HubTypeOK, FrameSet
  <2>4. \A i \in 1..n : i = n \/ i \in 1..(n - 1)
    BY <1>2
  <2>5. ASSUME NEW i \in DOMAIN loops'
        PROVE  /\ FrameOK(loops'[i], ListFor(loops'[i], subscribers, everyTopic))
               /\ Informed(loops'[i], received) /\ Amidst(loops'[i], eventCount, amid)
    BY <1>7, <1>8, <2>2, <2>4
  <2> QED BY <1>4, <2>3, <2>5, HubIs, HubWillBe
<1>11. CASE f.loop # "topic"
  <2>1. loops' = rest /\ DOMAIN rest = 1..(n - 1)
    BY <1>2, <1>4, <1>6, <1>11
  <2>2. n - 1 <= MaxNesting
    BY <1>2, <1>9
  <2>3. HubTypeOK'
    BY <1>1, <1>4, <1>6, <2>1, <2>2 DEF HubTypeOK, FrameSet
  <2> QED BY <1>4, <1>7, <2>1, <2>3, HubIs, HubWillBe
<1> QED BY <1>10, <1>11

LEMMA HubStep == HubIInv /\ [HubNext]_hubVars => HubIInv'
<1>1. HubIInv /\ UNCHANGED hubVars => HubIInv'
  BY DEF hubVars, HubIInv, HubTypeOK, Ordered, Latest
<1> QED BY <1>1, SubscribeHub, SubscribeAllHub, UnsubscribeHub, PublishHub, ClearHub, CallHub,
           EndsHub, EndLoopHub DEF HubNext

(* HubDelivers: a publish reaches its handlers with its own event and in   *)
(* order; a handler that unsubscribes may cost another the event, nothing  *)
(* else does; events overtake each other only when one is published during *)
(* the delivery of the other (infrastructure/event_bus.py).                *)
THEOREM EventsAreDelivered == HubSpec => [](HubTypeOK /\ HubDelivers)
BY HubInitHolds, HubStep, HubInvImplies, PTL DEF HubSpec

-----------------------------------------------------------------------------
(* Bars of trades                                                          *)

BarSet ==
    [open : Nat, high : Nat, low : Nat, close : Nat, volume : Nat, trades : Nat,
     start : -1..LastTick, weighted : BOOLEAN, num : Nat, den : Nat]

\* the bar has the sums of an average price between its low and its high
Averaged(b) ==
    b.weighted /\ b.den = b.volume /\ b.low * b.den <= b.num /\ b.num <= b.high * b.den

\* what was traded in the interval that begins at start
Traded(volumes, seconds, start) ==
    SumFunctionOnSet(volumes, {t \in 0..LastTick : Floor(t, seconds) = start})

MultipleOf(m, s) == \E q \in Nat : m = s * q

(* The bars of one length of time: no tick is of an interval after the     *)
(* current bar's.                                                          *)
TimeBars(list, last, volumes, seconds) ==
    /\ MultipleOf(last.start, seconds) /\ last.volume = Traded(volumes, seconds, last.start)
    /\ \A t \in 0..LastTick : volumes[t] > 0 => Floor(t, seconds) <= last.start
    /\ \A i \in DOMAIN list : /\ list[i].start < last.start
                              /\ list[i].volume = Traded(volumes, seconds, list[i].start)
    /\ \A i, j \in DOMAIN list : i < j => list[i].start < list[j].start

OpenBar ==
    /\ bar = NoBar => /\ uses = {} /\ bars = <<>> /\ tickList = 0 /\ keptOut = 0
                      /\ \A t \in 0..LastTick : volumeAt[t] = 0
    /\ bar # NoBar => uses # {} /\ bar.start >= 0

BarsCount ==
    /\ BarVolumes + keptOut = TotalOffered
    /\ keptOut > 0 => bar # NoBar /\ ~bar.weighted

BarsOfTime == 0 \notin uses /\ bar # NoBar => tickList = bar.trades /\ Averaged(bar)

BarsOfVolume ==
    uses = {0} => /\ \A i \in DOMAIN bars : bars[i].volume >= TargetVolume
                  /\ bar.volume >= TargetVolume => bar.trades = 1 /\ bars = <<>>

BarsOfOneLength ==
    \A seconds \in Frames : uses = {seconds} /\ ~late => TimeBars(bars, bar, volumeAt, seconds)

BarsIInv ==
    /\ BarsTypeOK /\ OpenBar /\ BarsCount /\ BarsOfTime /\ BarsOfVolume /\ BarsOfOneLength

LEMMA BarsTypes ==
    ASSUME BarsTypeOK
    PROVE  /\ bar \in BarSet /\ bars \in Seq(BarSet) /\ tickList \in Nat /\ keptOut \in Nat
           /\ uses \subseteq Frames \cup {0} /\ late \in BOOLEAN /\ volumeAt \in [0..LastTick -> Nat]
           /\ LastTick \in Nat /\ TargetVolume \in Nat /\ TargetVolume >= 1
           /\ \A s \in Frames : s \in Nat /\ s >= 1
           /\ bar.volume \in Nat /\ bar.trades \in Nat
BY BarsAssumption DEF BarsTypeOK, BarSet

LEMMA NoBarFacts == NoBar \in BarSet /\ NoBar.start = -1 /\ NoBar.volume = 0 /\ ~NoBar.weighted
<1>1. -1 \in -1..LastTick
  BY BarsAssumption
<1> QED BY <1>1 DEF NoBar, BarOf, BarSet

(* The floor of a time.                                                    *)
LEMMA FloorIs ==
    ASSUME NEW t \in Nat, NEW s \in Nat, s >= 1
    PROVE  Floor(t, s) \in 0..t /\ t < Floor(t, s) + s /\ MultipleOf(Floor(t, s), s)
<1> DEFINE r == t % s
           q == t \div s
           m == s * q
<1>1. r \in 0..(s - 1) /\ q \in Int /\ t = s * q + r
  OBVIOUS
<1>2. Floor(t, s) = t - r
  BY DEF Floor
<1>3. m \in Int /\ t = m + r
  BY <1>1
<1>4. q >= 0
  <2>1. \A a \in Int : a <= -1 => s * a <= -s
    OBVIOUS
  <2>2. q <= -1 => m <= -s
    BY <1>1, <2>1
  <2> HIDE DEF r, q, m
  <2> QED BY <1>1, <1>3, <2>2
<1>5. m >= 0
  BY <1>1, <1>4
<1>6. MultipleOf(m, s)
  <2>1. q \in Nat /\ m = s * q
    BY <1>1, <1>4
  <2> HIDE DEF q, m
  <2> QED BY <2>1 DEF MultipleOf
<1> HIDE DEF r, q, m
<1>7. Floor(t, s) = m
  BY <1>1, <1>2, <1>3
<1> QED BY <1>1, <1>3, <1>5, <1>6, <1>7

(* No multiple lies between the floor of a time and the time.              *)
LEMMA FloorOver ==
    ASSUME NEW t \in Nat, NEW s \in Nat, s >= 1, NEW m \in Nat, MultipleOf(m, s), m <= t
    PROVE  m <= Floor(t, s)
<1> DEFINE f == Floor(t, s)
<1>1. f \in Nat /\ t < f + s /\ MultipleOf(f, s)
  BY FloorIs
<1>2. PICK q \in Nat : f = s * q
  BY <1>1 DEF MultipleOf
<1>3. PICK p \in Nat : m = s * p
  BY DEF MultipleOf
<1> HIDE DEF f
<1>4. \A a \in Int : a >= 1 => s * a >= s
  OBVIOUS
<1>5. \A a \in Int : a <= 0 => s * a <= 0
  OBVIOUS
<1> DEFINE d == p - q
           e == s * d
<1>6. d \in Int /\ e \in Int /\ e = m - f
  BY <1>2, <1>3
<1>7. (d >= 1 => e >= s) /\ (d <= 0 => e <= 0)
  BY <1>4, <1>5, <1>6
<1> HIDE DEF d, e
<1>8. d >= 1 \/ d <= 0
  BY <1>6
<1>9. m <= f
  BY <1>1, <1>6, <1>7, <1>8
<1> QED BY <1>9 DEF f

(* The bar a tick makes of another.                                        *)
LEMMA ExtendedFacts ==
    ASSUME NEW b \in BarSet, NEW price \in Nat, NEW qty \in Nat
    PROVE  LET e == Extended(b, price, qty) IN
           /\ e \in BarSet /\ e.start = b.start /\ e.weighted = b.weighted
           /\ e.num = b.num /\ e.den = b.den
           /\ e.volume = b.volume + qty /\ e.trades = b.trades + 1
           /\ e.high = (IF price > b.high THEN price ELSE b.high)
           /\ e.low = (IF price < b.low THEN price ELSE b.low)
<1> DEFINE high == IF price > b.high THEN price ELSE b.high
           low == IF price < b.low THEN price ELSE b.low
           volume == b.volume + qty
           trades == b.trades + 1
<1>1. high \in Nat /\ low \in Nat /\ volume \in Nat /\ trades \in Nat
  BY DEF BarSet
<1>2. Extended(b, price, qty)
        = [b EXCEPT !.high = high, !.low = low, !.close = price, !.volume = volume, !.trades = trades]
  BY DEF Extended
<1> DEFINE e == Extended(b, price, qty)
<1> HIDE DEF high, low, volume, trades, e
<1>3. /\ e \in BarSet /\ e.start = b.start /\ e.weighted = b.weighted
      /\ e.num = b.num /\ e.den = b.den
      /\ e.volume = volume /\ e.trades = trades /\ e.high = high /\ e.low = low
  BY <1>1, <1>2 DEF BarSet, e
<1> QED BY <1>3 DEF e, high, low, volume, trades

LEMMA WeighedFacts ==
    ASSUME NEW b \in BarSet, NEW price \in Nat, NEW qty \in Nat
    PROVE  LET w == Weighed(b, price, qty) IN
           /\ w \in BarSet /\ w.start = b.start /\ w.weighted = b.weighted
           /\ w.volume = b.volume /\ w.trades = b.trades
           /\ w.high = b.high /\ w.low = b.low
           /\ b.weighted => w.num = b.num + price * qty /\ w.den = b.den + qty
<1> DEFINE num == b.num + price * qty
           den == b.den + qty
<1>1. num \in Nat /\ den \in Nat
  <2>1. price * qty \in Nat
    OBVIOUS
  <2> QED BY <2>1 DEF BarSet
<1>2. Weighed(b, price, qty) = IF b.weighted THEN [b EXCEPT !.num = num, !.den = den] ELSE b
  BY DEF Weighed
<1> DEFINE w == Weighed(b, price, qty)
<1> HIDE DEF num, den, w
<1>3. /\ w \in BarSet /\ w.start = b.start /\ w.weighted = b.weighted
      /\ w.volume = b.volume /\ w.trades = b.trades
      /\ w.high = b.high /\ w.low = b.low
      /\ b.weighted => w.num = num /\ w.den = den
  <2>1. CASE b.weighted
    BY <1>1, <1>2, <2>1 DEF BarSet, w
  <2>2. CASE ~b.weighted
    BY <1>2, <2>2 DEF w
  <2> QED BY <2>1, <2>2
<1> QED BY <1>3 DEF w, num, den

LEMMA OpenedFacts ==
    ASSUME NEW price \in Nat, NEW qty \in Nat, NEW trades \in Nat, NEW start \in 0..LastTick
    PROVE  /\ TimeBar(price, qty, start) \in BarSet /\ TimeBar(price, qty, start).start = start
           /\ TimeBar(price, qty, start).volume = qty /\ TimeBar(price, qty, start).trades = 1
           /\ TimeBar(price, qty, start).weighted
           /\ Averaged(TimeBar(price, qty, start))
           /\ VolumeBar(price, qty, trades, start) \in BarSet
           /\ VolumeBar(price, qty, trades, start).start = start
           /\ VolumeBar(price, qty, trades, start).volume = qty
           /\ VolumeBar(price, qty, trades, start).trades = trades
           /\ ~VolumeBar(price, qty, trades, start).weighted
<1>1. price * qty \in Nat /\ start \in -1..LastTick /\ price * qty <= price * qty
  BY BarsAssumption
<1> DEFINE num == price * qty
<1>2. TimeBar(price, qty, start)
         = [open |-> price, high |-> price, low |-> price, close |-> price, volume |-> qty,
            trades |-> 1, start |-> start, weighted |-> TRUE, num |-> num, den |-> qty]
  BY DEF TimeBar, BarOf
<1>3. num \in Nat /\ num = price * qty /\ num <= num
  BY <1>1
<1> HIDE DEF num
<1>4. TimeBar(price, qty, start) \in BarSet /\ Averaged(TimeBar(price, qty, start))
  BY <1>1, <1>2, <1>3 DEF BarSet, Averaged
<1>5. VolumeBar(price, qty, trades, start) \in BarSet
  BY <1>1 DEF VolumeBar, BarOf, BarSet
<1> QED BY <1>2, <1>4, <1>5 DEF VolumeBar, BarOf

(* A tick of an averaged bar leaves it averaged.                           *)
LEMMA AveragedMore ==
    ASSUME NEW b \in BarSet, Averaged(b), NEW price \in Nat, NEW qty \in Nat
    PROVE  Averaged(Weighed(Extended(b, price, qty), price, qty))
<1> DEFINE e == Extended(b, price, qty)
           w == Weighed(e, price, qty)
<1>1. /\ e \in BarSet /\ e.weighted = b.weighted /\ e.num = b.num /\ e.den = b.den
      /\ e.volume = b.volume + qty
      /\ e.high = (IF price > b.high THEN price ELSE b.high)
      /\ e.low = (IF price < b.low THEN price ELSE b.low)
  BY ExtendedFacts
<1> HIDE DEF e
<1>2. /\ w.weighted = e.weighted /\ w.volume = e.volume /\ w.high = e.high /\ w.low = e.low
      /\ e.weighted => w.num = e.num + price * qty /\ w.den = e.den + qty
  BY <1>1, WeighedFacts
<1> HIDE DEF w
<1>3. /\ b.weighted /\ b.den = b.volume /\ b.low * b.den <= b.num /\ b.num <= b.high * b.den
      /\ b.den \in Nat /\ b.num \in Nat /\ b.low \in Nat /\ b.high \in Nat
  BY DEF Averaged, BarSet
<1>4. /\ w.weighted /\ w.den = b.den + qty /\ w.volume = b.volume + qty
      /\ w.num = b.num + price * qty
      /\ w.high = (IF price > b.high THEN price ELSE b.high)
      /\ w.low = (IF price < b.low THEN price ELSE b.low)
  BY <1>1, <1>2, <1>3
<1>5. \A k, m, n \in Nat : k <= m => k * n <= m * n
  OBVIOUS
<1>6. \A k, m, n \in Nat : k * (m + n) = k * m + k * n /\ k * m \in Nat
  OBVIOUS
<1>7. w.low \in Nat /\ w.low <= b.low /\ w.low <= price
      /\ w.high \in Nat /\ b.high <= w.high /\ price <= w.high
  BY <1>3, <1>4
<1>8. w.low * w.den <= w.num
  <2>1. w.low * (b.den + qty) = w.low * b.den + w.low * qty
    BY <1>3, <1>6, <1>7
  <2>2. w.low * b.den <= b.low * b.den /\ w.low * qty <= price * qty
    BY <1>3, <1>5, <1>7
  <2>3. w.low * b.den \in Nat /\ w.low * qty \in Nat /\ b.low * b.den \in Nat /\ price * qty \in Nat
    BY <1>3, <1>6, <1>7
  <2> DEFINE x == w.low * b.den
             y == w.low * qty
             u == b.low * b.den
             v == price * qty
  <2>4. /\ x \in Nat /\ y \in Nat /\ u \in Nat /\ v \in Nat /\ x <= u /\ y <= v /\ u <= b.num
        /\ w.low * w.den = x + y /\ w.num = b.num + v
    BY <1>3, <1>4, <2>1, <2>2, <2>3
  <2> HIDE DEF x, y, u, v
  <2> QED BY <1>3, <2>4
<1>9. w.num <= w.high * w.den
  <2>1. w.high * (b.den + qty) = w.high * b.den + w.high * qty
    BY <1>3, <1>6, <1>7
  <2>2. b.high * b.den <= w.high * b.den /\ price * qty <= w.high * qty
    BY <1>3, <1>5, <1>7
  <2>3. w.high * b.den \in Nat /\ w.high * qty \in Nat /\ b.high * b.den \in Nat /\ price * qty \in Nat
    BY <1>3, <1>6, <1>7
  <2> DEFINE x == w.high * b.den
             y == w.high * qty
             u == b.high * b.den
             v == price * qty
  <2>4. /\ x \in Nat /\ y \in Nat /\ u \in Nat /\ v \in Nat /\ u <= x /\ v <= y /\ b.num <= u
        /\ w.high * w.den = x + y /\ w.num = b.num + v
    BY <1>3, <1>4, <2>1, <2>2, <2>3
  <2> HIDE DEF x, y, u, v
  <2> QED BY <1>3, <2>4
<1>10. Averaged(w)
  BY <1>3, <1>4, <1>8, <1>9 DEF Averaged
<1> QED BY <1>10 DEF w, e

(* The quantities in a list of bars.                                       *)
Volumes(list) == [i \in DOMAIN list |-> list[i].volume]

LEMMA VolumesAppend ==
    ASSUME NEW list \in Seq(BarSet), NEW b \in BarSet
    PROVE  /\ SumFunction(Volumes(list)) \in Int
           /\ SumFunction(Volumes(Append(list, b))) = SumFunction(Volumes(list)) + b.volume
<1> DEFINE n == Len(list)
           more == Append(list, b)
           f == Volumes(list)
           g == Volumes(more)
<1>1. /\ n \in Nat /\ DOMAIN list = 1..n /\ DOMAIN more = 1..(n + 1) /\ more[n + 1] = b
      /\ \A i \in 1..n : more[i] = list[i] /\ list[i] \in BarSet
  OBVIOUS
<1> HIDE DEF n, more
<1>2. /\ DOMAIN f = 1..n /\ DOMAIN g = 1..(n + 1)
      /\ \A i \in 1..n : f[i] = list[i].volume /\ g[i] = f[i] /\ f[i] \in Int
      /\ g[n + 1] = b.volume /\ b.volume \in Int
  <2>1. \A i \in 1..n : i \in 1..(n + 1) /\ list[i].volume \in Int
    BY <1>1 DEF BarSet
  <2>2. n + 1 \in 1..(n + 1) /\ b.volume \in Int
    BY <1>1 DEF BarSet
  <2> QED BY <1>1, <2>1, <2>2 DEF Volumes
<1>3. IsFiniteSet(1..n) /\ n + 1 \notin 1..n /\ (1..n) \cup {n + 1} = 1..(n + 1)
  <2>1. n + 1 \notin 1..n /\ (1..n) \cup {n + 1} = 1..(n + 1)
    BY <1>1
  <2>2. n \in Int /\ 1 \in Int
    BY <1>1
  <2> QED BY <2>1, <2>2, FS_Interval
<1> HIDE DEF f, g
<1>4. SumFunctionOnSet(g, (1..n) \cup {n + 1}) = g[n + 1] + SumFunctionOnSet(g, 1..n)
  <2> DEFINE S == 1..n
             y == n + 1
  <2>1. IsFiniteSet(S) /\ (\A x \in S : g[x] \in Int) /\ y \notin S /\ g[y] \in Int
    BY <1>2, <1>3
  <2> HIDE DEF S, y
  <2>2. SumFunctionOnSet(g, S \cup {y}) = g[y] + SumFunctionOnSet(g, S)
    BY <2>1, SumAdd
  <2> QED BY <2>2 DEF S, y
<1>5. SumFunctionOnSet(f, 1..n) = SumFunctionOnSet(g, 1..n) /\ SumFunctionOnSet(f, 1..n) \in Int
  <2> DEFINE S == 1..n
  <2>1. IsFiniteSet(S) /\ \A x \in S : f[x] \in Int /\ f[x] = g[x]
    BY <1>2, <1>3
  <2> HIDE DEF S
  <2>2. SumFunctionOnSet(f, S) = SumFunctionOnSet(g, S) /\ SumFunctionOnSet(f, S) \in Int
    BY <2>1, SumSame, SumRemove
  <2> QED BY <2>2 DEF S
<1>6. SumFunction(f) = SumFunctionOnSet(f, 1..n) /\ SumFunction(g) = SumFunctionOnSet(g, 1..(n + 1))
  BY <1>2 DEF SumFunction
<1>7. SumFunction(g) = SumFunction(f) + b.volume /\ SumFunction(f) \in Int
  <2>1. SumFunctionOnSet(g, 1..(n + 1)) = g[n + 1] + SumFunctionOnSet(g, 1..n)
    BY <1>3, <1>4
  <2>2. SumFunction(g) = b.volume + SumFunction(f) /\ SumFunction(f) \in Int
    BY <1>2, <1>5, <1>6, <2>1
  <2>3. b.volume \in Int
    BY <1>2
  <2> QED BY <2>2, <2>3
<1> QED BY <1>7 DEF f, g, more

LEMMA VolumesEmpty == SumFunction(Volumes(<<>>)) = 0
<1>1. DOMAIN Volumes(<<>>) = {}
  BY DEF Volumes
<1> QED BY <1>1, SumEmpty DEF SumFunction

\* of the times, volumes counts qty more at t than before
CountsMore(volumes, before, t, qty) ==
    /\ volumes \in [0..LastTick -> Nat] /\ before \in [0..LastTick -> Nat]
    /\ t \in 0..LastTick /\ qty \in Nat
    /\ volumes[t] = before[t] + qty
    /\ \A u \in 0..LastTick : u # t => volumes[u] = before[u]

\* and so do their sums over a set of times
SumsMore(volumes, before, t, qty, S) ==
    /\ SumFunctionOnSet(before, S) \in Int
    /\ SumFunctionOnSet(volumes, S) = SumFunctionOnSet(before, S) + (IF t \in S THEN qty ELSE 0)

LEMMA SumMore ==
    ASSUME NEW volumes, NEW before, NEW t, NEW qty, CountsMore(volumes, before, t, qty),
           NEW S \in SUBSET (0..LastTick)
    PROVE  SumsMore(volumes, before, t, qty, S)
<1>1. IsFiniteSet(S)
  <2>1. LastTick \in Int /\ 0 \in Int
    BY BarsAssumption
  <2> DEFINE all == 0..LastTick
  <2>2. IsFiniteSet(all) /\ S \in SUBSET all
    BY <2>1, FS_Interval
  <2> HIDE DEF all
  <2> QED BY <2>2, FS_Subset
<1>2. /\ \A x \in S : before[x] \in Int /\ volumes[x] \in Int
      /\ \A x \in S : x # t => before[x] = volumes[x]
      /\ volumes[t] = before[t] + qty /\ before[t] \in Int /\ volumes[t] \in Int /\ qty \in Int
  BY DEF CountsMore
<1>3. SumFunctionOnSet(before, S) \in Int
  BY <1>1, <1>2, SumRemove
<1>4. /\ t \in S => SumFunctionOnSet(volumes, S) = SumFunctionOnSet(before, S) + volumes[t] - before[t]
      /\ t \notin S => SumFunctionOnSet(volumes, S) = SumFunctionOnSet(before, S)
  BY <1>1, <1>2, SumChange
<1> QED BY <1>2, <1>3, <1>4 DEF SumsMore

LEMMA TradedMore ==
    ASSUME NEW volumes, NEW before, NEW t, NEW qty, CountsMore(volumes, before, t, qty),
           NEW seconds, NEW start
    PROVE  /\ Traded(before, seconds, start) \in Int
           /\ Traded(volumes, seconds, start)
                  = Traded(before, seconds, start) + (IF Floor(t, seconds) = start THEN qty ELSE 0)
<1> DEFINE S == {u \in 0..LastTick : Floor(u, seconds) = start}
<1>1. S \in SUBSET (0..LastTick)
  OBVIOUS
<1>2. t \in S <=> Floor(t, seconds) = start
  BY DEF CountsMore
<1>3. SumsMore(volumes, before, t, qty, S)
  <2> HIDE DEF S
  <2> QED BY <1>1, SumMore
<1> QED BY <1>2, <1>3 DEF Traded, SumsMore

LEMMA TradedNothing ==
    ASSUME NEW volumes \in [0..LastTick -> Nat], NEW seconds, NEW start,
           \A u \in 0..LastTick : Floor(u, seconds) = start => volumes[u] = 0
    PROVE  Traded(volumes, seconds, start) = 0
<1> DEFINE S == {u \in 0..LastTick : Floor(u, seconds) = start}
<1>1. IsFiniteSet(S) /\ \A x \in S : volumes[x] = 0
  <2>1. LastTick \in Int /\ 0 \in Int
    BY BarsAssumption
  <2> DEFINE all == 0..LastTick
  <2>2. IsFiniteSet(all) /\ S \in SUBSET all
    BY <2>1, FS_Interval
  <2>3. IsFiniteSet(S)
    <3> HIDE DEF all, S
    <3> QED BY <2>2, FS_Subset
  <2> QED BY <2>3
<1> HIDE DEF S
<1>2. SumFunctionOnSet(volumes, S) = 0
  BY <1>1, SumZero
<1> QED BY <1>2 DEF Traded, S

(* What every tick does.                                                   *)
LEMMA OfferedFacts ==
    ASSUME BarsTypeOK, NEW t \in 0..LastTick, NEW use \in Frames \cup {0}, NEW qty \in Nat,
           Offered(t, use, qty)
    PROVE  /\ uses' = uses \cup {use} /\ uses' \subseteq Frames \cup {0} /\ use \in uses'
           /\ late' \in BOOLEAN /\ (~late' => ~late /\ (bar # NoBar => bar.start <= t))
           /\ CountsMore(volumeAt', volumeAt, t, qty)
           /\ TotalOffered \in Int /\ TotalOffered' = TotalOffered + qty
<1>1. /\ uses \subseteq Frames \cup {0} /\ late \in BOOLEAN /\ volumeAt \in [0..LastTick -> Nat]
      /\ bar.start \in Int
  BY BarsTypes DEF BarSet
<1>2. /\ uses' = uses \cup {use} /\ late' = (late \/ (bar # NoBar /\ t < bar.start))
      /\ volumeAt' = [volumeAt EXCEPT ![t] = volumeAt[t] + qty]
  BY DEF Offered
<1>3. CountsMore(volumeAt', volumeAt, t, qty)
  <2> DEFINE v == volumeAt[t] + qty
  <2>1. v \in Nat
    BY <1>1
  <2> HIDE DEF v
  <2>2. /\ volumeAt' \in [0..LastTick -> Nat] /\ volumeAt'[t] = v
        /\ \A u \in 0..LastTick : u # t => volumeAt'[u] = volumeAt[u]
    BY <1>1, <1>2, <2>1 DEF v
  <2> QED BY <1>1, <2>2 DEF CountsMore, v
<1>4. ~late' => ~late /\ (bar # NoBar => bar.start <= t)
  <2>1. late \/ (bar # NoBar /\ t < bar.start) => late'
    BY <1>2
  <2>2. bar # NoBar /\ ~(t < bar.start) => bar.start <= t
    BY <1>1
  <2> QED BY <2>1, <2>2
<1>5. TotalOffered \in Int /\ TotalOffered' = TotalOffered + qty
  <2> DEFINE S == 0..LastTick
  <2>1. DOMAIN volumeAt = S /\ DOMAIN volumeAt' = S /\ t \in S /\ S \in SUBSET (0..LastTick)
    BY <1>1, <1>3 DEF CountsMore
  <2> HIDE DEF S
  <2>2. SumsMore(volumeAt', volumeAt, t, qty, S)
    BY <1>3, <2>1, SumMore
  <2> QED BY <2>1, <2>2 DEF TotalOffered, SumFunction, SumsMore
<1> QED BY <1>1, <1>2, <1>3, <1>4, <1>5

LEMMA BarNumbers ==
    ASSUME NEW b \in BarSet
    PROVE  b.start \in Int /\ b.volume \in Nat /\ b.volume \in Int
BY DEF BarSet

(* A tick in the interval of the current bar.                              *)
LEMMA TimeBarsStay ==
    ASSUME NEW list \in Seq(BarSet), NEW last \in BarSet, NEW new \in BarSet,
           NEW volumes, NEW before, NEW t, NEW qty, CountsMore(volumes, before, t, qty),
           NEW seconds \in Nat, seconds >= 1, TimeBars(list, last, before, seconds),
           Floor(t, seconds) = last.start, new.start = last.start, new.volume = last.volume + qty
    PROVE  TimeBars(list, new, volumes, seconds)
<1>1. /\ last.start \in Int /\ last.volume \in Int /\ qty \in Int
      /\ \A i \in DOMAIN list : list[i].start \in Int /\ list[i].volume \in Int
  <2>1. last.start \in Int /\ last.volume \in Int
    BY BarNumbers
  <2>2. \A i \in DOMAIN list : list[i] \in BarSet
    OBVIOUS
  <2>3. \A i \in DOMAIN list : list[i].start \in Int /\ list[i].volume \in Int
    BY <2>2, BarNumbers
  <2> QED BY <2>1, <2>3 DEF CountsMore
<1>2. new.volume = Traded(volumes, seconds, new.start)
  <2>1. /\ Traded(before, seconds, last.start) \in Int
        /\ Traded(volumes, seconds, last.start) = Traded(before, seconds, last.start) + qty
    BY TradedMore
  <2> QED BY <2>1 DEF TimeBars
<1>3. ASSUME NEW u \in 0..LastTick, volumes[u] > 0 PROVE Floor(u, seconds) <= new.start
  <2>1. CASE u = t
    BY <1>1, <2>1
  <2>2. CASE u # t
    BY <1>3, <2>2 DEF CountsMore, TimeBars
  <2> QED BY <2>1, <2>2
<1>4. ASSUME NEW i \in DOMAIN list
      PROVE  list[i].start < new.start /\ list[i].volume = Traded(volumes, seconds, list[i].start)
  <2>1. list[i].start < last.start /\ list[i].volume = Traded(before, seconds, list[i].start)
    BY DEF TimeBars
  <2>2. Floor(t, seconds) # list[i].start
    BY <1>1, <2>1
  <2>3. /\ Traded(before, seconds, list[i].start) \in Int
        /\ Traded(volumes, seconds, list[i].start) = Traded(before, seconds, list[i].start) + 0
    BY <2>2, TradedMore
  <2> QED BY <2>1, <2>3
<1> QED BY <1>2, <1>3, <1>4 DEF TimeBars

(* A tick of a later interval.                                             *)
LEMMA TimeBarsCross ==
    ASSUME NEW list \in Seq(BarSet), NEW last \in BarSet, NEW new \in BarSet,
           NEW volumes, NEW before, NEW t, NEW qty, CountsMore(volumes, before, t, qty),
           NEW seconds \in Nat, seconds >= 1, TimeBars(list, last, before, seconds),
           Floor(t, seconds) > last.start, new.start = Floor(t, seconds), new.volume = qty
    PROVE  TimeBars(Append(list, last), new, volumes, seconds)
<1> DEFINE n == Len(list)
           more == Append(list, last)
<1>1. /\ last.start \in Int /\ last.volume \in Int /\ qty \in Int /\ new.start \in Int
      /\ \A i \in DOMAIN list : list[i].start \in Int /\ list[i].volume \in Int
      /\ t \in Nat /\ before \in [0..LastTick -> Nat]
      /\ \A u \in 0..LastTick : Floor(u, seconds) \in Int
  <2>1. last.start \in Int /\ last.volume \in Int /\ new.start \in Int
    BY BarNumbers
  <2>2. \A i \in DOMAIN list : list[i] \in BarSet
    OBVIOUS
  <2>3. \A i \in DOMAIN list : list[i].start \in Int /\ list[i].volume \in Int
    BY <2>2, BarNumbers
  <2>4. \A u \in 0..LastTick : Floor(u, seconds) \in Int
    <3>1. \A u \in 0..LastTick : u \in Nat
      OBVIOUS
    <3> QED BY <3>1, FloorIs
  <2>5. qty \in Int /\ t \in Nat /\ before \in [0..LastTick -> Nat]
    BY DEF CountsMore
  <2> QED BY <2>1, <2>3, <2>4, <2>5
<1>2. /\ n \in Nat /\ DOMAIN list = 1..n /\ DOMAIN more = 1..(n + 1) /\ more[n + 1] = last
      /\ \A i \in 1..n : more[i] = list[i]
  OBVIOUS
<1>3. MultipleOf(new.start, seconds)
  BY <1>1, FloorIs
<1>4. new.volume = Traded(volumes, seconds, new.start)
  <2>1. \A u \in 0..LastTick : Floor(u, seconds) = new.start => before[u] = 0
    BY <1>1 DEF TimeBars
  <2>2. Traded(before, seconds, new.start) = 0
    BY <1>1, <2>1, TradedNothing
  <2>3. Traded(volumes, seconds, new.start) = Traded(before, seconds, new.start) + qty
    BY TradedMore
  <2> QED BY <1>1, <2>2, <2>3
<1>5. ASSUME NEW u \in 0..LastTick, volumes[u] > 0 PROVE Floor(u, seconds) <= new.start
  <2>1. CASE u = t
    BY <1>1, <2>1
  <2>2. CASE u # t
    <3>1. Floor(u, seconds) <= last.start
      BY <1>5, <2>2 DEF CountsMore, TimeBars
    <3> QED BY <1>1, <3>1
  <2> QED BY <2>1, <2>2
<1>6. ASSUME NEW b \in BarSet, b.start <= last.start, b.volume = Traded(before, seconds, b.start)
      PROVE  b.start < new.start /\ b.volume = Traded(volumes, seconds, b.start)
  <2>1. b.start < new.start /\ Floor(t, seconds) # b.start
    <3>1. b.start \in Int
      BY BarNumbers
    <3> QED BY <1>1, <1>6, <3>1
  <2>2. /\ Traded(before, seconds, b.start) \in Int
        /\ Traded(volumes, seconds, b.start) = Traded(before, seconds, b.start) + 0
    BY <2>1, TradedMore
  <2> QED BY <1>6, <2>1, <2>2
<1> HIDE DEF n, more
<1>7. ASSUME NEW i \in DOMAIN more
      PROVE  more[i].start < new.start /\ more[i].volume = Traded(volumes, seconds, more[i].start)
  <2>1. more[i] \in BarSet /\ more[i].start <= last.start
        /\ more[i].volume = Traded(before, seconds, more[i].start)
    <3>1. CASE i = n + 1
      BY <1>1, <1>2, <3>1 DEF TimeBars
    <3>2. CASE i \in 1..n
      <4>1. more[i] = list[i] /\ i \in DOMAIN list /\ list[i] \in BarSet
        BY <1>2, <3>2
      <4> QED BY <1>1, <4>1 DEF TimeBars
    <3>3. i = n + 1 \/ i \in 1..n
      BY <1>2
    <3> QED BY <3>1, <3>2, <3>3
  <2> QED BY <1>6, <2>1
<1>8. ASSUME NEW i \in DOMAIN more, NEW j \in DOMAIN more, i < j
      PROVE  more[i].start < more[j].start
  <2>1. i \in 1..n /\ (j \in 1..n \/ j = n + 1)
    BY <1>2, <1>8
  <2>2. i \in DOMAIN list /\ more[i] = list[i]
    BY <1>2, <2>1
  <2>3. CASE j \in 1..n
    BY <1>2, <1>8, <2>2, <2>3 DEF TimeBars
  <2>4. CASE j = n + 1
    BY <1>2, <2>2, <2>4 DEF TimeBars
  <2> QED BY <2>1, <2>3, <2>4
<1>9. TimeBars(more, new, volumes, seconds)
  BY <1>3, <1>4, <1>5, <1>7, <1>8 DEF TimeBars
<1> QED BY <1>9 DEF more

(* The first tick.                                                         *)
LEMMA TimeBarsOpen ==
    ASSUME NEW new \in BarSet,
           NEW volumes, NEW before, NEW t, NEW qty, CountsMore(volumes, before, t, qty),
           \A u \in 0..LastTick : before[u] = 0,
           NEW seconds \in Nat, seconds >= 1, new.start = Floor(t, seconds), new.volume = qty
    PROVE  TimeBars(<<>>, new, volumes, seconds)
<1>1. t \in Nat /\ before \in [0..LastTick -> Nat] /\ qty \in Int
  BY DEF CountsMore
<1>2. MultipleOf(new.start, seconds) /\ new.start \in Int
  BY <1>1, FloorIs
<1>3. new.volume = Traded(volumes, seconds, new.start)
  <2>1. Traded(before, seconds, new.start) = 0
    BY <1>1, TradedNothing
  <2>2. Traded(volumes, seconds, new.start) = Traded(before, seconds, new.start) + qty
    BY TradedMore
  <2> QED BY <1>1, <2>1, <2>2
<1>4. ASSUME NEW u \in 0..LastTick, volumes[u] > 0 PROVE Floor(u, seconds) <= new.start
  <2>1. CASE u = t
    BY <1>2, <2>1
  <2>2. CASE u # t
    <3>1. volumes[u] = 0
      BY <2>2 DEF CountsMore
    <3> QED BY <1>4, <3>1
  <2> QED BY <2>1, <2>2
<1> QED BY <1>2, <1>3, <1>4 DEF TimeBars

-----------------------------------------------------------------------------

LEMMA BarsInvImplies == BarsIInv => BarsTypeOK /\ BarsAccounted
<1> SUFFICES ASSUME BarsIInv PROVE BarsAccounted
  BY DEF BarsIInv
<1>0. /\ BarsTypeOK /\ bars \in Seq(BarSet) /\ bar \in BarSet
      /\ BarVolumes + keptOut = TotalOffered
      /\ keptOut > 0 => bar # NoBar /\ ~bar.weighted
  BY BarsTypes DEF BarsIInv, BarsCount
<1>1. ASSUME NEW seconds \in Frames, uses = {seconds}, ~late PROVE Aligned(seconds)
  <2> DEFINE n == Len(bars)
             all == Append(bars, bar)
  <2>1. TimeBars(bars, bar, volumeAt, seconds)
    BY <1>1 DEF BarsIInv, BarsOfOneLength
  <2>2. /\ n \in Nat /\ DOMAIN bars = 1..n /\ DOMAIN all = 1..(n + 1) /\ all[n + 1] = bar
        /\ \A i \in 1..n : all[i] = bars[i]
    BY <1>0
  <2> HIDE DEF n, all
  <2>3. ASSUME NEW i \in DOMAIN all PROVE all[i].volume = Traded(volumeAt, seconds, all[i].start)
    BY <2>1, <2>2 DEF TimeBars
  <2>4. ASSUME NEW i \in DOMAIN all, NEW j \in DOMAIN all, i < j
        PROVE  all[i].start < all[j].start
    <3>1. i \in 1..n /\ (j \in 1..n \/ j = n + 1)
      BY <2>2, <2>4
    <3>2. i \in DOMAIN bars /\ all[i] = bars[i]
      BY <2>2, <3>1
    <3>3. CASE j \in 1..n
      BY <2>1, <2>2, <2>4, <3>2, <3>3 DEF TimeBars
    <3>4. CASE j = n + 1
      BY <2>1, <2>2, <3>2, <3>4 DEF TimeBars
    <3> QED BY <3>1, <3>3, <3>4
  <2> QED BY <2>3, <2>4 DEF Aligned, Traded, all
<1>2. 0 \notin uses /\ bar # NoBar =>
          /\ tickList = bar.trades /\ bar.den = bar.volume
          /\ bar.low * bar.den <= bar.num /\ bar.num <= bar.high * bar.den
  BY DEF BarsIInv, BarsOfTime, Averaged
<1>3. uses = {0} => /\ \A i \in DOMAIN bars : bars[i].volume >= TargetVolume
                    /\ bar.volume >= TargetVolume => bar.trades = 1 /\ bars = <<>>
  BY DEF BarsIInv, BarsOfVolume
<1> QED BY <1>0, <1>1, <1>2, <1>3 DEF BarsAccounted

LEMMA BarsInitHolds == BarsInit => BarsIInv
<1> SUFFICES ASSUME BarsInit PROVE BarsIInv
  OBVIOUS
<1>1. /\ bar = NoBar /\ bars = <<>> /\ tickList = 0 /\ uses = {} /\ late = FALSE /\ keptOut = 0
      /\ volumeAt = [t \in 0..LastTick |-> 0] /\ LastTick \in Nat
  BY BarsAssumption DEF BarsInit
<1>2. volumeAt \in [0..LastTick -> Nat] /\ \A t \in 0..LastTick : volumeAt[t] = 0
  BY <1>1
<1>3. BarsTypeOK
  <2>1. bar \in BarSet /\ bars \in Seq(BarSet) /\ uses \subseteq Frames \cup {0} /\ late \in BOOLEAN
        /\ tickList \in Nat /\ keptOut \in Nat
    <3>1. bar \in BarSet
      BY <1>1, NoBarFacts
    <3>2. <<>> \in Seq(BarSet)
      OBVIOUS
    <3> QED BY <1>1, <3>1, <3>2
  <2> QED BY <1>2, <2>1 DEF BarsTypeOK, BarSet
<1>4. BarVolumes = 0
  <2>1. BarVolumes = bar.volume + SumFunction(Volumes(bars))
    BY DEF BarVolumes, Volumes
  <2> QED BY <1>1, <2>1, NoBarFacts, VolumesEmpty
<1>5. TotalOffered = 0
  <2>1. DOMAIN volumeAt = 0..LastTick
    BY <1>2
  <2> DEFINE S == 0..LastTick
  <2>2. IsFiniteSet(S) /\ \A x \in S : volumeAt[x] = 0
    <3>1. 0 \in Int /\ LastTick \in Int
      BY <1>1
    <3> QED BY <1>2, <3>1, FS_Interval
  <2> HIDE DEF S
  <2>3. SumFunctionOnSet(volumeAt, S) = 0
    BY <2>2, SumZero
  <2> QED BY <2>1, <2>3 DEF TotalOffered, SumFunction, S
<1>6. \A s \in Frames \cup {0} : uses # {s}
  BY <1>1
<1> QED BY <1>1, <1>2, <1>3, <1>4, <1>5, <1>6
    DEF BarsIInv, OpenBar, BarsCount, BarsOfTime, BarsOfVolume, BarsOfOneLength

\* the parts of the invariant that hold for every use of the bars
LEMMA BarsAre ==
    ASSUME BarsIInv
    PROVE  BarsTypeOK /\ OpenBar /\ BarsCount /\ BarsOfTime /\ BarsOfVolume /\ BarsOfOneLength
BY DEF BarsIInv

(* The quantity counted after a tick.                                      *)
LEMMA VolumesAre == BarVolumes = bar.volume + SumFunction(Volumes(bars))
BY DEF BarVolumes, Volumes

LEMMA CountKept ==
    ASSUME NEW sum \in Int, NEW volume \in Int, NEW kept \in Int, NEW all \in Int,
           volume + sum + kept = all, NEW qty \in Int,
           BarVolumes' = bar'.volume + SumFunction(Volumes(bars')), TotalOffered' = all + qty,
           \/ bar'.volume = qty /\ SumFunction(Volumes(bars')) = sum + volume /\ keptOut' = kept
           \/ bar'.volume = volume /\ SumFunction(Volumes(bars')) = sum /\ keptOut' = kept + qty
           \/ bar'.volume = volume + qty /\ SumFunction(Volumes(bars')) = sum /\ keptOut' = kept
           \/ bar'.volume = 0 /\ SumFunction(Volumes(bars')) = sum + (volume + qty) /\ keptOut' = kept
    PROVE  BarVolumes' + keptOut' = TotalOffered'
OBVIOUS

(* The type of the bars, and that one is open.                             *)
LEMMA BarsTypeNext ==
    ASSUME BarsTypeOK, NEW t \in 0..LastTick, NEW use \in Frames \cup {0}, NEW qty \in Nat,
           Offered(t, use, qty),
           bar' \in BarSet, bar'.start >= 0, bars' \in Seq(BarSet), tickList' \in Nat,
           keptOut' \in Nat
    PROVE  BarsTypeOK' /\ OpenBar' /\ bar' # NoBar
<1>1. /\ use \in uses' /\ uses' \subseteq Frames \cup {0} /\ late' \in BOOLEAN
      /\ volumeAt' \in [0..LastTick -> Nat]
  BY OfferedFacts DEF CountsMore
<1>2. bar' # NoBar
  BY NoBarFacts
<1> QED BY <1>1, <1>2 DEF BarsTypeOK, BarSet, OpenBar

LEMMA TimeBarStep ==
    ASSUME BarsIInv, NEW price \in Nat, NEW qty \in Nat, NEW t \in 0..LastTick,
           NEW seconds \in Frames, AggregateTimeBar(price, qty, t, seconds)
    PROVE  BarsIInv'
<1> DEFINE start == Floor(t, seconds)
           opened == TimeBar(price, qty, start)
           grown == Weighed(Extended(bar, price, qty), price, qty)
<1>1. /\ BarsTypeOK /\ OpenBar /\ BarsCount /\ BarsOfTime /\ BarsOfVolume /\ BarsOfOneLength
      /\ bar \in BarSet /\ bars \in Seq(BarSet) /\ tickList \in Nat /\ keptOut \in Nat
      /\ bar.start \in Int /\ bar.volume \in Nat /\ bar.trades \in Nat
      /\ seconds \in Nat /\ seconds >= 1 /\ seconds \in Frames \cup {0} /\ seconds # 0
      /\ t \in Nat /\ LastTick \in Nat
  BY BarsAre, BarsTypes, BarNumbers
<1>2. Offered(t, seconds, qty)
  BY DEF AggregateTimeBar
<1>3. /\ uses' = uses \cup {seconds} /\ seconds \in uses'
      /\ ~late' => ~late /\ (bar # NoBar => bar.start <= t)
      /\ CountsMore(volumeAt', volumeAt, t, qty)
      /\ TotalOffered \in Int /\ TotalOffered' = TotalOffered + qty
  BY <1>1, <1>2, OfferedFacts
<1>4. start \in 0..LastTick /\ start \in Int /\ start >= 0
  <2>1. start \in 0..t
    BY <1>1, FloorIs
  <2> QED BY <1>1, <2>1
<1>5. /\ opened \in BarSet /\ opened.start = start /\ opened.volume = qty /\ opened.trades = 1
      /\ opened.weighted /\ Averaged(opened)
  <2> HIDE DEF start
  <2> QED BY <1>4, OpenedFacts
<1>6. /\ grown \in BarSet /\ grown.start = bar.start /\ grown.weighted = bar.weighted
      /\ grown.volume = bar.volume + qty /\ grown.trades = bar.trades + 1
      /\ Averaged(bar) => Averaged(grown)
  <2>1. Extended(bar, price, qty) \in BarSet
    BY <1>1, ExtendedFacts
  <2> QED BY <1>1, <2>1, ExtendedFacts, WeighedFacts, AveragedMore
<1>7. \/ /\ bar = NoBar /\ bar' = opened /\ tickList' = tickList + 1
         /\ UNCHANGED <<bars, keptOut>>
      \/ /\ bar # NoBar /\ start > bar.start /\ bar.weighted
         /\ bars' = Append(bars, bar) /\ bar' = opened /\ tickList' = 1 /\ UNCHANGED keptOut
      \/ /\ bar # NoBar /\ start > bar.start /\ ~bar.weighted
         /\ tickList' = tickList + 1 /\ keptOut' = keptOut + qty /\ UNCHANGED <<bar, bars>>
      \/ /\ bar # NoBar /\ ~(start > bar.start) /\ bar' = grown /\ tickList' = tickList + 1
         /\ UNCHANGED <<bars, keptOut>>
  BY DEF AggregateTimeBar, CompletedBar
<1> HIDE DEF start, opened, grown
<1>8. BarsOfVolume'
  BY <1>1, <1>3 DEF BarsOfVolume
<1>9. ASSUME ~(0 \in uses') PROVE ~(0 \in uses)
  BY <1>3, <1>9
<1>10. ASSUME NEW s \in Frames, uses' = {s}, ~late', bar # NoBar
       PROVE  s = seconds /\ TimeBars(bars, bar, volumeAt, seconds) /\ bar.weighted /\ bar.start <= t
  <2>1. s = seconds /\ uses \subseteq {seconds} /\ ~late /\ bar.start <= t
    BY <1>3, <1>10
  <2>2. uses = {seconds}
    BY <1>1, <1>10, <2>1 DEF OpenBar
  <2>3. bar.weighted
    BY <1>1, <1>10, <2>2 DEF BarsOfTime, Averaged
  <2> QED BY <1>1, <2>1, <2>2, <2>3 DEF BarsOfOneLength
<1>11. SumFunction(Volumes(bars)) \in Int
  BY <1>1, VolumesAppend
<1>12. BarVolumes = bar.volume + SumFunction(Volumes(bars)) /\ BarVolumes + keptOut = TotalOffered
  BY <1>1, VolumesAre DEF BarsCount
<1>13. BarVolumes' = bar'.volume + SumFunction(Volumes(bars'))
  BY VolumesAre DEF BarVolumes, Volumes
<1>18. /\ SumFunction(Volumes(bars)) \in Int /\ bar.volume \in Int /\ keptOut \in Int
       /\ TotalOffered \in Int /\ qty \in Int
       /\ bar.volume + SumFunction(Volumes(bars)) + keptOut = TotalOffered
       /\ BarVolumes' = bar'.volume + SumFunction(Volumes(bars')) /\ TotalOffered' = TotalOffered + qty
  BY <1>1, <1>3, <1>11, <1>12, <1>13
<1>14. CASE bar = NoBar /\ bar' = opened /\ tickList' = tickList + 1 /\ UNCHANGED <<bars, keptOut>>
  <2>1. bars = <<>> /\ tickList = 0 /\ keptOut = 0 /\ \A u \in 0..LastTick : volumeAt[u] = 0
    BY <1>1, <1>14 DEF OpenBar
  <2>2. BarsTypeOK' /\ OpenBar' /\ bar' # NoBar
    BY <1>1, <1>2, <1>4, <1>5, <1>14, <2>1, BarsTypeNext
  <2>3. BarsCount'
    <3>1. bar.volume = 0
      BY <1>14, NoBarFacts
    <3>2. BarVolumes' + keptOut' = TotalOffered' /\ ~(keptOut' > 0)
      BY <1>3, <1>5, <1>11, <1>12, <1>13, <1>14, <2>1, <3>1
    <3> QED BY <3>2 DEF BarsCount
  <2>4. BarsOfTime'
    BY <1>5, <1>14, <2>1 DEF BarsOfTime
  <2>5. BarsOfOneLength'
    <3>1. TimeBars(<<>>, opened, volumeAt', seconds)
      BY <1>1, <1>3, <1>5, <2>1, TimeBarsOpen DEF start
    <3>2. \A s : uses' = {s} => s = seconds
      BY <1>3
    <3> QED BY <1>14, <2>1, <3>1, <3>2 DEF BarsOfOneLength
  <2> QED BY <1>8, <2>2, <2>3, <2>4, <2>5 DEF BarsIInv
<1>15. CASE /\ bar # NoBar /\ start > bar.start /\ bar.weighted
            /\ bars' = Append(bars, bar) /\ bar' = opened /\ tickList' = 1 /\ UNCHANGED keptOut
  <2>1. BarsTypeOK' /\ OpenBar' /\ bar' # NoBar
    <3>1. bars' \in Seq(BarSet)
      BY <1>1, <1>15
    <3> QED BY <1>1, <1>2, <1>4, <1>5, <1>15, <3>1, BarsTypeNext
  <2>2. BarsCount'
    <3>1. SumFunction(Volumes(bars')) = SumFunction(Volumes(bars)) + bar.volume
      BY <1>1, <1>15, VolumesAppend
    <3>2. BarVolumes' + keptOut' = TotalOffered'
      <4>1. bar'.volume = qty /\ keptOut' = keptOut
        BY <1>5, <1>15
      <4> QED BY <1>18, <3>1, <4>1, CountKept
    <3>3. ~(keptOut' > 0)
      BY <1>1, <1>15 DEF BarsCount
    <3> QED BY <3>2, <3>3 DEF BarsCount
  <2>3. BarsOfTime'
    BY <1>5, <1>15 DEF BarsOfTime
  <2>4. BarsOfOneLength'
    <3>1. ASSUME NEW s \in Frames, uses' = {s}, ~late'
          PROVE  TimeBars(bars', bar', volumeAt', s)
      <4>1. s = seconds /\ TimeBars(bars, bar, volumeAt, seconds)
        BY <1>10, <1>15, <3>1
      <4>2. TimeBars(Append(bars, bar), opened, volumeAt', seconds)
        BY <1>1, <1>3, <1>5, <1>15, <4>1, TimeBarsCross DEF start
      <4> QED BY <1>15, <4>1, <4>2
    <3> QED BY <3>1 DEF BarsOfOneLength
  <2> QED BY <1>8, <2>1, <2>2, <2>3, <2>4 DEF BarsIInv
<1>16. CASE /\ bar # NoBar /\ start > bar.start /\ ~bar.weighted
            /\ tickList' = tickList + 1 /\ keptOut' = keptOut + qty /\ UNCHANGED <<bar, bars>>
  <2>1. BarsTypeOK' /\ OpenBar' /\ bar' # NoBar
    <3>1. bar.start >= 0 /\ tickList + 1 \in Nat /\ keptOut + qty \in Nat
      BY <1>1, <1>16 DEF OpenBar
    <3> QED BY <1>1, <1>2, <1>16, <3>1, BarsTypeNext
  <2>2. BarsCount'
    <3>1. bar'.volume = bar.volume /\ keptOut' = keptOut + qty /\ bars' = bars
      BY <1>16
    <3>2. BarVolumes' + keptOut' = TotalOffered'
      BY <1>18, <3>1, CountKept
    <3> QED BY <1>16, <3>2 DEF BarsCount
  <2>3. BarsOfTime'
    BY <1>1, <1>9, <1>16 DEF BarsOfTime, Averaged
  <2>4. BarsOfOneLength'
    BY <1>10, <1>16 DEF BarsOfOneLength
  <2> QED BY <1>8, <2>1, <2>2, <2>3, <2>4 DEF BarsIInv
<1>17. CASE /\ bar # NoBar /\ ~(start > bar.start) /\ bar' = grown /\ tickList' = tickList + 1
            /\ UNCHANGED <<bars, keptOut>>
  <2>1. BarsTypeOK' /\ OpenBar' /\ bar' # NoBar
    <3>1. grown.start >= 0 /\ tickList + 1 \in Nat
      BY <1>1, <1>6, <1>17 DEF OpenBar
    <3> QED BY <1>1, <1>2, <1>6, <1>17, <3>1, BarsTypeNext
  <2>2. BarsCount'
    <3>1. BarVolumes' + keptOut' = TotalOffered'
      <4>1. bar'.volume = bar.volume + qty /\ keptOut' = keptOut /\ bars' = bars
        BY <1>6, <1>17
      <4> QED BY <1>18, <4>1, CountKept
    <3>2. keptOut' > 0 => ~bar'.weighted
      BY <1>1, <1>6, <1>17 DEF BarsCount
    <3> QED BY <2>1, <3>1, <3>2 DEF BarsCount
  <2>3. BarsOfTime'
    <3>1. ASSUME ~(0 \in uses') PROVE tickList' = bar'.trades /\ Averaged(bar')
      <4>1. tickList = bar.trades /\ Averaged(bar)
        BY <1>1, <1>9, <1>17, <3>1 DEF BarsOfTime
      <4> QED BY <1>6, <1>17, <4>1
    <3> QED BY <3>1 DEF BarsOfTime
  <2>4. BarsOfOneLength'
    <3>1. ASSUME NEW s \in Frames, uses' = {s}, ~late'
          PROVE  TimeBars(bars', bar', volumeAt', s)
      <4>1. s = seconds /\ TimeBars(bars, bar, volumeAt, seconds) /\ bar.start <= t
        BY <1>10, <1>17, <3>1
      <4>2. start = bar.start
        <5>1. bar.start \in Nat /\ MultipleOf(bar.start, seconds)
          BY <1>1, <1>17, <4>1 DEF OpenBar, TimeBars
        <5>2. bar.start <= start
          BY <1>1, <4>1, <5>1, FloorOver DEF start
        <5> QED BY <1>1, <1>4, <1>17, <5>2
      <4>3. TimeBars(bars, grown, volumeAt', seconds)
        BY <1>1, <1>3, <1>6, <4>1, <4>2, TimeBarsStay DEF start
      <4> QED BY <1>17, <4>1, <4>3
    <3> QED BY <3>1 DEF BarsOfOneLength
  <2> QED BY <1>8, <2>1, <2>2, <2>3, <2>4 DEF BarsIInv
<1> QED BY <1>7, <1>14, <1>15, <1>16, <1>17

LEMMA VolumeBarStep ==
    ASSUME BarsIInv, NEW price \in Nat, NEW qty \in Nat, NEW t \in 0..LastTick,
           AggregateVolumeBar(price, qty, t)
    PROVE  BarsIInv'
<1> DEFINE first == VolumeBar(price, qty, 1, t)
           next == VolumeBar(price, 0, 0, t)
           grown == Extended(bar, price, qty)
<1>1. /\ BarsTypeOK /\ OpenBar /\ BarsCount /\ BarsOfTime /\ BarsOfVolume /\ BarsOfOneLength
      /\ bar \in BarSet /\ bars \in Seq(BarSet) /\ tickList \in Nat /\ keptOut \in Nat
      /\ bar.start \in Int /\ bar.volume \in Nat /\ bar.trades \in Nat
      /\ t \in Nat /\ LastTick \in Nat /\ TargetVolume \in Nat /\ TargetVolume >= 1
      /\ 0 \in Frames \cup {0} /\ \A s \in Frames : s # 0
  BY BarsAre, BarsTypes, BarNumbers
<1>2. Offered(t, 0, qty)
  BY DEF AggregateVolumeBar
<1>3. /\ uses' = uses \cup {0} /\ 0 \in uses'
      /\ TotalOffered \in Int /\ TotalOffered' = TotalOffered + qty
  BY <1>1, <1>2, OfferedFacts
<1>4. /\ first \in BarSet /\ first.start = t /\ first.volume = qty /\ first.trades = 1
      /\ next \in BarSet /\ next.start = t /\ next.volume = 0 /\ ~next.weighted
  BY OpenedFacts
<1>5. /\ grown \in BarSet /\ grown.start = bar.start /\ grown.weighted = bar.weighted
      /\ grown.volume = bar.volume + qty
  BY <1>1, ExtendedFacts
<1>6. /\ UNCHANGED <<tickList, keptOut>>
      /\ \/ bar = NoBar /\ bar' = first /\ UNCHANGED bars
         \/ bar # NoBar /\ grown.volume >= TargetVolume /\ bars' = Append(bars, grown) /\ bar' = next
         \/ bar # NoBar /\ grown.volume < TargetVolume /\ bar' = grown /\ UNCHANGED bars
  BY DEF AggregateVolumeBar
<1> HIDE DEF first, next, grown
<1>7. BarsOfTime' /\ BarsOfOneLength'
  BY <1>1, <1>3 DEF BarsOfTime, BarsOfOneLength
<1>8. ASSUME uses' = {0}, bar # NoBar PROVE uses = {0}
  BY <1>1, <1>3, <1>8 DEF OpenBar
<1>9. SumFunction(Volumes(bars)) \in Int
  BY <1>1, VolumesAppend
<1>10. BarVolumes = bar.volume + SumFunction(Volumes(bars)) /\ BarVolumes + keptOut = TotalOffered
  BY <1>1, VolumesAre DEF BarsCount
<1>11. BarVolumes' = bar'.volume + SumFunction(Volumes(bars'))
  BY VolumesAre DEF BarVolumes, Volumes
<1>18. /\ SumFunction(Volumes(bars)) \in Int /\ bar.volume \in Int /\ keptOut \in Int
       /\ TotalOffered \in Int /\ qty \in Int
       /\ bar.volume + SumFunction(Volumes(bars)) + keptOut = TotalOffered
       /\ BarVolumes' = bar'.volume + SumFunction(Volumes(bars')) /\ TotalOffered' = TotalOffered + qty
  BY <1>1, <1>3, <1>9, <1>10, <1>11
<1>12. CASE bar = NoBar /\ bar' = first /\ UNCHANGED bars
  <2>1. bars = <<>> /\ keptOut = 0
    BY <1>1, <1>12 DEF OpenBar
  <2>2. BarsTypeOK' /\ OpenBar' /\ bar' # NoBar
    BY <1>1, <1>2, <1>4, <1>6, <1>12, BarsTypeNext
  <2>3. BarsCount'
    <3>1. bar.volume = 0
      BY <1>12, NoBarFacts
    <3>2. BarVolumes' + keptOut' = TotalOffered' /\ ~(keptOut' > 0)
      BY <1>3, <1>4, <1>6, <1>9, <1>10, <1>11, <1>12, <2>1, <3>1
    <3> QED BY <3>2 DEF BarsCount
  <2>4. BarsOfVolume'
    BY <1>4, <1>12, <2>1 DEF BarsOfVolume
  <2> QED BY <1>7, <2>2, <2>3, <2>4 DEF BarsIInv
<1>13. CASE bar # NoBar /\ grown.volume >= TargetVolume /\ bars' = Append(bars, grown) /\ bar' = next
  <2>1. BarsTypeOK' /\ OpenBar' /\ bar' # NoBar
    <3>1. bars' \in Seq(BarSet)
      BY <1>1, <1>5, <1>13
    <3> QED BY <1>1, <1>2, <1>4, <1>6, <1>13, <3>1, BarsTypeNext
  <2>2. BarsCount'
    <3>1. SumFunction(Volumes(bars')) = SumFunction(Volumes(bars)) + grown.volume
      BY <1>1, <1>5, <1>13, VolumesAppend
    <3>2. BarVolumes' + keptOut' = TotalOffered'
      <4>1. bar'.volume = 0 /\ keptOut' = keptOut /\ grown.volume = bar.volume + qty
        BY <1>4, <1>5, <1>6, <1>13
      <4>2. SumFunction(Volumes(bars')) = SumFunction(Volumes(bars)) + (bar.volume + qty)
        BY <3>1, <4>1
      <4> QED BY <1>18, <4>1, <4>2, CountKept
    <3> QED BY <1>4, <1>13, <2>1, <3>2 DEF BarsCount
  <2>3. BarsOfVolume'
    <3>1. ASSUME uses' = {0}
          PROVE  (\A i \in DOMAIN bars' : bars'[i].volume >= TargetVolume)
                   /\ ~(bar'.volume >= TargetVolume)
      <4>1. \A i \in DOMAIN bars : bars[i].volume >= TargetVolume
        BY <1>1, <1>8, <1>13, <3>1 DEF BarsOfVolume
      <4>2. \A i \in DOMAIN bars' : bars'[i].volume >= TargetVolume
        BY <1>1, <1>13, <4>1
      <4> QED BY <1>1, <1>4, <1>13, <4>2
    <3> QED BY <3>1 DEF BarsOfVolume
  <2> QED BY <1>7, <2>1, <2>2, <2>3 DEF BarsIInv
<1>14. CASE bar # NoBar /\ grown.volume < TargetVolume /\ bar' = grown /\ UNCHANGED bars
  <2>1. BarsTypeOK' /\ OpenBar' /\ bar' # NoBar
    <3>1. grown.start >= 0
      BY <1>1, <1>5, <1>14 DEF OpenBar
    <3> QED BY <1>1, <1>2, <1>5, <1>6, <1>14, <3>1, BarsTypeNext
  <2>2. BarsCount'
    <3>1. BarVolumes' + keptOut' = TotalOffered'
      <4>1. bar'.volume = bar.volume + qty /\ keptOut' = keptOut /\ bars' = bars
        BY <1>5, <1>6, <1>14
      <4> QED BY <1>18, <4>1, CountKept
    <3>2. keptOut' > 0 => ~bar'.weighted
      BY <1>1, <1>5, <1>6, <1>14 DEF BarsCount
    <3> QED BY <2>1, <3>1, <3>2 DEF BarsCount
  <2>3. BarsOfVolume'
    <3>1. ASSUME uses' = {0}
          PROVE  (\A i \in DOMAIN bars' : bars'[i].volume >= TargetVolume)
                   /\ ~(bar'.volume >= TargetVolume)
      <4>1. \A i \in DOMAIN bars : bars[i].volume >= TargetVolume
        BY <1>1, <1>8, <1>14, <3>1 DEF BarsOfVolume
      <4> QED BY <1>1, <1>5, <1>14, <4>1
    <3> QED BY <3>1 DEF BarsOfVolume
  <2> QED BY <1>7, <2>1, <2>2, <2>3 DEF BarsIInv
<1> QED BY <1>6, <1>12, <1>13, <1>14

LEMMA BarsStep == BarsIInv /\ [TradeBarsNext]_tradeBarVars => BarsIInv'
<1>1. BarsIInv /\ UNCHANGED tradeBarVars => BarsIInv'
  <2> SUFFICES ASSUME BarsIInv, UNCHANGED tradeBarVars PROVE BarsIInv'
    OBVIOUS
  <2>1. /\ bar' = bar /\ bars' = bars /\ tickList' = tickList /\ uses' = uses /\ late' = late
        /\ volumeAt' = volumeAt /\ keptOut' = keptOut
    BY DEF tradeBarVars
  <2>2. BarVolumes' = BarVolumes /\ TotalOffered' = TotalOffered
    BY <2>1 DEF BarVolumes, TotalOffered
  <2>3. BarsTypeOK' /\ OpenBar' /\ BarsCount' /\ BarsOfTime'
    BY <2>1, <2>2 DEF BarsIInv, BarsTypeOK, OpenBar, BarsCount, BarsOfTime
  <2>4. BarsOfVolume' /\ BarsOfOneLength'
    BY <2>1 DEF BarsIInv, BarsOfVolume, BarsOfOneLength
  <2> QED BY <2>3, <2>4 DEF BarsIInv
<1>2. ASSUME BarsIInv, TradeBarsNext PROVE BarsIInv'
  <2>1. PICK tick \in TickKinds, t \in 0..LastTick :
            \/ \E seconds \in Frames : AggregateTimeBar(tick[1], tick[2], t, seconds)
            \/ AggregateVolumeBar(tick[1], tick[2], t)
    BY <1>2 DEF TradeBarsNext
  <2>2. tick[1] \in Nat /\ tick[2] \in Nat
    BY BarsAssumption
  <2> QED BY <1>2, <2>1, <2>2, TimeBarStep, VolumeBarStep
<1> QED BY <1>1, <1>2

(* BarsAccounted: no traded quantity is lost or counted twice but for the  *)
(* ticks refused with a KeyError; bars of one kind hold what they should   *)
(* (data/trade_aggregator.py).                                             *)
THEOREM BarsHoldTheTrades == TradeBarsSpec => [](BarsTypeOK /\ BarsAccounted)
BY BarsInitHolds, BarsStep, BarsInvImplies, PTL DEF TradeBarsSpec

-----------------------------------------------------------------------------
(* The composition                                                         *)

LEMMA OperationsBegin ==
    OperationsInit => CredInit /\ AuditInit /\ HealthInit /\ AlertInit /\ HubInit /\ BarsInit
BY DEF OperationsInit

(* A step of the composition is one of each component, or leaves it alone. *)
LEMMA OperationsStep ==
    [OperationsNext]_operationsVars =>
        /\ [CredNext]_credVars /\ [AuditNext]_auditVars /\ [HealthNext]_healthVars
        /\ [AlertNext]_alertVars /\ [HubNext]_hubVars /\ [TradeBarsNext]_tradeBarVars
<1> DEFINE Alone == UNCHANGED <<credVars, auditVars, healthVars, alertVars, hubVars, tradeBarVars>>
<1>1. UNCHANGED operationsVars => Alone
  BY DEF operationsVars, recordVars
<1>2. OperationsNext => Alone \/ RecordsNext
  BY DEF OperationsNext, recordVars
<1>3. RecordsNext =>
        /\ CredNext \/ UNCHANGED credVars
        /\ AuditNext \/ UNCHANGED auditVars
        /\ HealthNext \/ UNCHANGED healthVars
        /\ AlertNext \/ UNCHANGED alertVars
        /\ HubNext \/ UNCHANGED hubVars
        /\ TradeBarsNext \/ UNCHANGED tradeBarVars
  BY DEF RecordsNext
<1> QED BY <1>1, <1>2, <1>3

(* RecordsKept: whatever part the behaviour is one of, what was recorded   *)
(* by it can be found again (MCOperations).                                *)
THEOREM RecordsAreKept == OperationsSpec => []RecordsKept
<1>1. OperationsSpec => CredSpec /\ AuditSpec /\ HealthSpec /\ AlertSpec /\ HubSpec /\ TradeBarsSpec
  BY OperationsBegin, OperationsStep, PTL
     DEF OperationsSpec, CredSpec, AuditSpec, HealthSpec, AlertSpec, HubSpec, TradeBarsSpec
<1>2. /\ CredTypeOK /\ CredentialsKept /\ AuditTypeOK /\ AuditAnswers
      /\ HealthTypeOK /\ HealthHonest /\ AlertTypeOK /\ AlertsFireOnce
      /\ HubTypeOK /\ HubDelivers /\ BarsTypeOK /\ BarsAccounted
      => RecordsKept
  BY DEF RecordsKept
<1> QED BY <1>1, <1>2, CredentialsAreKept, QueriesAreAnswered, ResultsAreHonest,
           AlertsFireAtMostOnce, EventsAreDelivered, BarsHoldTheTrades, PTL
=============================================================================
