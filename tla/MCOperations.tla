---------------------------- MODULE MCOperations ----------------------------
(***************************************************************************)
(* Recovery, shutdown, execution, credentials, the audit trail, health     *)
(* checks, alerts, the synchronous event bus and bars of trades:           *)
(* components that share no state with each other. A behaviour is one of   *)
(* one component, chosen at its start.                                     *)
(***************************************************************************)
EXTENDS Recovery, OrderRecovery, RecoveryShutdown, EngineShutdown, TokenBucket, ExecutionPlans,
        CredentialStore, AuditTrail, HealthMonitor, AlertDesk, EventHub, TradeBars

CONSTANTS k1, k2, t1, t2

MCSymmetry == Permutations({k1, k2}) \cup Permutations({t1, t2})

MCTickKinds == {<<1, 2>>, <<3, 1>>}
MCJitters == {-10, 10, 60}
MCProfiles == {<<40, 20, 40>>, <<0, 50, 50>>, <<60, 50, 40>>, <<20, 10, 20>>}
MCSchedules == {<<150, 100, 50, 0>>, <<200, 100, 0, 0>>}

VARIABLE part  \* the component this behaviour is one of

Parts == {"executor", "orders", "shutdown", "engine", "limiter", "plans", "credentials", "audit",
          "health", "alerts", "events", "bars"}

recordVars == <<credVars, auditVars, healthVars, alertVars, hubVars, tradeBarVars>>

OperationsInit ==
    /\ part \in Parts
    /\ Init /\ RecInit /\ ShutInit /\ EngInit /\ BucketInit /\ PlanInit
    /\ CredInit /\ AuditInit /\ HealthInit /\ AlertInit /\ HubInit /\ BarsInit
    /\ part # "credentials" => master = CHOOSE k \in MasterKeys : TRUE
    /\ part # "plans" => algo = "is" /\ target = <<150, 100, 50, 0>>

(* What the system keeps of credentials, of its doings, of its health, of  *)
(* events and of trades.                                                   *)
RecordsNext ==
    \/ part = "credentials" /\ CredNext
       /\ UNCHANGED <<auditVars, healthVars, alertVars, hubVars, tradeBarVars>>
    \/ part = "audit" /\ AuditNext
       /\ UNCHANGED <<credVars, healthVars, alertVars, hubVars, tradeBarVars>>
    \/ part = "health" /\ HealthNext
       /\ UNCHANGED <<credVars, auditVars, alertVars, hubVars, tradeBarVars>>
    \/ part = "alerts" /\ AlertNext
       /\ UNCHANGED <<credVars, auditVars, healthVars, hubVars, tradeBarVars>>
    \/ part = "events" /\ HubNext
       /\ UNCHANGED <<credVars, auditVars, healthVars, alertVars, tradeBarVars>>
    \/ part = "bars" /\ TradeBarsNext
       /\ UNCHANGED <<credVars, auditVars, healthVars, alertVars, hubVars>>

OperationsNext ==
    /\ UNCHANGED part
    /\ \/ part = "executor" /\ Next
          /\ UNCHANGED <<recVars, shutVars, engVars, bucketVars, planVars, recordVars>>
       \/ part = "orders" /\ RecNext
          /\ UNCHANGED <<vars, shutVars, engVars, bucketVars, planVars, recordVars>>
       \/ part = "shutdown" /\ ShutNext
          /\ UNCHANGED <<vars, recVars, engVars, bucketVars, planVars, recordVars>>
       \/ part = "engine" /\ EngNext
          /\ UNCHANGED <<vars, recVars, shutVars, bucketVars, planVars, recordVars>>
       \/ part = "limiter" /\ BucketNext
          /\ UNCHANGED <<vars, recVars, shutVars, engVars, planVars, recordVars>>
       \/ part = "plans" /\ PlanNext
          /\ UNCHANGED <<vars, recVars, shutVars, engVars, bucketVars, recordVars>>
       \/ RecordsNext /\ UNCHANGED <<vars, recVars, shutVars, engVars, bucketVars, planVars>>

operationsVars ==
    <<part, vars, recVars, shutVars, engVars, bucketVars, planVars, recordVars>>

OperationsSpec == OperationsInit /\ [][OperationsNext]_operationsVars

-----------------------------------------------------------------------------

(* What was recorded can be found again: credentials                       *)
(* (infrastructure/credentials.py) across restarts, log entries            *)
(* (monitoring/audit_log.py) through the indices, the results of health    *)
(* checks (infrastructure/health.py), alerts (monitoring/alerts.py),       *)
(* events with their handlers (infrastructure/event_bus.py) and traded     *)
(* quantities in bars (data/trade_aggregator.py). Each part is stated in   *)
(* its module.                                                             *)
RecordsKept ==
    /\ part = "credentials" => CredTypeOK /\ CredentialsKept
    /\ part = "audit" => AuditTypeOK /\ AuditAnswers
    /\ part = "health" => HealthTypeOK /\ HealthHonest
    /\ part = "alerts" => AlertTypeOK /\ AlertsFireOnce
    /\ part = "events" => HubTypeOK /\ HubDelivers
    /\ part = "bars" => BarsTypeOK /\ BarsAccounted
=============================================================================
