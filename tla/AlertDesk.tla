------------------------------ MODULE AlertDesk ------------------------------
(***************************************************************************)
(* The alert manager of monitoring/alerts.py: alerts on a price or on a    *)
(* metric, evaluated against values as they come, triggered, acknowledged, *)
(* expired or removed. Every operation is synchronous.                     *)
(*                                                                         *)
(* One symbol, one metric. An identifier is used once. Left out: names,    *)
(* messages and delivery (the webhooks and the messenger's token are kept  *)
(* and never used).                                                        *)
(***************************************************************************)
EXTENDS Integers

CONSTANTS
    Alerts,     \* identifiers of alerts
    Levels,     \* thresholds and values
    Lifetime,   \* expires_hours of price alerts
    Cooldown,   \* cooldown_seconds
    MaxNow      \* bound on the time

ASSUME AlertAssumption ==
    Levels \subseteq Int /\ Lifetime \in Nat /\ Cooldown \in Nat /\ MaxNow \in Nat

VARIABLES
    now,     \* the time
    alert,   \* alert[a]: the alert, with the status "new" before it is created
             \* and "removed" after remove_alert
    fired,   \* history: fired[a]: events of a in _history
    owed     \* history: alerts an evaluation met in their lifetime

alertVars == <<now, alert, fired, owed>>

Never == -1
AlertKinds == {"price", "metric"}

\* crosses_above and the conditions of metrics that ask for a value at or above
\* the threshold; crosses_below and "below"; pct_change and any other
Conditions == {"above", "below", "other"}
AlertStatus == {"new", "active", "triggered", "acknowledged", "expired", "removed"}

Alert(kind, condition, threshold, status, expiresAt, lastTriggered) ==
    [kind |-> kind, condition |-> condition, threshold |-> threshold,
     status |-> status, expiresAt |-> expiresAt, lastTriggered |-> lastTriggered]

AlertTypeOK ==
    /\ now \in 0..MaxNow
    /\ alert \in [Alerts -> [kind : AlertKinds, condition : Conditions, threshold : Levels \cup {0},
                             status : AlertStatus, expiresAt : Nat \cup {Never},
                             lastTriggered : Nat \cup {Never}]]
    /\ fired \in [Alerts -> Nat]
    /\ owed \subseteq Alerts

AlertInit ==
    /\ now = 0
    /\ alert = [a \in Alerts |-> Alert("price", "other", 0, "new", Never, Never)]
    /\ fired = [a \in Alerts |-> 0] /\ owed = {}

-----------------------------------------------------------------------------

(* create_price_alert, which sets an expiry, and create_drawdown_alert,    *)
(* create_pnl_alert, create_system_alert, which set none.                  *)
CreateAlert(a, kind, condition, threshold) ==
    /\ alert[a].status = "new"
    /\ alert' = [alert EXCEPT ![a] =
                    Alert(kind, condition, threshold, "active",
                          IF kind = "price" THEN now + Lifetime ELSE Never, Never)]
    /\ UNCHANGED <<now, fired, owed>>

Met(a, kind, value) ==
    /\ alert[a].status = "active" /\ alert[a].kind = kind
    /\ \/ alert[a].condition = "above" /\ value >= alert[a].threshold
       \/ alert[a].condition = "below" /\ value <= alert[a].threshold

\* _trigger_alert refuses within the cooldown of the last time
Cooling(a) == alert[a].lastTriggered # Never /\ now - alert[a].lastTriggered < Cooldown
Expired(a) == alert[a].expiresAt # Never /\ now > alert[a].expiresAt

\* mutant: the status is not written
TriggeredAgain(a) ==
    IF Cooling(a) THEN alert[a]
    ELSE IF Expired(a) THEN [alert[a] EXCEPT !.status = "expired"]
    ELSE [alert[a] EXCEPT !.lastTriggered = now]

(* _trigger_alert                                                          *)
Triggered(a) ==
    IF Cooling(a) THEN alert[a]
    ELSE IF Expired(a) THEN [alert[a] EXCEPT !.status = "expired"]
    ELSE [alert[a] EXCEPT !.status = "triggered", !.lastTriggered = now]

(* evaluate_price and evaluate_metric: every active alert whose condition  *)
(* the value meets.                                                        *)
Evaluate(kind, value) ==
    LET met == {a \in Alerts : Met(a, kind, value)}
        fires == {a \in met : ~Cooling(a) /\ ~Expired(a)}
    IN  /\ alert' = [a \in Alerts |-> IF a \in met THEN Triggered(a) ELSE alert[a]]
        /\ fired' = [a \in Alerts |-> IF a \in fires THEN fired[a] + 1 ELSE fired[a]]
        /\ owed' = owed \cup {a \in met : ~Expired(a)}
        /\ UNCHANGED now

(* acknowledge_alert, whatever the status.                                 *)
Acknowledge(a) ==
    /\ alert[a].status \notin {"new", "removed"}
    /\ alert' = [alert EXCEPT ![a].status = "acknowledged"]
    /\ UNCHANGED <<now, fired, owed>>

RemoveAlert(a) ==
    /\ alert[a].status \notin {"new", "removed"}
    /\ alert' = [alert EXCEPT ![a].status = "removed"]
    /\ UNCHANGED <<now, fired, owed>>

AlertTick ==
    /\ now < MaxNow
    /\ now' = now + 1
    /\ UNCHANGED <<alert, fired, owed>>

AlertNext ==
    \/ AlertTick
    \/ \E a \in Alerts :
          \/ Acknowledge(a) \/ RemoveAlert(a)
          \/ \E k \in AlertKinds, c \in Conditions, v \in Levels : CreateAlert(a, k, c, v)
    \/ \E k \in AlertKinds, v \in Levels : Evaluate(k, v)

AlertSpec == AlertInit /\ [][AlertNext]_alertVars

-----------------------------------------------------------------------------
(* Properties                                                              *)

(* An alert that an evaluation met in its lifetime has fired, once, and no *)
(* alert fires twice: nothing makes a triggered alert active again, so the *)
(* cooldown, "Min seconds between re-triggers", never refuses anything. An *)
(* alert found expired has not fired, and one whose condition is neither   *)
(* "above" nor "below" (pct_change of a price) never does.                 *)
AlertsFireOnce ==
    \A a \in Alerts :
       /\ fired[a] = IF a \in owed THEN 1 ELSE 0
       /\ alert[a].status = "active" => fired[a] = 0 /\ alert[a].lastTriggered = Never
       /\ alert[a].status = "expired" => fired[a] = 0
       /\ alert[a].condition = "other" => fired[a] = 0
=============================================================================
