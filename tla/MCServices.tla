------------------------------ MODULE MCServices ------------------------------
(***************************************************************************)
(* The components around the engine that share no state with each other:   *)
(* the message queue, the live connector with its orders, the data feed,   *)
(* the graceful shutdown, the configuration and a circuit breaker. A       *)
(* behaviour is one of one component, chosen at its start: interleaving    *)
(* components that share nothing adds nothing.                             *)
(***************************************************************************)
EXTENDS MessageQueue, LiveOrders, DataFeed, GracefulShutdown, ConfigStore, CircuitBreaker

MCFrames == <<1, 3>>
MCCbPhases == <<"orders", "cleanup">>
MCRegistrations ==
    {[orders |-> "asking", positions |-> p] : p \in {"none", "acting"}}

VARIABLE part  \* the component this behaviour is one of

svcVars == <<part, queueVars, liveVars, feedVars, sdVars, configVars, vars>>

Parts == {"queue", "orders", "feed", "shutdown", "config", "breaker"}

ServicesInit ==
    /\ part \in Parts
    /\ QueueInit /\ LiveInit /\ FeedInit /\ SdInit /\ ConfigInit /\ Init
    /\ part # "orders" => linked = {}

ServicesNext ==
    /\ UNCHANGED part
    /\ \/ part = "queue" /\ QueueNext
          /\ UNCHANGED <<liveVars, feedVars, sdVars, configVars, vars>>
       \/ part = "orders" /\ LiveNext
          /\ UNCHANGED <<queueVars, feedVars, sdVars, configVars, vars>>
       \/ part = "feed" /\ FeedNext
          /\ UNCHANGED <<queueVars, liveVars, sdVars, configVars, vars>>
       \/ part = "shutdown" /\ SdNext
          /\ UNCHANGED <<queueVars, liveVars, feedVars, configVars, vars>>
       \/ part = "config" /\ ConfigNext
          /\ UNCHANGED <<queueVars, liveVars, feedVars, sdVars, vars>>
       \/ part = "breaker" /\ Next
          /\ UNCHANGED <<queueVars, liveVars, feedVars, sdVars, configVars>>

othersOfBreaker == <<part, queueVars, liveVars, feedVars, sdVars, configVars>>

(* A call that can go on does, and so does a shutdown that is under way.   *)
(* Of the breaker: time passes, guarded calls end, and some thread keeps   *)
(* calling.                                                                *)
ServicesFairness ==
    /\ \A c \in Callers : WF_svcVars(part = "orders" /\ Proceeds(c)
            /\ UNCHANGED <<part, orderVars, queueVars, feedVars, sdVars, configVars, vars>>)
    /\ WF_svcVars(part = "shutdown" /\ SdProceeds
                      /\ UNCHANGED <<part, queueVars, liveVars, feedVars, configVars, vars>>)
    /\ WF_svcVars(part = "breaker" /\ Elapse /\ UNCHANGED othersOfBreaker)
    /\ WF_svcVars(part = "breaker" /\ (\E t \in Threads : Admit(t)) /\ UNCHANGED othersOfBreaker)
    /\ \A t \in Threads : WF_svcVars(part = "breaker" /\ Finish(t) /\ UNCHANGED othersOfBreaker)

ServicesSpec == ServicesInit /\ [][ServicesNext]_svcVars /\ ServicesFairness
=============================================================================
