------------------------------- MODULE MCDesk -------------------------------
(***************************************************************************)
(* The components of the trading desk that share no state with each other: *)
(* the order manager, the two books, the risk guards, the task scheduler,  *)
(* the strategy lifecycle, the paper backend, the backtest, the agents,    *)
(* the weights and instances of strategies, the evolver and the strategy   *)
(* it writes, and the strategies' trades. A behaviour is one of one        *)
(* component, chosen at its start.                                         *)
(***************************************************************************)
EXTENDS OrderManager, TradeBooks, RiskDesk, TaskScheduler, StrategyLifecycle,
        PaperBackend, BacktestRun, StrategyAgents, StrategyAllocation, Evolution,
        SignalStrategies, TLC

CONSTANTS y1, y2, g1, g2

MCSymmetry == Permutations({y1, y2}) \cup Permutations({g1, g2})

MCSharpes == {-2, 4}

VARIABLE part  \* the component this behaviour is one of

Parts == {"orders", "books", "risk", "tasks", "strategies", "paper", "backtest", "agents",
          "weights", "factory", "evolver", "trader", "signals"}

simulationVars ==
    <<backendVars, backtestVars, agentVars, allocationVars, evolverVars, traderVars, signalVars>>

DeskInit ==
    /\ part \in Parts
    /\ OmsInit /\ BooksInit /\ RiskInit /\ SchedInit /\ LifeInit
    /\ BackendInit /\ BacktestInit /\ AgentInit /\ AllocationInit /\ EvolverInit /\ TraderInit
    /\ SignalInit
    /\ part # "risk" => \A e \in EquityLevels : e <= equity
    /\ part # "agents" => decision = Undecided(CHOOSE s \in Managed : TRUE)
    /\ part # "strategies" => \A s \in Strategies, n \in StreakLimits : n <= streakCap[s]
    /\ part # "evolver" => \A i \in DOMAIN population : population[i].fitness = Max(Fitnesses)
    /\ part # "trader" => exitBy = "trailing_stop" /\ direction = "both"
    /\ part # "signals" => followed = "dca"

(* What is tried and decided without the market: on paper, on past bars,   *)
(* by agents, by the orchestrator and the factory, and by evolution.       *)
SimulationNext ==
    \/ part = "paper" /\ BackendNext
       /\ UNCHANGED <<backtestVars, agentVars, allocationVars, evolverVars, traderVars, signalVars>>
    \/ part = "backtest" /\ BacktestNext
       /\ UNCHANGED <<backendVars, agentVars, allocationVars, evolverVars, traderVars, signalVars>>
    \/ part = "agents" /\ AgentNext
       /\ UNCHANGED <<backendVars, backtestVars, allocationVars, evolverVars, traderVars, signalVars>>
    \/ part = "weights" /\ WeightNext
       /\ UNCHANGED <<backendVars, backtestVars, agentVars, evolverVars, traderVars, signalVars>>
    \/ part = "factory" /\ FactoryNext
       /\ UNCHANGED <<backendVars, backtestVars, agentVars, evolverVars, traderVars, signalVars>>
    \/ part = "evolver" /\ EvolveGeneration
       /\ UNCHANGED <<backendVars, backtestVars, agentVars, allocationVars, signalVars>>
    \/ part = "trader" /\ OnBar
       /\ UNCHANGED <<backendVars, backtestVars, agentVars, allocationVars, signalVars>>
    \/ part = "signals" /\ SignalNext
       /\ UNCHANGED <<backendVars, backtestVars, agentVars, allocationVars, evolverVars,
                      traderVars>>

DeskNext ==
    /\ UNCHANGED part
    /\ \/ part = "orders" /\ OmsNext
          /\ UNCHANGED <<bookVars, riskVars, schedVars, lifeVars, simulationVars>>
       \/ part = "books" /\ BooksNext
          /\ UNCHANGED <<omsVars, riskVars, schedVars, lifeVars, simulationVars>>
       \/ part = "risk" /\ RiskNext
          /\ UNCHANGED <<omsVars, bookVars, schedVars, lifeVars, simulationVars>>
       \/ part = "tasks" /\ SchedNext
          /\ UNCHANGED <<omsVars, bookVars, riskVars, lifeVars, simulationVars>>
       \/ part = "strategies" /\ LifeNext
          /\ UNCHANGED <<omsVars, bookVars, riskVars, schedVars, simulationVars>>
       \/ SimulationNext /\ UNCHANGED <<omsVars, bookVars, riskVars, schedVars, lifeVars>>

deskVars == <<part, omsVars, bookVars, riskVars, schedVars, lifeVars, simulationVars>>

DeskSpec == DeskInit /\ [][DeskNext]_deskVars

-----------------------------------------------------------------------------

(* What is tried and decided without the market is accounted for: the      *)
(* paper backend (exchanges/paper_exchange.py), the backtest               *)
(* (backtesting/engine.py), the agents' decisions                          *)
(* (agents/strategy_agent.py), the weights and signals of strategies       *)
(* (strategies/multi_strategy/orchestrator.py), the factory's instances    *)
(* (evolution/strategy_factory.py), the evolver with the strategy it       *)
(* writes (evolution/self_evolver.py), and the trades that strategies      *)
(* believe to be in. Each part is stated in its module.                    *)
SimulationsAccounted ==
    /\ part = "paper" => BackendTypeOK /\ BackendSolvent
    /\ part = "backtest" => BacktestTypeOK /\ BacktestAccounted
    /\ part = "agents" => AgentTypeOK /\ AgentDecides
    /\ part = "weights" => AllocationTypeOK /\ WeightsHold /\ SignalsResolved
    /\ part = "factory" => AllocationTypeOK /\ InstancesAccounted
    /\ part = "evolver" => EvolverTypeOK /\ BestSurvives
    /\ part = "trader" => TraderTypeOK /\ TradeBeforeExit /\ EntriesMirror
    /\ part = "signals" => SignalTypeOK /\ StrategiesKeepTrack
=============================================================================
