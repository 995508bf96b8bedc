------------------------------- MODULE MCParts --------------------------------
(* The parts of the service and its clients that share no state, side by    *)
(* side: every behaviour is one of a single part, chosen at the start.       *)
EXTENDS RateLimiter, EventBus, Containers, Meters, Lifecycle, Panels, ClientListeners,
        PluginModules

CONSTANTS t1, jsApp, etsApp, otherApp, bundle1, bundle2
VARIABLE subject

Sliding(w, c) == [strategy |-> "SLIDING_WINDOW", window |-> w, capacity |-> c, refill |-> 0]
MCLevels ==
  {<<Sliding(2, 1), Sliding(3, 2)>>,
   <<[strategy |-> "TOKEN_BUCKET", window |-> 2, capacity |-> 1, refill |-> 1]>>,
   <<[strategy |-> "FIXED_WINDOW", window |-> 2, capacity |-> 1, refill |-> 1]>>}
MCTransitions ==
  <<[from |-> "A", trigger |-> "x", to |-> "B"], [from |-> "A", trigger |-> "x", to |-> "C"],
    [from |-> "B", trigger |-> "y", to |-> "A"], [from |-> "C", trigger |-> "y", to |-> "C"]>>
MCRetry == [initialDelay |-> 100, maxDelay |-> 500, multiplier |-> 2, maxRetries |-> 3]
MCBundleOf == [c \in {jsApp, etsApp, otherApp} |-> IF c = otherApp THEN bundle2 ELSE bundle1]

\* The script's subscriptions to a panel are checked with one other thread.
Subjects == {"limiter", "bus", "cache", "pool", "machine", "mapper", "meters", "metrics",
             "life", "panels", "watched panels", "clients", "modules"}

\* A step of a subject; the variables of all others keep their values.
Chosen(name) == subject = name /\ UNCHANGED subject
AllBut(name) ==
  /\ name # "limiter" => UNCHANGED limiterVars
  /\ name # "bus" => UNCHANGED busVars
  /\ name # "cache" => UNCHANGED cacheVars
  /\ name # "pool" => UNCHANGED poolVars
  /\ name # "machine" => UNCHANGED machineVars
  /\ name # "mapper" => UNCHANGED mapperVars
  /\ name # "meters" => UNCHANGED meterVars
  /\ name # "metrics" => UNCHANGED metricVars
  /\ name # "life" => UNCHANGED lifeVars
  /\ name \notin {"panels", "watched panels"} => UNCHANGED panelVars
  /\ name # "clients" => UNCHANGED listenerVars
  /\ name # "modules" => UNCHANGED moduleVars

Init ==
  /\ LimiterInit /\ BusInit /\ CacheInit /\ PoolInit /\ MachineInit /\ MapperInit
  /\ MeterInit /\ MetricsInit /\ LifeInit /\ PanelsInit /\ ListenersInit /\ ModulesInit
  /\ subject \in Subjects
  /\ subject # "limiter" => levels = <<Sliding(2, 1), Sliding(3, 2)>>
  /\ subject # "life" => up = {}
  /\ subject # "clients" => app = bundle1
  /\ subject # "modules" => tableVersion = 0

Next ==
  \/ (Chosen("limiter") /\ LimiterNext /\ AllBut("limiter"))
  \/ (Chosen("bus") /\ BusNext /\ AllBut("bus"))
  \/ (Chosen("cache") /\ CacheNext /\ AllBut("cache"))
  \/ (Chosen("pool") /\ PoolNext /\ AllBut("pool"))
  \/ (Chosen("machine") /\ MachineNext /\ AllBut("machine"))
  \/ (Chosen("mapper") /\ MapperNext /\ AllBut("mapper"))
  \/ (Chosen("meters") /\ MeterNext /\ AllBut("meters"))
  \/ (Chosen("metrics") /\ MetricsNext /\ AllBut("metrics"))
  \/ (Chosen("life") /\ LifeNext /\ AllBut("life"))
  \/ (Chosen("panels") /\ PanelSteps(Callers) /\ AllBut("panels"))
  \/ (Chosen("watched panels") /\ (PanelSteps({t1}) \/ WatchSteps) /\ AllBut("watched panels"))
  \/ (Chosen("clients") /\ ListenersNext /\ AllBut("clients"))
  \/ (Chosen("modules") /\ ModulesNext /\ AllBut("modules"))
================================================================================
