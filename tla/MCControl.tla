----------------------------- MODULE MCControl -----------------------------
(***************************************************************************)
(* The control layer: circuit breakers, health monitoring and healing, auto *)
(* restart, hot reload, self-awareness, goals, the emergency stops, the     *)
(* data bridge, the optimizer of the agents, and the alerts and statistics  *)
(* that the bus's events lead to.  They share no variable, so a behaviour   *)
(* picks one of them (focus) and the others stand still: the state spaces   *)
(* add up instead of multiplying.                                          *)
(***************************************************************************)
EXTENDS CircuitBreaker, KillSwitch

CONSTANTS Components, Healable, Critical, MaxRestarts, Loops, Operator,
          Keys, Watcher, User, MaxWrites, Layers, MaxErrors, MaxWarnings, Cooldown,
          RetrainAfter, MinTrades, RateAfter, MaxCapital, Keep, Reached,
          Controllers, Feeds, MockFeeds,
          Recorders, Units, EnoughTasks, EnoughRuns, TasksPerPoint, RunsPerPoint, Top,
          MaxBottlenecks, Named, MaxRecords, MaxRounds, MaxHours,
          Actions, MaxHistory, MinSamples, EffectivePercent, MinUses, MaxReports

VARIABLES focus,
          health, monitoring, thread, watched, healing, tracker,
          working, restarts, caller,
          file, config, modified, watching, reloader, applied, raced,
          layer, breaker, system, trades, trainedAgo, running, loop,
          goal, capitals, results, peak, drawdown, highest,
          connected, generating, feeding, latest, control,
          hour, count, rate, duration, bottlenecks, recorder, on, rounds, files, wins, mixed,
          redis_up, pending, reported, healings, sent, component_stats, healing_history, recording

Healing == INSTANCE Healing
Restart == INSTANCE AutoRestart
Reload == INSTANCE ConfigReload
Aware == INSTANCE SelfAwareness
Bridge == INSTANCE DataBridge
Opt == INSTANCE Optimizer WITH
    now <- hour, loops <- rounds, Keep <- MaxBottlenecks, MaxStarts <- MaxRounds,
    MaxNow <- MaxHours
Told == INSTANCE Alerts WITH Healed <- Healable, SuccessThreshold <- EffectivePercent

ASSUME ControlAssumption ==
    /\ Healing!HealingAssumption /\ Restart!AutoRestartAssumption /\ Reload!ReloadAssumption
    /\ Aware!AwareAssumption /\ KillSwitchAssumption
    /\ Opt!OptimizerAssumption /\ Told!AlertsAssumption

\* Two breakers, one of which has no record_* methods, and timeouts that differ.
MCThreshold == [c \in {"order", "strategy"} |-> 5]
MCTimeout == [c \in {"order", "strategy"} |-> IF c = "order" THEN 3 ELSE 4]

-----------------------------------------------------------------------------
healingVars == <<health, monitoring, thread, watched, healing, tracker>>
restartVars == <<working, restarts, caller>>
reloadVars == <<file, config, modified, watching, reloader, applied, raced>>
awareVars == <<layer, breaker, system, trades, trainedAgo, running, loop>>
goalsVars == <<goal, capitals, results, peak, drawdown, highest>>
bridgeVars == <<connected, generating, feeding, latest, control>>
optVars == <<hour, count, rate, duration, bottlenecks, recorder, on, rounds, files, wins, mixed>>
toldVars == <<redis_up, pending, reported, healings, sent, component_stats, healing_history, recording>>
controlVars == <<vars, focus, healingVars, restartVars, reloadVars, awareVars,
                 goalsVars, switchVars, bridgeVars, optVars, toldVars>>

ControlInit ==
    /\ focus \in {"breakers", "healing", "restart", "reload", "aware", "goals", "switch", "bridge",
                "optimizer", "told"}
    /\ Init /\ Healing!Init /\ Restart!Init /\ Reload!Init /\ Aware!AwareInit
    /\ Aware!GoalsInit /\ SwitchInit /\ Bridge!Init /\ Opt!Init /\ Told!Init
    /\ focus # "told" => ~redis_up

BreakersTurn ==
    focus = "breakers" /\ UNCHANGED <<focus, healingVars, restartVars, reloadVars,
                     awareVars, goalsVars, switchVars, bridgeVars, optVars, toldVars>>
HealingTurn ==
    focus = "healing" /\ UNCHANGED <<focus, vars, restartVars, reloadVars, awareVars,
                     goalsVars, switchVars, bridgeVars, optVars, toldVars>>
RestartTurn ==
    focus = "restart" /\ UNCHANGED <<focus, vars, healingVars, reloadVars, awareVars,
                     goalsVars, switchVars, bridgeVars, optVars, toldVars>>
ReloadTurn ==
    focus = "reload" /\ UNCHANGED <<focus, vars, healingVars, restartVars, awareVars,
                     goalsVars, switchVars, bridgeVars, optVars, toldVars>>
AwareTurn ==
    focus = "aware" /\ UNCHANGED <<focus, vars, healingVars, restartVars, reloadVars,
                     goalsVars, switchVars, bridgeVars, optVars, toldVars>>
GoalsTurn ==
    focus = "goals" /\ UNCHANGED <<focus, vars, healingVars, restartVars, reloadVars,
                     awareVars, switchVars, bridgeVars, optVars, toldVars>>
SwitchTurn ==
    focus = "switch" /\ UNCHANGED <<focus, vars, healingVars, restartVars, reloadVars,
                     awareVars, goalsVars, bridgeVars, optVars, toldVars>>
BridgeTurn ==
    focus = "bridge" /\ UNCHANGED <<focus, vars, healingVars, restartVars, reloadVars,
                     awareVars, goalsVars, switchVars, optVars, toldVars>>
OptTurn ==
    focus = "optimizer" /\ UNCHANGED <<focus, vars, healingVars, restartVars, reloadVars,
                     awareVars, goalsVars, switchVars, bridgeVars, toldVars>>

ToldTurn ==
    focus = "told" /\ UNCHANGED <<focus, vars, healingVars, restartVars, reloadVars,
                     awareVars, goalsVars, switchVars, bridgeVars, optVars>>

ControlNext ==
    \/ BreakersTurn /\ Next
    \/ HealingTurn /\ Healing!Next
    \/ RestartTurn /\ Restart!Next
    \/ ReloadTurn /\ Reload!Next
    \/ AwareTurn /\ Aware!AwareNext
    \/ GoalsTurn /\ Aware!GoalsNext
    \/ SwitchTurn /\ SwitchNext
    \/ BridgeTurn /\ Bridge!Next
    \/ OptTurn /\ Opt!Next
    \/ ToldTurn /\ Told!Next

\* The fairness of every component; of one that stands still in its initial state no
\* fair action is enabled.
ControlSpec ==
    /\ ControlInit /\ [][ControlNext]_controlVars
    /\ WF_vars(Tick) /\ \A c \in Circuits : WF_vars(CheckAllowed(c))
    /\ Healing!Fairness /\ Reload!Fairness /\ Aware!Fairness /\ Bridge!Fairness

-----------------------------------------------------------------------------
\* Every part is well formed.
PartsTypeOK ==
    /\ TypeOK /\ Healing!TypeOK /\ Restart!TypeOK /\ Reload!TypeOK /\ Aware!AwareTypeOK
    /\ Aware!GoalsTypeOK /\ SwitchTypeOK /\ Bridge!TypeOK /\ Opt!TypeOK

\* What the system records of itself is what happened: the optimizer's averages are means and
\* the urgent finding comes first, an event raises one whole alert at most, the statistics of
\* healing add up over two threads and advice taken from them is earned.
RecordsAreTrue ==
    /\ PartsTypeOK
    /\ Opt!RatesAreMeans /\ Opt!UrgentFirst
    /\ Told!AlertsMatchEvents /\ Told!StatsAddUp /\ Told!HistoryBounded
    /\ Told!AdviceIsEarned /\ Told!EveryActionCondemned

\* Healing restarts a component no more often than its budget and the threads that
\* were inside a restart together (IntegratedHealingManager and AutoRestart).
BudgetNearlyKept == Healing!BudgetNearlyKept /\ Restart!BudgetNearlyKept

\* Drawdowns are measured from the highest capital of all.
PeakIsHighest == Aware!PeakIsHighest

\* The control loops do their work at last: a critical component that is down is restarted
\* until a restart helps or the budget is spent, watched configuration reaches the components
\* once nobody edits the file, and a bridge that was disconnected falls silent.
ControlGoesOn == Healing!CriticalTended /\ Reload!CatchesUp /\ Bridge!FallsSilent
=============================================================================
