--------------------------- MODULE SelfAwareness ---------------------------
(***************************************************************************)
(* The system's picture of itself (paper_trading/layers/layer7_control).   *)
(* self_awareness.py: the state of the seven layers, their circuit breakers *)
(* and the retraining of the model, looked after by one monitoring loop     *)
(* while trades, errors, warnings and trips are recorded by other threads.  *)
(* Times are ages that saturate at the limit they are compared with; the    *)
(* comparison of averages in _detect_model_decay may come out either way.   *)
(*   goal_manager.py, which shares no state with it: a goal's value is      *)
(* abstracted to the status PerformanceGoal.update gives it, except for the *)
(* drawdown, which is computed from the capital and its peak because the    *)
(* Calmar ratio is computed from it later.                                  *)
(***************************************************************************)
EXTENDS Integers, Sequences, FiniteSets

CONSTANTS
    Layers,         \* layer_health's keys
    MaxErrors,      \* max_errors_before_action
    MaxWarnings,    \* max_warnings_before_degraded
    Cooldown,       \* circuit_breaker_cooldown, in rounds of the loop
    RetrainAfter,   \* model_retrain_interval, in rounds of the loop
    MinTrades,      \* min_trades_for_retrain
    MaxCapital,     \* capitals are 1 .. MaxCapital
    RateAfter,      \* trades before the win rate is a goal (10)
    Keep,           \* capitals kept when there are twice as many (500)
    Reached         \* the statuses a goal's value may have

\* What the constants are assumed to be.
AwareAssumption ==
    /\ {MaxErrors, Keep} \subseteq Nat \ {0}
    /\ {MaxWarnings, Cooldown, RetrainAfter, MinTrades, RateAfter} \subseteq Nat

VARIABLES
    layer,          \* layer_health: [Layers -> [status, errors, warnings]]
    breaker,        \* circuit_breakers: Untripped, or the age of the trip
    system,         \* system_status
    trades,         \* trade_count_since_retrain
    trainedAgo,     \* time since last_model_retrain
    running,        \* _running
    loop,           \* the monitoring loop: "off", or the call it is about to make
    goal,           \* goals: [Names -> status]
    capitals,       \* _capital_history
    results,        \* the number of _trade_results, as far as it matters
    peak,           \* _peak_capital
    drawdown,       \* whether max_drawdown.current_value is below 0
    highest         \* history: the highest capital of all

state == <<layer, breaker, system, trades, trainedAgo>>
awareVars == <<state, running, loop>>
goalVars == <<goal, capitals, results, peak, drawdown, highest>>

Untripped == -1
AtMost(n, most) == IF n > most THEN most ELSE n
Statuses == {"healthy", "degraded", "unhealthy", "recovering", "emergency"}

\* _init_layer_health.
Fresh == [status |-> "healthy", errors |-> 0, warnings |-> 0]

\* start; a loop that stop left asleep goes on (the second thread that start makes
\* then does the same rounds and is not modelled).
Start ==
    /\ ~running /\ running' = TRUE
    /\ loop' = IF loop = "off" THEN "health" ELSE loop
    /\ UNCHANGED state

Stop == running' = FALSE /\ UNCHANGED <<state, loop>>

-----------------------------------------------------------------------------
(* Healing actions *)

\* _healing_restart_layer: the count and the status are set before the data bridge
\* is reconnected, and stay so when that raises.
Restarted(health, works) == [health EXCEPT !.status = "recovering", !.errors = 0]

\* _healing_retrain_model: training that raises leaves both counters, so that the
\* next round tries again; too short a history counts as trained.
Retrain(works) ==
    IF works THEN trades' = 0 /\ trainedAgo' = 0 ELSE UNCHANGED <<trades, trainedAgo>>

\* _healing_reset_circuit_breaker, by hand: only this makes the layer healthy again.
ResetBreaker(l) ==
    /\ breaker' = [breaker EXCEPT ![l] = Untripped]
    /\ layer' = [layer EXCEPT ![l].status = "healthy"]
    /\ UNCHANGED <<system, trades, trainedAgo, running, loop>>

\* _healing_emergency_stop: the engine has no emergency_stop, so the action fails
\* after the status was set.
EmergencyStop ==
    /\ system' = "emergency"
    /\ UNCHANGED <<layer, breaker, trades, trainedAgo, running, loop>>

-----------------------------------------------------------------------------
(* What other threads record *)

\* _record_layer_error; the fifth restarts the layer.
WithError(health, works) ==
    IF health.errors + 1 >= MaxErrors
    THEN Restarted(health, works)
    ELSE [health EXCEPT !.errors = @ + 1]

RecordLayerError(l) ==
    /\ \E works \in BOOLEAN : layer' = [layer EXCEPT ![l] = WithError(@, works)]
    /\ UNCHANGED <<breaker, system, trades, trainedAgo, running, loop>>

RecordWarning(l) ==
    LET warnings == AtMost(layer[l].warnings + 1, MaxWarnings)
    IN  /\ layer' = [layer EXCEPT ![l] = [@ EXCEPT !.warnings = warnings,
                        !.status = IF warnings >= MaxWarnings THEN "degraded" ELSE @]]
        /\ UNCHANGED <<breaker, system, trades, trainedAgo, running, loop>>

RecordTrade ==
    /\ trades' = AtMost(trades + 1, MinTrades)
    /\ UNCHANGED <<layer, breaker, system, trainedAgo, running, loop>>

TripCircuitBreaker(l) ==
    /\ breaker' = [breaker EXCEPT ![l] = 0]
    /\ layer' = [layer EXCEPT ![l].status = "unhealthy"]
    /\ UNCHANGED <<system, trades, trainedAgo, running, loop>>

-----------------------------------------------------------------------------
(* One round of _monitoring_loop *)

\* _perform_health_check; each layer whose event cannot be published has an error.
PerformHealthCheck ==
    /\ loop = "health" /\ loop' = "model"
    /\ \E failing \in SUBSET Layers, works \in BOOLEAN :
          layer' = [l \in Layers |-> IF l \in failing THEN WithError(layer[l], works) ELSE layer[l]]
    /\ UNCHANGED <<breaker, system, trades, trainedAgo, running>>

\* _check_model_performance: by the clock, then by decay; both may train, and the
\* second does only when the first failed.
CheckModelPerformance ==
    /\ loop = "model" /\ loop' = "breakers"
    /\ \E works, decayed \in BOOLEAN :
          IF trainedAgo >= RetrainAfter \/ (trades >= MinTrades /\ decayed)
          THEN Retrain(works)
          ELSE UNCHANGED <<trades, trainedAgo>>
    /\ UNCHANGED <<layer, breaker, system, running>>

\* _check_circuit_breakers: the breaker is reset, the status of its layer is not.
CheckCircuitBreakers ==
    /\ loop = "breakers" /\ loop' = "status"
    /\ breaker' = [l \in Layers |-> IF breaker[l] >= Cooldown THEN Untripped ELSE breaker[l]]
    /\ UNCHANGED <<layer, system, trades, trainedAgo, running>>

Worst(statuses) ==
    IF "emergency" \in statuses THEN "emergency"
    ELSE IF "unhealthy" \in statuses THEN "unhealthy"
    ELSE IF "recovering" \in statuses THEN "recovering"
    ELSE IF "degraded" \in statuses THEN "degraded"
    ELSE "healthy"

UpdateSystemStatus ==
    /\ loop = "status" /\ loop' = "sleep"
    /\ system' = Worst({layer[l].status : l \in Layers})
    /\ UNCHANGED <<layer, breaker, trades, trainedAgo, running>>

\* The sleep between two rounds, in which every age grows, and the loop's condition.
Sleep ==
    /\ loop = "sleep" /\ loop' = IF running THEN "health" ELSE "off"
    /\ trainedAgo' = AtMost(trainedAgo + 1, RetrainAfter)
    /\ breaker' = [l \in Layers |-> IF breaker[l] = Untripped THEN Untripped
                                    ELSE AtMost(breaker[l] + 1, Cooldown)]
    /\ UNCHANGED <<layer, system, trades, running>>

Round == PerformHealthCheck \/ CheckModelPerformance \/ CheckCircuitBreakers
         \/ UpdateSystemStatus \/ Sleep

AwareInit ==
    /\ layer = [l \in Layers |-> Fresh]
    /\ breaker = [l \in Layers |-> Untripped]
    /\ system = "healthy"
    /\ trades = 0 /\ trainedAgo = 0
    /\ running = FALSE /\ loop = "off"

AwareNext ==
    \/ Start \/ Stop \/ Round
    \/ RecordTrade \/ EmergencyStop
    \/ \E l \in Layers : \/ RecordLayerError(l) \/ RecordWarning(l)
                         \/ TripCircuitBreaker(l) \/ ResetBreaker(l)

Fairness == WF_awareVars(Round)

-----------------------------------------------------------------------------
(* The goals *)

Names == {"sharpe_ratio", "max_drawdown", "daily_return", "win_rate",
          "model_accuracy", "calmar_ratio"}
GoalStatuses == Reached \cup {"not_started", "achieved", "degraded", "missed"}
Capitals == 1 .. MaxCapital
Greater(m, n) == IF m > n THEN m ELSE n

\* PerformanceGoal.update with some value.
Update(g) == \E status \in Reached : goal' = [goal EXCEPT ![g] = status]

\* More than twice Keep capitals: the last Keep stay.
Trimmed(s) == IF Len(s) > 2 * Keep THEN SubSeq(s, Len(s) - Keep + 1, Len(s)) ELSE s

\* _update_daily_return: today's capital against the first one kept.
DailyReturn(s, status) ==
    IF Len(s) < 2 THEN goal["daily_return"]
    ELSE IF s[Len(s)] = s[1] THEN "degraded"      \* a return of 0
    ELSE IF s[Len(s)] > s[1] THEN status ELSE "missed"

\* A variant that takes the latest capital for the peak.
ReplacePeak(capital) == peak' = capital
RaisePeak(capital) == peak' = Greater(peak, capital)

UpdateTradeResult(capital) ==
    /\ capitals' = Trimmed(Append(capitals, capital))
    /\ results' = AtMost(results + 1, RateAfter)
    /\ RaisePeak(capital)
    /\ \E gain, rate \in Reached :
          goal' = [goal EXCEPT !["daily_return"] = DailyReturn(capitals', gain),
                               !["win_rate"] = IF results' >= RateAfter THEN rate ELSE @]
    /\ highest' = Greater(highest, capital)
    /\ UNCHANGED drawdown

\* A goal that is missed or degraded is published as a HEALTH_ALERT of a component
\* that nothing has registered.
UpdateModelAccuracy ==
    /\ Update("model_accuracy")
    /\ UNCHANGED <<capitals, results, peak, drawdown, highest>>

UpdateReturns ==
    /\ Update("sharpe_ratio")
    /\ UNCHANGED <<capitals, results, peak, drawdown, highest>>

\* No drawdown is a value of 0, above every threshold.
UpdateMaxDrawdown(capital) ==
    /\ RaisePeak(capital) /\ highest' = Greater(highest, capital)
    /\ drawdown' = (capital < peak')
    /\ IF drawdown' THEN Update("max_drawdown") ELSE goal' = [goal EXCEPT !["max_drawdown"] = "achieved"]
    /\ UNCHANGED <<capitals, results>>

\* Without a drawdown there is nothing to divide by.
UpdateCalmarRatio ==
    /\ drawdown /\ Update("calmar_ratio")
    /\ UNCHANGED <<capitals, results, peak, drawdown, highest>>

Count(statuses) == Cardinality({g \in Names : goal[g] \in statuses})

\* get_overall_health
OverallHealth ==
    IF 2 * Count({"missed"}) > Cardinality(Names) THEN "critical"
    ELSE IF 3 * Count({"degraded", "missed"}) > Cardinality(Names) THEN "warning"
    ELSE IF 2 * Count({"achieved"}) > Cardinality(Names) THEN "healthy"
    ELSE "neutral"

GoalsInit ==
    /\ goal = [g \in Names |-> "not_started"]
    /\ capitals = <<>> /\ results = 0 /\ peak = 0 /\ drawdown = FALSE
    /\ highest = 0

GoalsNext ==
    \/ \E c \in Capitals : UpdateTradeResult(c) \/ UpdateMaxDrawdown(c)
    \/ UpdateModelAccuracy \/ UpdateReturns \/ UpdateCalmarRatio

-----------------------------------------------------------------------------
\* Both parts are well formed.
AwareTypeOK ==
    /\ layer \in [Layers -> [status : Statuses, errors : 0 .. MaxErrors, warnings : 0 .. MaxWarnings]]
    /\ breaker \in [Layers -> -1 .. Cooldown]
    /\ system \in Statuses
    /\ trades \in 0 .. MinTrades /\ trainedAgo \in 0 .. RetrainAfter
    /\ running \in BOOLEAN /\ loop \in {"off", "health", "model", "breakers", "status", "sleep"}

GoalsTypeOK ==
    /\ goal \in [Names -> GoalStatuses]
    /\ Len(capitals) <= 2 * Keep
    /\ OverallHealth = "healthy" => Count({"missed", "degraded"}) <= 2

\* The peak that drawdowns are measured from is the highest capital ever seen, also
\* after the capitals it was seen in have been trimmed away.
PeakIsHighest == peak = highest
=============================================================================
