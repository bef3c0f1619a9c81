----------------------------- MODULE Watchdog -----------------------------
(***************************************************************************)
(* watchdog.py: the watchdog's thread, which runs beside an API gateway      *)
(* (api_gateway.py) and its engine in one process (run_watchdog).          *)
(*                                                                         *)
(* What the watchdog reads of the engine is the status that the engine's     *)
(* start and stop leave in this process's cache; a new process finds there   *)
(* what the last backup says.  The engine's own start may fail (the agent,   *)
(* vnpy, the strategy files), at most MaxFaults times.                      *)
(***************************************************************************)
EXTENDS Integers

CONSTANTS MaxFailures, MaxFaults

WatchdogAssumption == MaxFailures \in Nat \ {0} /\ MaxFaults \in Nat

VARIABLES serving,     \* the gateway's lifespan: before, during or after it
          engine,      \* TradingEngine.running
          status,      \* the "engine" status in the process's cache
          watching,    \* Watchdog.running
          failures,    \* failure_count
          phase,       \* the watchdog thread: asleep, or between stop and start of the engine
          faults

watchdogVars == <<serving, engine, status, watching, failures, phase, faults>>

TypeOK ==
    /\ serving \in {"before", "during", "after"} /\ engine \in BOOLEAN
    /\ status \in {"unknown", "running", "stopped", "restarting"}
    /\ watching \in BOOLEAN /\ failures \in 0..(MaxFailures - 1)
    /\ phase \in {"asleep", "restarting", "over"} /\ faults \in 0..MaxFaults

Init ==
    /\ serving = "before" /\ engine = FALSE /\ status = "unknown"
    /\ watching = TRUE /\ failures = 0 /\ phase = "asleep" /\ faults = 0

-----------------------------------------------------------------------------
\* The backup that the process loaded holds what an earlier one said.
FindStatus(old) ==
    /\ serving = "before" /\ status = "unknown" /\ status' = old
    /\ UNCHANGED <<serving, engine, watching, failures, phase, faults>>

\* TradingEngine.start: running is set first and the status last, so that a start
\* that raises leaves an engine that runs and a status that does not say so; a
\* running engine is left alone.
StartEngine ==
    \/ /\ engine /\ UNCHANGED <<engine, status, faults>>
    \/ /\ ~engine /\ engine' = TRUE /\ status' = "running" /\ UNCHANGED faults
    \/ /\ ~engine /\ faults < MaxFaults
       /\ engine' = TRUE /\ faults' = faults + 1 /\ UNCHANGED status

\* The gateway's lifespan starts the engine and, when the server ends, stops it; one
\* whose start raises does not serve.
Startup ==
    /\ serving = "before" /\ StartEngine
    /\ serving' = IF faults' = faults THEN "during" ELSE "after"
    /\ UNCHANGED <<watching, failures, phase>>

Shutdown ==
    /\ serving = "during" /\ serving' = "after"
    /\ engine' = FALSE /\ status' = "stopped"
    /\ UNCHANGED <<watching, failures, phase, faults>>

\* Watchdog.stop, or the end of the process (the thread is a daemon): the loop ends
\* with the round it is in.
StopWatchdog ==
    /\ watching /\ watching' = FALSE
    /\ UNCHANGED <<serving, engine, status, failures, phase, faults>>

\* _handle_failure with the count cleared at the end of every round.
HandleFailureAlone ==
    IF MaxFailures > 1
    THEN UNCHANGED <<failures, engine, status, phase>>
    ELSE /\ phase' = "restarting" /\ UNCHANGED failures
         /\ engine' = FALSE /\ status' = "stopped"

\* _handle_failure: the third failure stops the engine and puts it on again, and no
\* failure is forgotten before.  (The first half of _restart_engine.)
HandleFailure ==
    IF failures + 1 < MaxFailures
    THEN /\ failures' = failures + 1 /\ UNCHANGED <<engine, status, phase>>
    ELSE /\ phase' = "restarting" /\ UNCHANGED failures
         /\ engine' = FALSE /\ status' = "stopped"

\* One round of the loop: a status "stopped" is a failure, and every other a healthy
\* round, which changes nothing.
HealthCheck ==
    /\ watching /\ phase = "asleep" /\ status = "stopped"
    /\ HandleFailure
    /\ UNCHANGED <<serving, watching, faults>>

\* A round that raises is a failure too.
CheckRaises ==
    /\ watching /\ phase = "asleep" /\ faults < MaxFaults
    /\ faults' = faults + 1 /\ HandleFailure
    /\ UNCHANGED <<serving, watching>>

\* The second half of _restart_engine, two seconds later: the failures count from
\* zero again, whether the start helped or not.
RestartEngine ==
    /\ phase = "restarting"
    /\ StartEngine
    /\ failures' = 0 /\ phase' = IF watching THEN "asleep" ELSE "over"
    /\ UNCHANGED <<serving, watching>>

LoopEnds ==
    /\ phase = "asleep" /\ ~watching /\ phase' = "over"
    /\ UNCHANGED <<serving, engine, status, watching, failures, faults>>

Next ==
    \/ Startup \/ Shutdown \/ StopWatchdog \/ HealthCheck \/ CheckRaises
    \/ RestartEngine \/ LoopEnds
    \/ \E old \in {"running", "stopped"} : FindStatus(old)

\* The watchdog's loop goes on.
Fairness == WF_watchdogVars(HealthCheck) /\ WF_watchdogVars(RestartEngine) /\ WF_watchdogVars(LoopEnds)

-----------------------------------------------------------------------------
\* While the watchdog runs, an engine that was stopped is started again: three rounds
\* later, and as often as its start fails.
Revived == (status = "stopped" /\ watching) ~> (status = "running" \/ ~watching)

=============================================================================
