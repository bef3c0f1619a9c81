----------------------------- MODULE AutoRestart -----------------------------
(***************************************************************************)
(* SelfHealingManager and the AutoRestart it drives.  handle_failure looks  *)
(* at the budget, sleeps for restart_delay and restarts; it holds no lock,  *)
(* so several callers may sleep at once, and a healthy check or a new       *)
(* registration may set the count back while they do.                      *)
(***************************************************************************)
EXTENDS Integers, FiniteSets

CONSTANTS
    Callers,        \* threads that report failures or check by hand
    MaxRestarts     \* config max_restarts

AutoRestartAssumption == IsFiniteSet(Callers) /\ Callers # {} /\ MaxRestarts \in Nat

VARIABLES
    working,        \* what check_func of the component answers: "up", "down" or "raises"
    restarts,       \* AutoRestart.restart_counts
    caller          \* [Callers -> "idle" or "waiting", inside handle_failure]

vars == <<working, restarts, caller>>

\* The counter of the model stops well above what the property allows.
Most == MaxRestarts + 2 * Cardinality(Callers)
Inc(n) == IF n < Most THEN n + 1 ELSE n

\* handle_failure up to the sleep; with the budget spent it returns False.
HandleFailure(t) ==
    caller' = [caller EXCEPT ![t] = IF restarts >= MaxRestarts THEN @ ELSE "waiting"]

\* on_health_alert of a critical component: its health callback, then the failure.
OnHealthAlert(t) ==
    /\ caller[t] = "idle"
    /\ HandleFailure(t)
    /\ UNCHANGED <<working, restarts>>

\* The second half of handle_failure: a restart that raises is not counted.
Restart(t) ==
    /\ caller[t] = "waiting"
    /\ caller' = [caller EXCEPT ![t] = "idle"]
    /\ \/ working' = "up" /\ restarts' = Inc(restarts)
       \/ UNCHANGED <<working, restarts>>

\* reset_restart_count.
ResetRestartCount == restarts' = 0

\* check_and_heal: a healthy component gets its budget back.
CheckAndHeal(t) ==
    /\ caller[t] = "idle"
    /\ IF working = "up"
       THEN ResetRestartCount /\ UNCHANGED caller
       ELSE HandleFailure(t) /\ UNCHANGED restarts
    /\ UNCHANGED working

\* auto_restart_component registers, which also resets the count, and reports a failure.
AutoRestartComponent(t) ==
    /\ caller[t] = "idle"
    /\ restarts' = 0
    /\ caller' = [caller EXCEPT ![t] = IF MaxRestarts = 0 THEN @ ELSE "waiting"]
    /\ UNCHANGED working

Breaks ==
    /\ working = "up" /\ working' \in {"down", "raises"}
    /\ UNCHANGED <<restarts, caller>>

\* register_for_healing.
Init ==
    /\ working = "up"
    /\ restarts = 0
    /\ caller = [t \in Callers |-> "idle"]

Next ==
    \/ \E t \in Callers : OnHealthAlert(t) \/ Restart(t) \/ CheckAndHeal(t) \/ AutoRestartComponent(t)
    \/ Breaks

-----------------------------------------------------------------------------
TypeOK ==
    /\ working \in {"up", "down", "raises"}
    /\ restarts \in 0 .. Most
    /\ caller \in [Callers -> {"idle", "waiting"}]

\* Since the budget was last reset there were at most max_restarts successful
\* restarts, and one more for each further caller that was asleep in handle_failure
\* when the last of them was counted.
BudgetNearlyKept == restarts <= MaxRestarts + Cardinality(Callers) - 1
=============================================================================
