------------------------------ MODULE Healing ------------------------------
(***************************************************************************)
(* From a failing health check to a restart: HealthMonitor (a loop that     *)
(* checks every component), the alert it publishes, IntegratedHealing-      *)
(* Manager (which restarts the component in the thread that published) and  *)
(* HealingEffectivenessTracker (which hears of the outcome).                *)
(*                                                                         *)
(* The bus delivers locally in the publishing thread, so a restart runs     *)
(* inside the check that found the failure.  A monitor that is stopped and  *)
(* started again within its interval has two loops: stop joins for five     *)
(* seconds only.  Counters saturate at what they are compared with.         *)
(***************************************************************************)
EXTENDS Integers, FiniteSets

CONSTANTS
    Components,     \* registered with the monitor
    Healable,       \* those also registered with integrated healing
    Critical,       \* those registered as critical
    MaxRestarts,    \* config max_restarts
    Loops,          \* the monitor loops there may be
    Operator        \* the thread of whoever calls force_health_check or check_and_heal

Nobody == "nobody"
HealingAssumption == IsFiniteSet(Loops) /\ MaxRestarts \in Nat /\ Nobody \notin Healable

VARIABLES
    health,         \* what check_func would answer: "up", "down" or "raises"
    monitoring,     \* HealthMonitor.running
    thread,         \* [Loops \cup {Operator} -> what it is doing]
    watched,        \* HealthMonitor.components
    healing,        \* IntegratedHealingManager.components and healing_stats
    tracker         \* HealingEffectivenessTracker.component_stats

vars == <<health, monitoring, thread, watched, healing, tracker>>

Threads == Loops \cup {Operator}
Inc(n, most) == IF n < most THEN n + 1 ELSE n

Asleep == [at |-> "asleep", todo |-> {}, heals |-> Nobody]
Gone == [at |-> "gone", todo |-> {}, heals |-> Nobody]
AllOf(cs) == [at |-> "round", todo |-> cs, heals |-> Nobody]

\* register_component of the monitor and of the manager, and the tracker's first
\* record; byAlert (history) counts the restarts that an alert asked for.
Registered == [failures |-> 0, status |-> "unknown"]
Unhurt == [restarts |-> 0, byAlert |-> 0]
Untried == [ok |-> 0, failed |-> 0]

-----------------------------------------------------------------------------
(* HealthMonitor *)

Start ==
    /\ ~monitoring
    /\ monitoring' = TRUE
    /\ \E l \in Loops :
          /\ thread[l].at = "gone"
          /\ thread' = [thread EXCEPT ![l] = AllOf(Components)]
    /\ UNCHANGED <<health, watched, healing, tracker>>

\* stop clears the flag; a loop that sleeps or heals longer than the join sees it later.
Stop ==
    /\ monitoring' = FALSE
    /\ UNCHANGED <<health, thread, watched, healing, tracker>>

\* The head of _monitor_loop, after the sleep.
Wake(l) ==
    /\ thread[l].at = "asleep"
    /\ thread' = [thread EXCEPT ![l] = IF monitoring THEN AllOf(Components) ELSE Gone]
    /\ UNCHANGED <<health, monitoring, watched, healing, tracker>>

ForceHealthCheck ==
    /\ thread[Operator].at = "gone"
    /\ thread' = [thread EXCEPT ![Operator] = AllOf(Components)]
    /\ UNCHANGED <<health, monitoring, watched, healing, tracker>>

\* The round is over: a loop goes to sleep, the operator's call returns.
EndRound(t) ==
    /\ thread[t].at = "round" /\ thread[t].todo = {}
    /\ thread' = [thread EXCEPT ![t] = IF t = Operator THEN Gone ELSE Asleep]
    /\ UNCHANGED <<health, monitoring, watched, healing, tracker>>

Checked(t, c) == [thread EXCEPT ![t].todo = @ \ {c}]

FindsHealthy(t, c) ==
    /\ health[c] = "up"
    /\ watched' = [watched EXCEPT ![c] = [failures |-> 0, status |-> "healthy"]]
    /\ thread' = Checked(t, c)

\* A check that raises counts as a failure and raises no alert.
FindsError(t, c) ==
    /\ health[c] = "raises"
    /\ watched' = [watched EXCEPT ![c] = [failures |-> Inc(@.failures, 4), status |-> "error"]]
    /\ thread' = Checked(t, c)

\* Variants of _select_healing_action and of the budget check.
SelectNoEscalation(c, failures) ==
    IF failures = 1 THEN "restart"
    ELSE IF failures <= 3 THEN "restart_with_reset"
    ELSE "none"
SelectHealingAction(c, failures) ==
    IF failures = 1 THEN "restart"
    ELSE IF failures <= 3 THEN "restart_with_reset"
    ELSE IF c \in Critical THEN "escalate" ELSE "none"

OverBudgetNever(c) == FALSE
OverBudget(c) == healing[c].restarts >= MaxRestarts

\* _handle_component_failure up to the call of restart_func.
OnHealthAlert(t, c, failures) ==
    thread' = IF c \in Healable /\ ~OverBudget(c) /\ SelectHealingAction(c, failures) # "none"
              THEN [thread EXCEPT ![t] = [@ EXCEPT !.at = "healing", !.heals = c]]
              ELSE Checked(t, c)

\* The third failure in a row and every later one raises the alert.
FindsFailing(t, c) ==
    LET failures == Inc(watched[c].failures, 4)
    IN  /\ health[c] = "down"
        /\ watched' = [watched EXCEPT ![c] = [failures |-> failures, status |-> "unhealthy"]]
        /\ IF failures >= 3
           THEN OnHealthAlert(t, c, failures)
           ELSE thread' = Checked(t, c)

\* One turn of the loop in _perform_health_check.
CheckComponent(t) ==
    /\ thread[t].at = "round"
    /\ \E c \in thread[t].todo : FindsHealthy(t, c) \/ FindsError(t, c) \/ FindsFailing(t, c)
    /\ UNCHANGED <<health, monitoring, healing, tracker>>

-----------------------------------------------------------------------------
(* IntegratedHealingManager *)

\* check_and_heal asks the check itself and has no budget.
CheckAndHeal(c) ==
    /\ c \in Healable /\ thread[Operator].at = "gone"
    /\ health[c] # "up"
    /\ thread' = [thread EXCEPT ![Operator] = [@ EXCEPT !.at = "healing", !.heals = c]]
    /\ UNCHANGED <<health, monitoring, watched, healing, tracker>>

\* record_action of the tracker, called by _on_healing_event: three failed actions
\* in a row make a component problematic.
RecordAction(c, success) ==
    tracker' = [tracker EXCEPT ![c] =
        [ok |-> IF success THEN Inc(@.ok, MaxRestarts) ELSE @.ok,
         failed |-> IF success THEN 0 ELSE Inc(@.failed, 3)]]

Healed(c, success, onAlert) ==
    healing' = [healing EXCEPT ![c] =
        [restarts |-> IF success THEN Inc(@.restarts, MaxRestarts) ELSE @.restarts,
         byAlert |-> IF onAlert /\ success THEN Inc(@.byAlert, MaxRestarts + Cardinality(Threads))
                     ELSE @.byAlert]]

\* The rest of _execute_healing: restart_func has returned or raised, the books
\* are written and HEALING_ACTION_COMPLETED is published.
ExecuteHealing(t) ==
    LET c == thread[t].heals
    IN  /\ thread[t].at = "healing"
        /\ \E success \in BOOLEAN :
              /\ health' = IF success THEN [health EXCEPT ![c] = "up"] ELSE health
              /\ Healed(c, success, c \in thread[t].todo)
              /\ RecordAction(c, success)
        /\ thread' = [thread EXCEPT ![t] = IF c \in @.todo THEN AllOf(@.todo \ {c}) ELSE Gone]
        /\ UNCHANGED <<monitoring, watched>>

-----------------------------------------------------------------------------
\* A component breaks, starts to answer its check with an exception, or recovers.
Changes(c) ==
    /\ \E h \in {"up", "down", "raises"} \ {health[c]} : health' = [health EXCEPT ![c] = h]
    /\ UNCHANGED <<monitoring, thread, watched, healing, tracker>>

Init ==
    /\ health = [c \in Components |-> "up"]
    /\ monitoring = FALSE
    /\ thread = [t \in Threads |-> Gone]
    /\ watched = [c \in Components |-> Registered]
    /\ healing = [c \in Components |-> Unhurt]
    /\ tracker = [c \in Components |-> Untried]

Step(t) == CheckComponent(t) \/ EndRound(t) \/ ExecuteHealing(t)

Next ==
    \/ Start
    \/ Stop
    \/ \E l \in Loops : Wake(l)
    \/ ForceHealthCheck
    \/ \E t \in Threads : Step(t)
    \/ \E c \in Components : CheckAndHeal(c) \/ Changes(c)

\* Threads are scheduled, and restart_func returns or raises.
Fairness ==
    /\ \A t \in Threads : WF_vars(Step(t))
    /\ \A l \in Loops : WF_vars(Wake(l))

-----------------------------------------------------------------------------
(* Properties. *)

TypeOK ==
    /\ health \in [Components -> {"up", "down", "raises"}]
    /\ monitoring \in BOOLEAN
    /\ \A t \in Threads :
          /\ thread[t].at \in {"gone", "asleep", "round", "healing"}
          /\ thread[t].todo \subseteq Components
          /\ thread[t].at = "healing" <=> thread[t].heals \in Healable
    /\ \A c \in Components :
          /\ watched[c].status \in {"unknown", "healthy"} <=> watched[c].failures = 0
          /\ healing[c].restarts \in 0 .. MaxRestarts

\* max_restarts is read before a restart that takes seconds and counted after it,
\* so each further thread that checks at the same time can add one; nothing else can.
BudgetNearlyKept ==
    \A c \in Components :
        healing[c].byAlert <= MaxRestarts + Cardinality(Loops)

\* While a monitor loop runs, a critical component does not stay down unattended:
\* it is restarted again and again until a restart helps or the budget is spent.
\* (The budget counts the restarts of all its life and never comes back.)
CriticalTended ==
    \A c \in Critical \cap Healable :
        \/ []<>(health[c] # "down")
        \/ []<>(\E t \in Threads : thread[t].heals = c)
        \/ <>(healing[c].restarts >= MaxRestarts)
        \/ []<>(~monitoring)
=============================================================================
