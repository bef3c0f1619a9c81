----------------------------- MODULE KillSwitch -----------------------------
(***************************************************************************)
(* paper_trading/layers/layer2_risk/emergency_stop.py: the EmergencyStops   *)
(* of EmergencyStopManager, each with its lock, and the three counters that *)
(* pull one of them by themselves.  trigger runs the callbacks inside the   *)
(* lock; whoever else triggers or resets meanwhile waits.                  *)
(***************************************************************************)
EXTENDS Integers, FiniteSets

CONSTANTS
    Stops,          \* main, risk, data and system
    Callers,        \* threads that trigger or reset
    Callbacks,      \* those added with add_callback
    Threshold       \* fail_safe_triggers, the same for the three counters

VARIABLES
    triggered,      \* [Stops -> BOOLEAN]
    holder,         \* who holds each stop's lock, or Nobody
    told,           \* the callbacks trigger has still to run, and (history) the calls
                    \* each has had since the stop was last reset
    wants,          \* [Callers -> what it asked for and waits to do]
    losses, anomalies, gaps   \* the counters, all of one stop

switchVars == <<triggered, holder, told, wants, losses, anomalies, gaps>>
counters == <<losses, anomalies, gaps>>

Nobody == "nobody"
Nothing == [op |-> "nothing", stop |-> Nobody]
Saturated(n) == IF n > Threshold THEN Threshold ELSE n

\* Somebody calls trigger or reset and waits for the lock; trigger_risk_stop and its
\* siblings, trigger_emergency_stop and reset_all are such calls on their stop.
Want(t, op, s) ==
    /\ wants[t] = Nothing
    /\ wants' = [wants EXCEPT ![t] = [op |-> op, stop |-> s]]

Trigger(t, s) == Want(t, "trigger", s) /\ UNCHANGED <<triggered, holder, told, counters>>
Reset(t, s) == Want(t, "reset", s) /\ UNCHANGED <<triggered, holder, told, counters>>

\* A variant of trigger that does not look whether the stop is triggered already.
EnterUnlatched(t) ==
    LET s == wants[t].stop
    IN  /\ wants[t].op = "trigger" /\ holder[s] = Nobody
        /\ triggered' = [triggered EXCEPT ![s] = TRUE]
        /\ holder' = [holder EXCEPT ![s] = t]
        /\ told' = [told EXCEPT ![s] = [@ EXCEPT !.todo = Callbacks]]
        /\ UNCHANGED <<wants, counters>>

\* trigger inside the lock: latched, or set and then the callbacks.
EnterTrigger(t) ==
    LET s == wants[t].stop
    IN  /\ wants[t].op = "trigger" /\ holder[s] = Nobody
        /\ IF triggered[s]
           THEN wants' = [wants EXCEPT ![t] = Nothing] /\ UNCHANGED <<triggered, holder, told>>
           ELSE /\ triggered' = [triggered EXCEPT ![s] = TRUE]
                /\ holder' = [holder EXCEPT ![s] = t]
                /\ told' = [told EXCEPT ![s].todo = Callbacks]
                /\ UNCHANGED wants
        /\ UNCHANGED counters

Called(calls, c) == [calls EXCEPT ![c] = IF calls[c] < 2 THEN calls[c] + 1 ELSE 2]

\* One turn of _execute_callbacks; a callback that raises is logged and passed over.
ExecuteCallback(t) ==
    LET s == wants[t].stop
    IN  /\ wants[t].op = "trigger" /\ holder[s] = t
        /\ \E c \in told[s].todo :
              told' = [told EXCEPT ![s] = [todo |-> told[s].todo \ {c}, calls |-> Called(told[s].calls, c)]]
        /\ UNCHANGED <<triggered, holder, wants, counters>>

Leave(t) ==
    LET s == wants[t].stop
    IN  /\ wants[t].op = "trigger" /\ holder[s] = t /\ told[s].todo = {}
        /\ holder' = [holder EXCEPT ![s] = Nobody]
        /\ wants' = [wants EXCEPT ![t] = Nothing]
        /\ UNCHANGED <<triggered, told, counters>>

\* reset inside the lock; the counters keep what they have counted.
EnterReset(t) ==
    LET s == wants[t].stop
    IN  /\ wants[t].op = "reset" /\ holder[s] = Nobody
        /\ triggered' = [triggered EXCEPT ![s] = FALSE]
        /\ told' = [told EXCEPT ![s].calls = [c \in Callbacks |-> 0]]
        /\ wants' = [wants EXCEPT ![t] = Nothing]
        /\ UNCHANGED <<holder, counters>>

\* record_trade_pnl: from the third loss in a row on, every loss asks for the stop.
RecordTradePnl(t, s) ==
    \/ losses' = 0 /\ wants[t] = Nothing /\ UNCHANGED <<triggered, holder, told, wants, anomalies, gaps>>
    \/ /\ losses' = Saturated(losses + 1)
       /\ IF losses' >= Threshold THEN Want(t, "trigger", s) ELSE wants[t] = Nothing /\ UNCHANGED wants
       /\ UNCHANGED <<triggered, holder, told, anomalies, gaps>>

\* check_metrics: anomalies of one call are counted one by one and never forgotten.
CheckMetrics(t, s) ==
    \E found \in 1 .. 3 :
       /\ anomalies' = Saturated(anomalies + found)
       /\ IF anomalies' >= Threshold THEN Want(t, "trigger", s) ELSE wants[t] = Nothing /\ UNCHANGED wants
       /\ UNCHANGED <<triggered, holder, told, losses, gaps>>

\* check_data_feed: gaps in a row, forgotten by the first valid data.
CheckDataFeed(t, s) ==
    \/ gaps' = 0 /\ wants[t] = Nothing /\ UNCHANGED <<triggered, holder, told, wants, losses, anomalies>>
    \/ /\ gaps' = Saturated(gaps + 1)
       /\ IF gaps' >= Threshold THEN Want(t, "trigger", s) ELSE wants[t] = Nothing /\ UNCHANGED wants
       /\ UNCHANGED <<triggered, holder, told, losses, anomalies>>

Step(t) == EnterTrigger(t) \/ ExecuteCallback(t) \/ Leave(t) \/ EnterReset(t)

SwitchInit ==
    /\ triggered = [s \in Stops |-> FALSE]
    /\ holder = [s \in Stops |-> Nobody]
    /\ told = [s \in Stops |-> [todo |-> {}, calls |-> [c \in Callbacks |-> 0]]]
    /\ wants = [t \in Callers |-> Nothing]
    /\ losses = 0 /\ anomalies = 0 /\ gaps = 0

\* The counters belong to the first stop that is asked: any one, and the same always.
Counting == CHOOSE s \in Stops : TRUE

SwitchNext ==
    \E t \in Callers :
        \/ \E s \in Stops : Trigger(t, s) \/ Reset(t, s)
        \/ Step(t)
        \/ RecordTradePnl(t, Counting) \/ CheckMetrics(t, Counting) \/ CheckDataFeed(t, Counting)

SwitchSpec == SwitchInit /\ [][SwitchNext]_switchVars

-----------------------------------------------------------------------------
SwitchTypeOK ==
    /\ triggered \in [Stops -> BOOLEAN]
    /\ holder \in [Stops -> Callers \cup {Nobody}]
    /\ \A t \in Callers : wants[t].op \in {"nothing", "trigger", "reset"}
    /\ {losses, anomalies, gaps} \subseteq 0 .. Threshold

\* is_any_triggered is what the callbacks were told: every callback of a triggered
\* stop has run exactly once since the stop was reset, as soon as the lock is free,
\* and none has run for a stop that is not triggered.
ToldOnce ==
    \A s \in Stops :
        holder[s] = Nobody =>
            \A c \in Callbacks : told[s].calls[c] = IF triggered[s] THEN 1 ELSE 0

KillSwitchAssumption == Stops # {} /\ Nobody \notin Callers /\ Threshold \in Nat
=============================================================================
