------------------------------- MODULE Alerts -------------------------------
(***************************************************************************)
(* The listeners that tell people and later decisions what happened:        *)
(* TelegramAlertHandler (an alert for each risk breach and order) and       *)
(* HealingEffectivenessTracker (statistics of every healing action, and     *)
(* what it would recommend next).                                           *)
(*                                                                         *)
(* Both are called twice for an event when the bus has Redis: at once, on   *)
(* the publisher's thread, with the whole event; later, on the listener's   *)
(* thread, with one that from_dict rebuilt from the fields every event has. *)
(* The tracker has no lock.  It is of a rebuilt healing event that the      *)
(* component "unknown" stands.                                              *)
(***************************************************************************)
EXTENDS Integers, FiniteSetsExt, SequencesExt

CONSTANTS
    Healed,        \* components that integrated healing restarts
    Actions,       \* what it does to them
    MaxHistory,    \* config max_history
    MinSamples,    \* config min_samples
    SuccessThreshold, \* config success_threshold, in per cent
    MinUses,       \* uses of an action before learn_from_failures judges it
    MaxReports     \* bound on the events of a behaviour

\* What the constants are assumed to be.
AlertsAssumption ==
    /\ MaxHistory \in Nat \ {0, 1} /\ MinSamples \in Nat \ {0} /\ MinUses \in Nat \ {0}
    /\ SuccessThreshold \in 1..100
    /\ IsFiniteSet(Healed) /\ MaxReports \in Nat /\ "unknown" \notin Healed \cup Actions

VARIABLES
    redis_up,         \* whether the bus has Redis, and so a listener
    pending,          \* external: what Redis holds for the listener, by type
    reported,         \* history: how many events of a type were published
    healings,         \* history: the healing actions among them, in order
    sent,             \* external: how many alerts of a kind Telegram accepted
    component_stats,  \* the tracker's statistics of each component
    healing_history,  \* its records, oldest first
    recording         \* where each thread is in record_healing_action

tracker == <<component_stats, healing_history, recording>>
vars == <<redis_up, pending, reported, healings, sent, tracker>>

Threads == {"healer", "listener"}
Outside == [at |-> "outside", cut |-> <<>>]
Known == Healed \cup {"unknown"}

\* An event, with what its alert or its record is made of; rebuilt from its type alone it
\* has the defaults the handlers ask getattr for.
Breach(score) == [type |-> "breach", score |-> score]
OrderExecuted == [type |-> "order", score |-> 0]
HealingAction(c, a, ok) == [type |-> "healing", component |-> c, action |-> a, success |-> ok]

Rebuilt(type) ==
    IF type = "healing" THEN HealingAction("unknown", "unknown", FALSE)
    ELSE [type |-> type, score |-> 0]

Types == {"breach", "order", "healing"}
Alerts == [type : {"breach", "order"}, level : {"info", "medium", "high", "critical"}, whole : BOOLEAN]
Count(s, Test(_)) == Cardinality({i \in DOMAIN s : Test(s[i])})
Waiting(type) == Count(pending, LAMBDA t : t = type)

-----------------------------------------------------------------------------
(* The alert handler *)

\* _handle_risk_breach: the level follows from the score; _handle_order_executed has none.
LevelOf(e) ==
    IF e.type = "order" THEN "info"
    ELSE IF e.score >= 80 THEN "critical"
    ELSE IF e.score >= 60 THEN "high"
    ELSE "medium"

\* _on_event: send_risk_alert and send_alert answer whether Telegram took the message, and
\* nobody looks at the answer.
Alerted(e, whole) ==
    LET alert == [type |-> e.type, level |-> LevelOf(e), whole |-> whole]
    IN  sent' \in {sent, [sent EXCEPT ![alert] = @ + 1]}

-----------------------------------------------------------------------------
(* The tracker's statistics *)

NoStats == [good |-> 0, bad |-> 0, streak |-> 0, rates |-> <<>>]
Total(s) == s.good + s.bad

\* record_action with _update_action_success_rate: what is stored as the rate of the action
\* is the rate of the component.  rates is a dictionary: in the order of the first uses.
WithRate(rates, a, good, total) ==
    LET known == {i \in DOMAIN rates : rates[i].action = a}
        uses == IF known = {} THEN 0 ELSE rates[CHOOSE i \in known : TRUE].uses
        rate == [action |-> a, uses |-> uses + 1, good |-> good, total |-> total]
    IN  IF known = {} THEN Append(rates, rate)
        ELSE [rates EXCEPT ![CHOOSE i \in known : TRUE] = rate]

RecordAction(s, r) ==
    LET good == s.good + (IF r.success THEN 1 ELSE 0)
    IN  [good |-> good,
         bad |-> Total(s) + 1 - good,
         streak |-> IF r.success THEN 0 ELSE s.streak + 1,
         rates |-> WithRate(s.rates, r.action, good, Total(s) + 1)]

\* record_healing_action: append, and count ...
Record(t, r) ==
    /\ recording[t] = Outside
    /\ recording' = [recording EXCEPT ![t].at = "recorded"]
    /\ healing_history' = Append(healing_history, r)
    /\ component_stats' = [component_stats EXCEPT ![r.component] = RecordAction(@, r)]

\* ... then look at the length, and take the newer half ...
Newer(s) == SubSeq(s, Len(s) - (MaxHistory \div 2) + 1, Len(s))

Cut(t) ==
    /\ recording[t].at = "recorded"
    /\ recording' = [recording EXCEPT ![t] =
          IF Len(healing_history) > MaxHistory
          THEN [at |-> "cut", cut |-> Newer(healing_history)] ELSE Outside]
    /\ UNCHANGED <<redis_up, pending, reported, healings, sent, component_stats, healing_history>>

\* ... and assign it: what the other thread appended in between goes.
Assign(t) ==
    /\ recording[t].at = "cut"
    /\ healing_history' = recording[t].cut
    /\ recording' = [recording EXCEPT ![t] = Outside]
    /\ UNCHANGED <<redis_up, pending, reported, healings, sent, component_stats>>

-----------------------------------------------------------------------------
(* What the tracker concludes *)

\* a / b at least c / d
AtLeast(a, b, c, d) == a * d >= c * b

\* get_success_rate reaches success_threshold
Succeeds(s) == Total(s) > 0 /\ AtLeast(s.good, Total(s), SuccessThreshold, 100)

\* get_best_action: the first of the highest stored rates
BestAction(s) ==
    LET Best(i) == \A j \in DOMAIN s.rates :
                      AtLeast(s.rates[i].good, s.rates[i].total, s.rates[j].good, s.rates[j].total)
        first == CHOOSE i \in DOMAIN s.rates : Best(i) /\ \A j \in 1..(i - 1) : ~Best(j)
    IN  s.rates[first].action

\* _default_action_heuristic
Heuristic(failures) ==
    CASE failures <= 1 -> "restart"
      [] failures \in 2..3 -> "restart_with_reset"
      [] OTHER -> "escalate"

\* get_recommended_action
Recommended(c, failures) ==
    LET s == component_stats[c]
    IN  IF Total(s) >= MinSamples /\ Succeeds(s) THEN BestAction(s) ELSE Heuristic(failures)

\* get_failure_pattern: from the records that are left
FailurePattern(c) ==
    LET Of(ok) == Count(healing_history, LAMBDA r : r.component = c /\ r.success = ok)
    IN  [failures |-> Of(FALSE), successes |-> Of(TRUE), next |-> Recommended(c, Of(FALSE))]

\* learn_from_failures: the stored rate is a ratio, the limit it must reach is 50.
LowSuccess(rate) == rate.good < 50 * rate.total

Learnings ==
    UNION {LET s == component_stats[c]
           IN  {<<c, s.rates[i].action>> : i \in {j \in DOMAIN s.rates :
                    s.rates[j].uses >= MinUses /\ LowSuccess(s.rates[j])}} :
           c \in {k \in Known : Total(component_stats[k]) >= MinSamples}}

\* get_effectiveness_report
Report ==
    LET SumOf(F(_)) == MapThenSumSet(LAMBDA c : F(component_stats[c]), Known)
    IN  [actions |-> SumOf(Total), success |-> SumOf(LAMBDA s : s.good),
         failures |-> SumOf(LAMBDA s : s.bad),
         problematic |-> {c \in Known : component_stats[c].streak >= 3},
         length |-> Len(healing_history)]

-----------------------------------------------------------------------------
(* What the bus brings *)

\* publish: through Redis, then to the local subscribers.  A bound: a behaviour has healing
\* actions or the other events, which share nothing but the order in Redis.
Publish(e) ==
    /\ reported[e.type] < MaxReports
    /\ \A type \in Types : reported[type] > 0 => (type = "healing") = (e.type = "healing")
    /\ reported' = [reported EXCEPT ![e.type] = @ + 1]
    /\ pending' = IF redis_up THEN Append(pending, e.type) ELSE pending
    /\ UNCHANGED redis_up

\* engine._handle_risk_breach: the score is 80 for leverage and 100 for everything else.
RiskBreached ==
    \E score \in {80, 100} :
        /\ Publish(Breach(score)) /\ Alerted(Breach(score), TRUE)
        /\ UNCHANGED <<healings, tracker>>

\* publish_order_executed at the end of the engine's signal handler: also when the order
\* manager refused the order, which it tells by its answer and not by an exception.
OrderReported ==
    /\ Publish(OrderExecuted) /\ Alerted(OrderExecuted, TRUE)
    /\ UNCHANGED <<healings, tracker>>

\* publish_healing_action; _on_healing_event on the healer's thread.
HealingReported ==
    \E c \in Healed, a \in Actions, ok \in BOOLEAN :
        /\ Publish(HealingAction(c, a, ok)) /\ Record("healer", HealingAction(c, a, ok))
        /\ healings' = Append(healings, HealingAction(c, a, ok))
        /\ UNCHANGED sent

\* The listener's thread: the next event, rebuilt.
ListenerCalls ==
    /\ pending # <<>>
    /\ pending' = Tail(pending)
    /\ LET e == Rebuilt(Head(pending))
       IN  \/ e.type = "healing" /\ Record("listener", e) /\ UNCHANGED sent
           \/ /\ e.type # "healing" /\ recording["listener"] = Outside
              /\ Alerted(e, FALSE)
              /\ UNCHANGED tracker
    /\ UNCHANGED <<redis_up, reported, healings>>

-----------------------------------------------------------------------------
Init ==
    /\ redis_up \in BOOLEAN /\ pending = <<>> /\ healings = <<>>
    /\ reported = [type \in Types |-> 0] /\ sent = [a \in Alerts |-> 0]
    /\ component_stats = [c \in Known |-> NoStats]
    /\ healing_history = <<>>
    /\ recording = [t \in Threads |-> Outside]

Next ==
    \/ RiskBreached \/ OrderReported \/ HealingReported \/ ListenerCalls
    \/ \E t \in Threads : Cut(t) \/ Assign(t)

Spec == Init /\ [][Next]_vars

-----------------------------------------------------------------------------
(* What people and later decisions can rely on. *)

Settled == \A t \in Threads : recording[t] = Outside
HealingsOf(c) == Count(healings, LAMBDA e : e.component = c)
AlertsOf(type, whole) == MapThenSumSet(LAMBDA a : sent[a], {a \in Alerts : a.type = type /\ a.whole = whole})

\* An event raises one whole alert at most, and with Redis one empty alert more, never
\* without; a breach that really happened is always critical, an alert below that is the
\* empty one.
AlertsMatchEvents ==
    /\ \A type \in {"breach", "order"} :
          /\ AlertsOf(type, TRUE) <= reported[type]
          /\ AlertsOf(type, FALSE) <= IF redis_up THEN reported[type] - Waiting(type) ELSE 0
    /\ \A a \in Alerts : a.type = "breach" /\ sent[a] > 0 => a.whole = (a.level = "critical")

\* The statistics of a component count its healings and nothing else, though two threads
\* record; what Redis repeats is counted on top, as failures of "unknown".
StatsAddUp ==
    /\ \A c \in Healed :
          /\ Total(component_stats[c]) = HealingsOf(c)
          /\ component_stats[c].streak <= component_stats[c].bad
    /\ component_stats["unknown"].good = 0
    /\ Report.actions = Len(healings) + component_stats["unknown"].bad
    /\ component_stats["unknown"].bad
         = IF redis_up THEN Len(healings) - Waiting("healing") ELSE 0

\* The history stays within its bound; without a second thread its newest record is the
\* newest healing; and the failures read from it are failures the statistics know.
HistoryBounded ==
    /\ Settled => Len(healing_history) <= MaxHistory
    /\ (Settled /\ ~redis_up /\ Len(healings) > 0)
          => Last(healing_history) = Last(healings)
    /\ \A c \in Known : FailurePattern(c).failures <= component_stats[c].bad
                        /\ FailurePattern(c).successes <= component_stats[c].good

\* A recommendation that is not the rule of thumb names an action that was used, on a
\* component where the success threshold is reached: never one for "unknown".
AdviceIsEarned ==
    \A c \in Known, failures \in {1, 2, 4} :
        Recommended(c, failures) # Heuristic(failures)
          => /\ c # "unknown" /\ Succeeds(component_stats[c])
             /\ \E i \in DOMAIN component_stats[c].rates :
                   component_stats[c].rates[i].action = Recommended(c, failures)

\* Every action used MinUses times on a component with enough samples is reported as
\* ineffective, whatever became of it.
EveryActionCondemned ==
    \A c \in Known : \A i \in DOMAIN component_stats[c].rates :
        Total(component_stats[c]) >= MinSamples /\ component_stats[c].rates[i].uses >= MinUses
          => <<c, component_stats[c].rates[i].action>> \in Learnings
=============================================================================
