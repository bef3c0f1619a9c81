----------------------------- MODULE Optimizer ------------------------------
(***************************************************************************)
(* optimization/agent_optimizer.py: running averages of what agents and       *)
(* workflows did, recorded by several threads without a lock, and an hourly     *)
(* loop that ranks recommendations and writes the first of them to files.        *)
(*   One agent and one workflow.  A success rate is counted in Units, so that      *)
(* the divisions of a few recordings are exact; the average duration is computed    *)
(* the same way and is kept as the band that the thresholds tell apart.              *)
(***************************************************************************)
EXTENDS Integers, SequencesExt

CONSTANTS Recorders,    \* threads that record
          Units,        \* a success rate of one
          EnoughTasks,  \* recordings of an agent the analysis asks for (5)
          EnoughRuns,   \* recordings of a workflow it asks for (3)
          TasksPerPoint, RunsPerPoint,  \* recordings that raise a priority by one (10 and 5)
          Top,          \* recommendations the loop applies
          Keep,         \* bottlenecks kept
          Named,        \* how many new bottlenecks a recording may name
          MaxRecords,   \* bound: recordings
          MaxStarts,    \* bound: loops started
          MaxNow        \* bound: the clock, in seconds

Subjects == {"agent", "workflow"}

\* What the constants are assumed to be.
OptimizerAssumption ==
    /\ {EnoughTasks, EnoughRuns, TasksPerPoint, RunsPerPoint, Units, Top, Keep} \subseteq Nat \ {0}
    /\ {MaxRecords, MaxStarts, MaxNow} \subseteq Nat \ {0} /\ Named \subseteq Nat
    /\ \A n \in 1..MaxRecords : Units % n = 0   \* the divisions are exact

VARIABLES now,
          count,       \* tasks_completed and executions
          rate,        \* success_rate
          duration,    \* average_duration: "fast" or "slow"
          bottlenecks, \* how many bottlenecks of the workflow are known
          recorder,    \* [thread -> the recording it is in]
          on,          \* optimization_active
          loops,       \* the loops: where each is and what it has yet to apply
          files,       \* external: the seconds that have a record
          wins,        \* history: successes recorded
          mixed        \* history: two recordings of one subject overlapped

counters == <<count, rate, duration, bottlenecks, recorder, wins, mixed>>
optimizerVars == <<now, counters, on, loops, files>>

Idle == [subject |-> "none", won |-> FALSE]
Recordings == [subject : Subjects, won : BOOLEAN]
Types == {"agent_retraining", "agent_promotion", "process_improvement",
          "workflow_redesign", "workflow_streamlining", "bottleneck_resolution"}
Least(m, n) == IF m < n THEN m ELSE n

TypeOK ==
    /\ now \in 0..MaxNow /\ count \in [Subjects -> 0..MaxRecords]
    /\ rate \in [Subjects -> 0..Units] /\ duration \in [Subjects -> {"fast", "slow"}]
    /\ bottlenecks \in 0..Keep /\ recorder \in [Recorders -> Recordings \cup {Idle}]
    /\ on \in BOOLEAN /\ mixed \in BOOLEAN /\ wins \in [Subjects -> 0..MaxRecords]
    /\ \A l \in 1..MaxStarts : /\ loops[l].at \in {"off", "test", "generate", "apply", "sleep", "end"}
                               /\ loops[l].todo \in Seq(Types) /\ Len(loops[l].todo) <= Top
    /\ files \subseteq 0..MaxNow

Init ==
    /\ now = 0 /\ count = [s \in Subjects |-> 0] /\ rate = [s \in Subjects |-> 0]
    /\ duration = [s \in Subjects |-> "fast"] /\ bottlenecks = 0
    /\ recorder = [t \in Recorders |-> Idle] /\ on = FALSE
    /\ loops = [l \in 1..MaxStarts |-> [at |-> "off", todo |-> <<>>]]
    /\ files = {}
    /\ wins = [s \in Subjects |-> 0] /\ mixed = FALSE

-----------------------------------------------------------------------------
(* Recording. *)

\* The first half of record_agent_performance and record_workflow_performance: one more.
CountOne(t, s, won) ==
    /\ recorder[t] = Idle /\ count["agent"] + count["workflow"] < MaxRecords
    /\ recorder' = [recorder EXCEPT ![t] = [subject |-> s, won |-> won]]
    /\ count' = [count EXCEPT ![s] = @ + 1]
    /\ wins' = [wins EXCEPT ![s] = @ + (IF won THEN 1 ELSE 0)]
    /\ mixed' = (mixed \/ \E u \in Recorders : recorder[u].subject = s)
    /\ UNCHANGED <<now, rate, duration, bottlenecks, on, loops, files>>

\* A variant that weighs the old average with the new count.
AverageOverweight(old, n, value) == (old * n + value) \div (n + 1)

\* The running average, over the count as it is by now.
Average(old, n, value) == (old * (n - 1) + value) \div n

\* The second half; of the bottlenecks the set keeps any ten.
UpdateAverages(t) ==
    LET s == recorder[t].subject
    IN  /\ recorder[t] # Idle /\ recorder' = [recorder EXCEPT ![t] = Idle]
        /\ rate' = [rate EXCEPT ![s] = Average(@, count[s], IF recorder[t].won THEN Units ELSE 0)]
        /\ \E band \in {"fast", "slow"} : duration' = [duration EXCEPT ![s] = band]
        /\ bottlenecks' \in IF s = "agent" THEN {bottlenecks}
                            ELSE {Least(bottlenecks + n, Keep) : n \in Named}
        /\ UNCHANGED <<now, count, on, loops, files, wins, mixed>>

-----------------------------------------------------------------------------
(* Recommendations. *)

Known(s) == count[s] >= IF s = "agent" THEN EnoughTasks ELSE EnoughRuns
Under(s, percent) == 100 * rate[s] < percent * Units
Over(s, percent) == 100 * rate[s] > percent * Units

\* analyze_agent_efficiency and analyze_workflow_efficiency, in the order of their lists.
AnalyzeAgentEfficiency ==
    IF ~Known("agent") THEN <<>>
    ELSE (IF Under("agent", 80) THEN <<"agent_retraining">> ELSE <<>>)
         \o (IF Over("agent", 95) /\ duration["agent"] = "fast" THEN <<"agent_promotion">> ELSE <<>>)
         \o (IF duration["agent"] = "slow" THEN <<"process_improvement">> ELSE <<>>)
AnalyzeWorkflowEfficiency ==
    IF ~Known("workflow") THEN <<>>
    ELSE (IF Under("workflow", 70) THEN <<"workflow_redesign">> ELSE <<>>)
         \o (IF duration["workflow"] = "slow" THEN <<"workflow_streamlining">> ELSE <<>>)
         \o (IF bottlenecks > 3 THEN <<"bottleneck_resolution">> ELSE <<>>)

\* _get_priority_score: the kind of problem, then up to five for the data behind it.
Urgency(type) ==
    CASE type \in {"agent_retraining", "workflow_redesign"} -> 3
      [] type \in {"process_improvement", "workflow_streamlining"} -> 2
      [] OTHER -> 1
SubjectOf(type) ==
    IF type \in {"agent_retraining", "agent_promotion", "process_improvement"}
    THEN "agent" ELSE "workflow"
PriorityScore(type) ==
    LET s == SubjectOf(type)
    IN  Urgency(type) + Least(count[s] \div (IF s = "agent" THEN TasksPerPoint ELSE RunsPerPoint), 5)

\* generate_optimization_recommendations: sorted is stable.
Recommendations ==
    LET all == AnalyzeAgentEfficiency \o AnalyzeWorkflowEfficiency
        Before(i, j) == \/ PriorityScore(all[i]) > PriorityScore(all[j])
                        \/ PriorityScore(all[i]) = PriorityScore(all[j]) /\ i < j
        Rank(i) == 1 + Cardinality({j \in DOMAIN all : Before(j, i)})
    IN  [n \in DOMAIN all |-> all[CHOOSE i \in DOMAIN all : Rank(i) = n]]

-----------------------------------------------------------------------------
(* The loop. *)

StartOptimization(l) ==
    /\ ~on /\ on' = TRUE
    /\ loops[l].at = "off" /\ \A m \in 1 .. l - 1 : loops[m].at # "off"
    /\ loops' = [loops EXCEPT ![l].at = "test"]
    /\ UNCHANGED <<now, counters, files>>

\* A loop that sleeps its hour outlives the join, and a new start wakes up to two loops.
StopOptimization == on /\ on' = FALSE /\ UNCHANGED <<now, counters, loops, files>>

Test(l) ==
    /\ loops[l].at = "test"
    /\ loops' = [loops EXCEPT ![l].at = IF on THEN "generate" ELSE "end"]
    /\ UNCHANGED <<now, counters, on, files>>

Generate(l) ==
    /\ loops[l].at = "generate"
    /\ loops' = [loops EXCEPT ![l] =
                   [at |-> "apply",
                    todo |-> SubSeq(Recommendations, 1, Least(Top, Len(Recommendations)))]]
    /\ UNCHANGED <<now, counters, on, files>>

\* A recorder that adds the first subject of its kind changes the dictionary under the
\* iteration, which raises: a shorter sleep follows.
GenerateFails(l) ==
    /\ loops[l].at = "generate" /\ \E t \in Recorders : recorder[t] # Idle
    /\ loops' = [loops EXCEPT ![l].at = "sleep"]
    /\ UNCHANGED <<now, counters, on, files>>

\* apply_optimization: the record's file is named by the second, so that of one
\* round the last record is left; or it cannot be written.
Apply(l) ==
    /\ loops[l].at = "apply" /\ loops[l].todo # <<>>
    /\ loops' = [loops EXCEPT ![l].todo = Tail(@)]
    /\ files' \in {files, files \cup {now}}
    /\ UNCHANGED <<now, counters, on>>

Applied(l) ==
    /\ loops[l].at = "apply" /\ loops[l].todo = <<>>
    /\ loops' = [loops EXCEPT ![l].at = "sleep"]
    /\ UNCHANGED <<now, counters, on, files>>

Wake(l) ==
    /\ loops[l].at = "sleep" /\ now < MaxNow /\ now' = now + 1
    /\ loops' = [loops EXCEPT ![l].at = "test"]
    /\ UNCHANGED <<counters, on, files>>

Next ==
    \/ \E t \in Recorders, s \in Subjects, won \in BOOLEAN : CountOne(t, s, won)
    \/ \E t \in Recorders : UpdateAverages(t)
    \/ \E l \in 1..MaxStarts : \/ StartOptimization(l) \/ Test(l) \/ Generate(l) \/ GenerateFails(l)
                               \/ Apply(l) \/ Applied(l) \/ Wake(l)
    \/ StopOptimization

-----------------------------------------------------------------------------
\* When nobody records, the running average is the mean of what was recorded, unless two
\* recordings of one subject overlapped.
RatesAreMeans ==
    (\A t \in Recorders : recorder[t] = Idle) /\ ~mixed =>
        \A s \in Subjects : rate[s] * count[s] = wins[s] * Units

\* What a loop has yet to apply is in order of urgency within each subject.
UrgentFirst ==
    \A l \in 1..MaxStarts : \A i, j \in DOMAIN loops[l].todo :
        i < j /\ SubjectOf(loops[l].todo[i]) = SubjectOf(loops[l].todo[j]) =>
            Urgency(loops[l].todo[i]) >= Urgency(loops[l].todo[j])
=============================================================================
