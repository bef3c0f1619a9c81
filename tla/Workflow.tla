------------------------------ MODULE Workflow ------------------------------
(***************************************************************************)
(* workflows/process_workflow.py: a loop takes three tasks of two phases     *)
(* through their progress and writes the workflow to its file after each       *)
(* step.  stop_processing waits five seconds for a loop that sleeps as long,    *)
(* so that the loop may outlive it and be joined by the next; a killed process   *)
(* may leave the file half written, and is started again.                        *)
(***************************************************************************)
EXTENDS Integers, FiniteSetsExt

CONSTANTS ProgressSteps,   \* progress_steps, in percent
          MaxStarts,       \* bound: loops started
          MaxCrashes       \* bound: kills of the process

\* What the constants are assumed to be.
WorkflowAssumption ==
    /\ {0, 100} \subseteq ProgressSteps /\ ProgressSteps \subseteq 0..100
    /\ MaxStarts \in Nat \ {0} /\ MaxCrashes \in Nat

VARIABLES active,     \* processing_active
          loops,      \* the loops: where each is, its task and the progress it sets next
          work,       \* workflow_data
          file,       \* external: the workflow in its file, or Torn
          kills,      \* kills of the process
          wrecked,    \* history: a kill left the file torn
          stopped,    \* history: stop_processing was called, or the process killed
          crowded     \* history: two loops ran at once

past == <<kills, wrecked, stopped, crowded>>
workflowVars == <<active, loops, work, file, past>>

\* task_sequence: two tasks of the first phase and one of the second.
Tasks == 1..3

Off == [at |-> "off", task |-> 1, next |-> 0]
Torn == [progress |-> <<>>, status |-> "torn", ended |-> {}]

\* get_default_workflow has no phases: what a torn file is loaded as.
DefaultWorkflow == [progress |-> <<>>, status |-> "initialized", ended |-> {}]

Idle(loop) == loop.at = "off"
LoopsAt(at) == {l \in DOMAIN loops : loops[l].at = at}
Works == [progress : {<<>>} \cup [Tasks -> ProgressSteps], ended : SUBSET Tasks,
          status : {"initialized", "running", "completed"}]

TypeOK ==
    /\ {active, wrecked, stopped, crowded} \subseteq BOOLEAN /\ kills \in 0..MaxCrashes
    /\ loops \in [1..MaxStarts -> [at : {"off", "task", "step", "status", "save", "rest", "last"},
                                   task : 1..4, next : ProgressSteps \cup {101}]]
    /\ work \in Works /\ file \in Works \cup {Torn}

Init ==
    /\ active = FALSE /\ loops = [l \in 1..MaxStarts |-> Off]
    /\ work = [progress |-> [t \in Tasks |-> 0], status |-> "initialized", ended |-> {}]
    /\ file = work /\ kills = 0 /\ wrecked = FALSE /\ stopped = FALSE /\ crowded = FALSE

Go(l, from, to) == loops[l].at = from /\ loops' = [loops EXCEPT ![l].at = to]

-----------------------------------------------------------------------------
StartProcessing(l) ==
    /\ ~active /\ active' = TRUE
    /\ loops[l] = Off /\ \A m \in 1 .. l - 1 : loops[m] # Off
    /\ loops' = [loops EXCEPT ![l].at = "task"]
    /\ crowded' = (crowded \/ \E m \in DOMAIN loops : ~Idle(loops[m]))
    /\ UNCHANGED <<work, file, kills, wrecked, stopped>>

\* The join may time out: the loop is then left as it is.
StopProcessing ==
    /\ active /\ active' = FALSE /\ stopped' = TRUE
    /\ UNCHANGED <<loops, work, file, kills, wrecked, crowded>>

-----------------------------------------------------------------------------
(* processing_loop. *)

\* The outer loop's test, once per task.
TestTask(l) ==
    /\ Go(l, "task", IF active /\ loops[l].task <= 3 THEN "step" ELSE "last")
    /\ UNCHANGED <<active, work, file, past>>

\* The inner loop's test, and update_task_progress.
UpdateTaskProgress(l) ==
    LET t == loops[l].task
        p == loops[l].next
    IN  /\ Go(l, "step", IF active /\ p <= 100 THEN "status" ELSE "rest")
        /\ work' = IF active /\ p <= 100 /\ t \in DOMAIN work.progress
                   THEN [progress |-> [work.progress EXCEPT ![t] = p], status |-> work.status,
                         ended |-> IF p = 100 THEN work.ended \cup {t} ELSE work.ended]
                   ELSE work
        /\ UNCHANGED <<active, file, past>>

\* calculate_phase_progress and calculate_overall_progress: means rounded down.
PhaseProgress(progress, p) == IF p = 1 THEN (progress[1] + progress[2]) \div 2 ELSE progress[3]
OverallProgress(progress) ==
    IF progress = <<>> THEN 0 ELSE (PhaseProgress(progress, 1) + PhaseProgress(progress, 2)) \div 2

\* A variant that asks the first phase only.
StatusOfFirst(progress) ==
    IF progress = <<>> \/ PhaseProgress(progress, 1) < 100 THEN "running" ELSE "completed"

StatusOf(progress) == IF OverallProgress(progress) < 100 THEN "running" ELSE "completed"

\* update_workflow_status, up to save_workflow's open, which empties the file.
UpdateWorkflowStatus(l) ==
    /\ Go(l, "status", "save")
    /\ work' = [work EXCEPT !.status = StatusOf(work.progress)]
    /\ file' = Torn
    /\ UNCHANGED <<active, past>>

Following(p) == IF p = 100 THEN 101 ELSE Min({q \in ProgressSteps : q > p})

\* The rest of save_workflow, with the work as it is by now, and the sleep after it.
SaveWorkflow(l) ==
    /\ loops[l].at = "save" /\ file' = work /\ wrecked' = FALSE
    /\ loops' = [loops EXCEPT ![l] = IF @.next = 101 THEN [@ EXCEPT !.at = "off"]
                                     ELSE [at |-> "step", task |-> @.task, next |-> Following(@.next)]]
    /\ UNCHANGED <<active, work, kills, stopped, crowded>>

\* The break between two tasks; also after an inner loop that was told to stop, and which a
\* new start lets go on with the next task.
Rest(l) ==
    /\ loops[l].at = "rest"
    /\ loops' = [loops EXCEPT ![l] = [at |-> "task", task |-> @.task + 1, next |-> 0]]
    /\ UNCHANGED <<active, work, file, past>>

\* The end of the loop takes back the flag of whatever loop runs by then.
Last(l) ==
    /\ loops[l].at = "last" /\ active' = FALSE
    /\ loops' = [loops EXCEPT ![l] = [at |-> "status", task |-> @.task, next |-> 101]]
    /\ UNCHANGED <<work, file, past>>

\* The process is killed and started again: load_workflow.
Restart ==
    /\ kills < MaxCrashes /\ kills' = kills + 1
    /\ active' = FALSE /\ loops' = [l \in DOMAIN loops |-> Off]
    /\ work' = IF file = Torn THEN DefaultWorkflow ELSE file
    /\ wrecked' = (file = Torn) /\ stopped' = TRUE
    /\ UNCHANGED <<file, crowded>>

LoopStep(l) ==
    \/ TestTask(l) \/ UpdateTaskProgress(l) \/ UpdateWorkflowStatus(l) \/ SaveWorkflow(l)
    \/ Rest(l) \/ Last(l)

Next ==
    \/ \E l \in DOMAIN loops : StartProcessing(l) \/ LoopStep(l)
    \/ StopProcessing \/ Restart

Fairness == \A l \in 1..MaxStarts : WF_workflowVars(LoopStep(l))

-----------------------------------------------------------------------------
\* The file is torn only while a loop is writing it, or since a kill.
TornOnlyInWriting == file = Torn => LoopsAt("save") # {} \/ wrecked

\* The file never says completed of a workflow with a task under 100 percent, except after
\* two loops had it at once.
CompletedWhole ==
    file # Torn /\ file.status = "completed" =>
        (\A t \in Tasks : file.progress[t] = 100) \/ crowded

\* What nobody stopped comes to completion.
Completes == active ~> (stopped \/ (file # Torn /\ file.status = "completed"))
=============================================================================
