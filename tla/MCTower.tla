------------------------------ MODULE MCTower ------------------------------
(***************************************************************************)
(* Around the trading system: the Telegram bot that operates it, the log     *)
(* tailer that watches it, the data lab's event stream and the workflow of    *)
(* the process agents.  As in MCControl, a behaviour picks one of them        *)
(* (focus) and the others stand still.                                          *)
(***************************************************************************)
EXTENDS LogTailer

CONSTANTS Service, Child, MaxUpdates, MaxCrashes,
          Publishers, MaxLength, CriticalLength, Slack, MaxDrop, Batch, MaxPublished, MaxOutages,
          ProgressSteps, MaxLoops, MaxKills

VARIABLES focus,
          installed, updates, confirmed, bot, script, up, answered, crashes,
          stream, lows, last, redisUp, outages, connected, publisher, delivered,
          active, loops, work, kept, kills, wrecked, stopped, crowded

Bot == INSTANCE Watchtower
Lab == INSTANCE StreamManager WITH Critical <- CriticalLength
Flow == INSTANCE Workflow WITH file <- kept, MaxStarts <- MaxLoops, MaxCrashes <- MaxKills

ASSUME TowerAssumption ==
    /\ TailerAssumption /\ Bot!WatchtowerAssumption /\ Lab!StreamAssumption
    /\ Flow!WorkflowAssumption

-----------------------------------------------------------------------------
botAll == <<installed, updates, confirmed, bot, script, up, answered, crashes>>
labAll == <<stream, lows, last, redisUp, outages, connected, publisher, delivered>>
flowAll == <<active, loops, work, kept, kills, wrecked, stopped, crowded>>
mcVars == <<tailerVars, focus, botAll, labAll, flowAll>>

\* What stands still starts in one way only.
TowerInit ==
    /\ focus \in {"bot", "tailer", "lab", "flow"}
    /\ Init /\ Bot!Init /\ Lab!Init /\ Flow!Init
    /\ focus # "bot" => installed

BotTurn == focus = "bot" /\ UNCHANGED <<focus, tailerVars, labAll, flowAll>>
TailerTurn == focus = "tailer" /\ UNCHANGED <<focus, botAll, labAll, flowAll>>
LabTurn == focus = "lab" /\ UNCHANGED <<focus, botAll, tailerVars, flowAll>>
FlowTurn == focus = "flow" /\ UNCHANGED <<focus, botAll, tailerVars, labAll>>

TowerNext ==
    \/ BotTurn /\ Bot!Next
    \/ TailerTurn /\ Next
    \/ LabTurn /\ Lab!Next
    \/ FlowTurn /\ Flow!Next

\* A poll that finds nothing changes nothing, so a bot that stands still is owed no step.
TowerSpec ==
    /\ TowerInit /\ [][TowerNext]_mcVars
    /\ Fairness /\ Bot!Fairness /\ Lab!Fairness /\ Flow!Fairness

-----------------------------------------------------------------------------
\* Every part is well formed.
PartsWellFormed == TailerTypeOK /\ Bot!TowerTypeOK /\ Lab!StreamTypeOK /\ Flow!TypeOK

\* Telegram forgets only what a bot handled to the end, and within its life a bot places
\* the order of an update once.
UpdatesKept == Bot!NoneForgotten /\ Bot!PlacedOnce

\* Pressure costs no event of a higher priority that the cap alone would have kept.
KeepsNewest == Lab!KeepsNewest

\* A line is reported once but for read errors, and alerts of one key keep their distance.
AlertsInOrder == RepeatedByErrors /\ AlertsSpaced

\* The workflow's file is torn only under the hand of a loop, and says completed of complete
\* work only.
CompletedWhole == PartsWellFormed /\ Flow!TornOnlyInWriting /\ Flow!CompletedWhole

\* A plain command is handled at last, a whole line of a file that is never emptied is
\* reported, a publisher that drops events gets out of the loop, and a workflow that nobody
\* stopped completes; each with the exceptions its module names.
ServedAtLast == Bot!Heard /\ Reported /\ Lab!DropEnds /\ Flow!Completes
=============================================================================
