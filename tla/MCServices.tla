---------------------------- MODULE MCServices -----------------------------
(***************************************************************************)
(* The paper engine's frame: its start and stop, the harness that owns it    *)
(* and the event bus.  They share no variable here, so a behaviour picks one *)
(* of them (focus) and the others stand still: the state spaces add up       *)
(* instead of multiplying.                                                  *)
(***************************************************************************)
EXTENDS EngineLifecycle, Sequences

CONSTANTS Callers, main, NoOne, MaxEngines, MaxSignals,
          Types, Callbacks, Publishers, Capacity, MaxEvents

VARIABLES focus,
          harness_running, lock, engine, dash, updating, frames, signals, touched,
          redis_client, subscribers, listening, listener, channels, wire, redis, memory,
          kind, cleared, dispatch, owed, got

Harness == INSTANCE MetaHarness
Bus == INSTANCE EventBus WITH running <- listening

ASSUME ServicesAssumption ==
    LifecycleAssumption /\ Harness!HarnessAssumption /\ Bus!BusAssumption

-----------------------------------------------------------------------------
harnessVars == <<harness_running, lock, engine, dash, updating, frames, signals, touched>>
busVars == <<redis_client, subscribers, listening, listener, channels, wire, redis, memory,
             kind, cleared, dispatch, owed, got>>
servicesVars == <<vars, focus, harnessVars, busVars>>

\* What stands still starts in one way only.
ServicesInit ==
    /\ focus \in {"engine", "harness", "bus"}
    /\ Init /\ Harness!Init /\ Bus!Init
    /\ focus # "engine" => ~exposed
    /\ focus # "bus" => redis_client

EngineTurn == focus = "engine" /\ UNCHANGED <<focus, harnessVars, busVars>>
HarnessTurn == focus = "harness" /\ UNCHANGED <<focus, vars, busVars>>
BusTurn == focus = "bus" /\ UNCHANGED <<focus, vars, harnessVars>>

ServicesNext ==
    \/ EngineTurn /\ Next
    \/ HarnessTurn /\ Harness!Next
    \/ BusTurn /\ Bus!Next

\* Of a component that stands still in its initial state no fair action is enabled.
ServicesSpec ==
    /\ ServicesInit /\ [][ServicesNext]_servicesVars
    /\ Fairness /\ Harness!Fairness /\ Bus!Fairness

-----------------------------------------------------------------------------
\* Every part is well formed.
PartsWellFormed == TypeOK /\ Harness!TypeOK /\ Bus!TypeOK

\* One engine with one loop: while no join timed out and no two controllers met, the engine
\* has one update loop, is complete while it runs and flat when it was stopped; and while the
\* dashboard leaves it alone, the harness has one engine and knows whether it trades.
EnginesInOrder ==
    /\ PartsWellFormed
    /\ OneLoopInOrder /\ StoppedIsFlat /\ RunningIsComplete
    /\ Harness!OneEngine /\ Harness!HarnessKnows

\* Every subscriber of the bus is told of an event once, and the latest events are kept and
\* found again.
EventsKept == Bus!EachSubscriberOnce /\ Bus!LatestKept /\ Bus!QueriesFind

\* What was begun ends: update loops of a stopped engine, starts and stops of the engine and
\* of the harness, its signal handler, and what Redis holds for a listener.
CallsEnd ==
    /\ LoopsEnd /\ ControlReturns
    /\ Harness!CallsReturn /\ Harness!HandlersReturn /\ Bus!WireDrains
=============================================================================
