---------------------------- MODULE MetaHarness ----------------------------
(***************************************************************************)
(* paper_trading/meta_harness.py: the process's lifecycle manager.  Its    *)
(* lock is not reentrant, and its signal handlers run stop on the main     *)
(* thread, on top of whatever that thread is doing; the dashboard starts   *)
(* and stops the engine it was given without telling the harness.          *)
(*                                                                         *)
(* A thread is the stack of the calls it is in, innermost first.  Starting *)
(* and stopping one engine is atomic here (EngineLifecycle has the detail). *)
(***************************************************************************)
EXTENDS Integers, Sequences, FiniteSets

CONSTANTS
    Callers,      \* threads that call start, stop and restart
    main,         \* the main thread: wait, and the signal handlers
    NoOne,        \* the lock is free
    MaxEngines,   \* bound on the engines of a behaviour
    MaxSignals    \* bound on the signals received

\* What the constants are assumed to be.
HarnessAssumption ==
    /\ main \notin Callers /\ NoOne \notin Callers \cup {main}
    /\ MaxEngines \in Nat \ {0} /\ MaxSignals \in Nat

VARIABLES
    harness_running,  \* MetaHarness._running
    lock,             \* MetaHarness._lock
    engine,           \* MetaHarness.engine: the latest engine created
    dash,             \* dashboard.app.engine
    updating,         \* the engines whose update loop runs
    frames,           \* each thread's calls
    signals,          \* signals received
    touched           \* history: the dashboard started or stopped an engine

vars == <<harness_running, lock, engine, dash, updating, frames, signals, touched>>

Threads == Callers \cup {main}
Engines == 1..MaxEngines
Points == {"stop", "stopping", "engine_stop", "start", "starting", "engine_start",
           "wait", "exited"}

LockedPoints == {"stopping", "engine_stop", "starting", "engine_start"}

At(t, point) == frames[t] # <<>> /\ Head(frames[t]) = point
Goto(t, point) == frames' = [frames EXCEPT ![t] = <<point>> \o Tail(@)]
Return(t) == frames' = [frames EXCEPT ![t] = Tail(@)]
Call(t, points) == frames' = [frames EXCEPT ![t] = points \o @]

-----------------------------------------------------------------------------
(* Calls from other threads. *)

CallStop(t) ==
    /\ frames[t] = <<>>
    /\ Call(t, <<"stop">>)
    /\ UNCHANGED <<harness_running, lock, engine, dash, updating, signals, touched>>

CallStart(t) ==
    /\ frames[t] = <<>>
    /\ Call(t, <<"start">>)
    /\ UNCHANGED <<harness_running, lock, engine, dash, updating, signals, touched>>

\* restart is a stop and a start, each with the lock of its own.
CallRestart(t) ==
    /\ frames[t] = <<>>
    /\ Call(t, <<"stop", "start">>)
    /\ UNCHANGED <<harness_running, lock, engine, dash, updating, signals, touched>>

-----------------------------------------------------------------------------
(* stop and start. *)

AcquireStop(t) ==
    /\ At(t, "stop") /\ lock = NoOne
    /\ lock' = t
    /\ Goto(t, "stopping")
    /\ UNCHANGED <<harness_running, engine, dash, updating, signals, touched>>

StopCheck(t) ==
    /\ At(t, "stopping")
    /\ IF harness_running
       THEN harness_running' = FALSE /\ Goto(t, "engine_stop") /\ UNCHANGED lock
       ELSE lock' = NoOne /\ Return(t) /\ UNCHANGED harness_running
    /\ UNCHANGED <<engine, dash, updating, signals, touched>>

EngineStop(t) ==
    /\ At(t, "engine_stop")
    /\ updating' = updating \ {engine}
    /\ lock' = NoOne
    /\ Return(t)
    /\ UNCHANGED <<harness_running, engine, dash, signals, touched>>

AcquireStart(t) ==
    /\ At(t, "start") /\ lock = NoOne
    /\ lock' = t
    /\ Goto(t, "starting")
    /\ UNCHANGED <<harness_running, engine, dash, updating, signals, touched>>

\* A new engine is built, unless the harness is running.
StartCheck(t) ==
    /\ At(t, "starting")
    /\ \/ harness_running /\ lock' = NoOne /\ Return(t) /\ UNCHANGED engine
       \/ /\ ~harness_running /\ engine < MaxEngines
          /\ engine' = engine + 1
          /\ Goto(t, "engine_start") /\ UNCHANGED lock
       \/ \* the bound: a start that would build one more engine returns
          ~harness_running /\ engine = MaxEngines /\ lock' = NoOne /\ Return(t) /\ UNCHANGED engine
    /\ UNCHANGED <<harness_running, dash, updating, signals, touched>>

\* The engine is started and handed to the dashboard.
EngineStart(t) ==
    /\ At(t, "engine_start")
    /\ updating' = updating \cup {engine}
    /\ harness_running' = TRUE
    /\ dash' = engine
    /\ lock' = NoOne
    /\ Return(t)
    /\ UNCHANGED <<engine, signals, touched>>

-----------------------------------------------------------------------------
(* The main thread. *)

\* wait: the loop ends when the harness is not running, and stops it once more.
WaitEnds ==
    /\ At(main, "wait") /\ ~harness_running
    /\ frames' = [frames EXCEPT ![main] = <<"stop", "exited">>]
    /\ UNCHANGED <<harness_running, lock, engine, dash, updating, signals, touched>>

\* SIGINT or SIGTERM: the handler calls stop wherever the main thread is.
Signal ==
    /\ signals < MaxSignals
    /\ ~At(main, "exited")
    /\ signals' = signals + 1
    /\ Call(main, <<"stop">>)
    /\ UNCHANGED <<harness_running, lock, engine, dash, updating, touched>>

-----------------------------------------------------------------------------
(* The dashboard's own buttons. *)

ApiStart ==
    /\ dash \notin updating
    /\ updating' = updating \cup {dash}
    /\ touched' = TRUE
    /\ UNCHANGED <<harness_running, lock, engine, dash, frames, signals>>

ApiStop ==
    /\ dash \in updating
    /\ updating' = updating \ {dash}
    /\ touched' = TRUE
    /\ UNCHANGED <<harness_running, lock, engine, dash, frames, signals>>

-----------------------------------------------------------------------------
\* __main__ starts the harness before it installs the handlers and waits.
Init ==
    /\ harness_running = TRUE
    /\ lock = NoOne
    /\ engine = 1 /\ dash = 1
    /\ updating = {1}
    /\ frames = [t \in Threads |-> IF t = main THEN <<"wait">> ELSE <<>>]
    /\ signals = 0
    /\ touched = FALSE

Acquire(t) == AcquireStop(t) \/ AcquireStart(t)

Proceed(t) == StopCheck(t) \/ EngineStop(t) \/ StartCheck(t) \/ EngineStart(t)

Next ==
    \/ \E t \in Callers : CallStop(t) \/ CallStart(t) \/ CallRestart(t)
    \/ \E t \in Threads : Acquire(t) \/ Proceed(t)
    \/ WaitEnds
    \/ Signal
    \/ ApiStart
    \/ ApiStop

Spec == Init /\ [][Next]_vars

\* Threads run, and the lock is not withheld for ever from one that asks.
Fairness ==
    /\ WF_vars(WaitEnds)
    /\ \A t \in Threads : SF_vars(Acquire(t)) /\ WF_vars(Proceed(t))
FairSpec == Spec /\ Fairness

-----------------------------------------------------------------------------
(* Properties. *)

\* The lock is held by the thread that is inside start or stop, and by no other.
TypeOK ==
    /\ harness_running \in BOOLEAN /\ touched \in BOOLEAN
    /\ lock \in Threads \cup {NoOne}
    /\ engine \in Engines /\ dash \in 1..engine /\ updating \subseteq 1..engine
    /\ \A t \in Threads : frames[t] \in Seq(Points)
    /\ \A t \in Threads :
          lock = t <=> \E i \in DOMAIN frames[t] : frames[t][i] \in LockedPoints
    /\ signals \in 0..MaxSignals

\* One account, one engine: as long as the dashboard leaves the engine alone,
\* only the harness's own engine has an update loop, also within a restart.
OneEngine == ~touched => updating \subseteq {engine}

\* When nobody is inside start or stop, the harness knows whether it trades.
HarnessKnows ==
    ~touched /\ lock = NoOne => (harness_running <=> updating # {})

\* The handler of a second signal asks for the lock that the first one's stop
\* holds on the same thread.
WaitsForItself == lock = main /\ At(main, "stop")

\* Every start, stop and restart from another thread returns, whatever the
\* dashboard does: nothing but a main thread that waits for itself blocks it.
CallsReturn ==
    \A t \in Callers : frames[t] # <<>> ~> frames[t] = <<>> \/ WaitsForItself

\* The stop that a signal runs on the main thread returns, with the same exception.
HandlersReturn ==
    Len(frames[main]) > 1 ~> Len(frames[main]) = 1 \/ WaitsForItself
=============================================================================
