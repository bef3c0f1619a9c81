-------------------------- MODULE EngineLifecycle --------------------------
(***************************************************************************)
(* paper_trading/engine.py: start, stop, trigger_emergency_stop and the    *)
(* update loop, called by the controllers that own a reference to the      *)
(* engine (dashboard/app.py, telegram_commands.py, meta_harness.py).  There *)
(* is no lock: "running" is tested and set in separate steps, stop joins   *)
(* the update thread for five seconds only, and the loop sleeps for as     *)
(* long (update_interval) between two cycles.                              *)
(*                                                                         *)
(* Of the trading state only the exposure is kept: whether the account     *)
(* holds a position.                                                       *)
(***************************************************************************)
EXTENDS Integers, FiniteSets

CONSTANTS
    Controllers,    \* threads that start and stop the engine
    MaxStarts,      \* bound on the update threads of a behaviour
    JoinTimesOut    \* whether a cycle, an order or the sleep may outlast the join

\* What the constants are assumed to be.
LifecycleAssumption ==
    /\ MaxStarts \in Nat \ {0}
    /\ JoinTimesOut \in BOOLEAN

VARIABLES
    running,          \* PaperTradingEngine.running
    update_thread,    \* PaperTradingEngine.update_thread (0: None)
    loop,             \* each update thread's program point
    started,          \* how many update threads were created
    connected,        \* the data bridge is connected
    exposed,          \* the order manager holds a position
    pc,               \* each controller's program point
    disorder          \* history: a join timed out, or two controllers met

vars == <<running, update_thread, loop, started, connected, exposed, pc, disorder>>

Loops == 1..MaxStarts
LoopPCs == {"none", "test", "signal", "order", "manage", "sleep", "dead"}
ControlPCs == {"idle", "start", "set_running", "connect", "spawn",
               "stop", "clear_running", "join", "disconnect", "close"}

Live(l) == loop[l] \notin {"none", "dead"}

Goto(c, next) == pc' = [pc EXCEPT ![c] = next]
LoopGoto(l, next) == loop' = [loop EXCEPT ![l] = next]

-----------------------------------------------------------------------------
(* start. *)

\* api_start and /start_trading look at running before they call start, which
\* looks again; between the test and the assignment start publishes an event.
RequestStart(c) ==
    /\ pc[c] = "idle" /\ ~running
    /\ started + Cardinality({d \in Controllers :
                                pc[d] \in {"start", "set_running", "connect", "spawn"}}) < MaxStarts
    /\ Goto(c, "start")
    /\ UNCHANGED <<running, update_thread, loop, started, connected, exposed>>

StartCheck(c) ==
    /\ pc[c] = "start"
    /\ Goto(c, IF running THEN "idle" ELSE "set_running")
    /\ UNCHANGED <<running, update_thread, loop, started, connected, exposed>>

SetRunning(c) ==
    /\ pc[c] = "set_running"
    /\ running' = TRUE
    /\ Goto(c, "connect")
    /\ UNCHANGED <<update_thread, loop, started, connected, exposed>>

Connect(c) ==
    /\ pc[c] = "connect"
    /\ connected' = TRUE
    /\ Goto(c, "spawn")
    /\ UNCHANGED <<running, update_thread, loop, started, exposed>>

Spawn(c) ==
    /\ pc[c] = "spawn"
    /\ started < MaxStarts
    /\ started' = started + 1
    /\ update_thread' = started + 1
    /\ LoopGoto(started + 1, "test")
    /\ Goto(c, "idle")
    /\ UNCHANGED <<running, connected, exposed>>

-----------------------------------------------------------------------------
(* stop. *)

RequestStop(c) ==
    /\ pc[c] = "idle" /\ running
    /\ Goto(c, "stop")
    /\ UNCHANGED <<running, update_thread, loop, started, connected, exposed>>

\* trigger_emergency_stop: close everything, then stop.
TriggerEmergencyStop(c) ==
    /\ pc[c] = "idle"
    /\ exposed' = FALSE
    /\ Goto(c, "stop")
    /\ UNCHANGED <<running, update_thread, loop, started, connected>>

StopCheck(c) ==
    /\ pc[c] = "stop"
    /\ Goto(c, IF running THEN "clear_running" ELSE "idle")
    /\ UNCHANGED <<running, update_thread, loop, started, connected, exposed>>

ClearRunning(c) ==
    /\ pc[c] = "clear_running"
    /\ running' = FALSE
    /\ Goto(c, "join")
    /\ UNCHANGED <<update_thread, loop, started, connected, exposed>>

\* A variant of stop that does not wait for the thread.
JoinNot(c) ==
    /\ pc[c] = "join"
    /\ Goto(c, "disconnect")
    /\ UNCHANGED <<running, update_thread, loop, started, connected, exposed, disorder>>

\* update_thread.join(timeout=5) returns whether or not the thread has ended.
Join(c) ==
    LET late == update_thread # 0 /\ Live(update_thread)
    IN  /\ pc[c] = "join"
        /\ late => JoinTimesOut
        /\ disorder' = (disorder \/ late)
        /\ Goto(c, "disconnect")
        /\ UNCHANGED <<running, update_thread, loop, started, connected, exposed>>

Disconnect(c) ==
    /\ pc[c] = "disconnect"
    /\ connected' = FALSE
    /\ Goto(c, "close")
    /\ UNCHANGED <<running, update_thread, loop, started, exposed>>

CloseAllPositions(c) ==
    /\ pc[c] = "close"
    /\ exposed' = FALSE
    /\ Goto(c, "idle")
    /\ UNCHANGED <<running, update_thread, loop, started, connected>>

-----------------------------------------------------------------------------
(* The update loop. *)

\* A variant of the loop that idles while it is not running, instead of ending.
LoopIdles(l) ==
    /\ loop[l] = "test"
    /\ running /\ LoopGoto(l, "signal")
    /\ UNCHANGED <<running, update_thread, started, connected, exposed, pc>>

LoopTest(l) ==
    /\ loop[l] = "test"
    /\ LoopGoto(l, IF running THEN "signal" ELSE "dead")
    /\ UNCHANGED <<running, update_thread, started, connected, exposed, pc>>

\* _process_update: a stable signal reaches _on_signal_event, which drops it
\* when the engine is not running and otherwise may send an order; or there is
\* no signal, or a gate refuses it.
Signal(l) ==
    /\ loop[l] = "signal"
    /\ \/ running /\ LoopGoto(l, "order")
       \/ LoopGoto(l, "manage")
    /\ UNCHANGED <<running, update_thread, started, connected, exposed, pc>>

\* OrderManager.execute returns: the account is exposed, is flat again (the
\* order closed a position), or nothing was executed.
OrderReturns(l) ==
    /\ loop[l] = "order"
    /\ exposed' \in BOOLEAN
    /\ LoopGoto(l, "manage")
    /\ UNCHANGED <<running, update_thread, started, connected, pc>>

\* The rest of the cycle: a risk breach, the stop loss or the take profit may
\* close what is open.
Manage(l) ==
    /\ loop[l] = "manage"
    /\ exposed' \in {exposed, FALSE}
    /\ LoopGoto(l, "sleep")
    /\ UNCHANGED <<running, update_thread, started, connected, pc>>

WakeUp(l) ==
    /\ loop[l] = "sleep"
    /\ LoopGoto(l, "test")
    /\ UNCHANGED <<running, update_thread, started, connected, exposed, pc>>

-----------------------------------------------------------------------------
Init ==
    /\ running = FALSE
    /\ update_thread = 0
    /\ loop = [l \in Loops |-> "none"]
    /\ started = 0
    /\ connected = FALSE
    /\ exposed \in BOOLEAN          \* a testnet account may hold a position
    /\ pc = [c \in Controllers |-> "idle"]
    /\ disorder = FALSE

Request(c) == RequestStart(c) \/ RequestStop(c) \/ TriggerEmergencyStop(c)

Work(c) ==
    \/ StartCheck(c) \/ SetRunning(c) \/ Connect(c) \/ Spawn(c)
    \/ StopCheck(c) \/ ClearRunning(c) \/ Disconnect(c) \/ CloseAllPositions(c)

Control(c) ==
    \/ Work(c) /\ UNCHANGED disorder
    \/ Join(c)

Loop(l) ==
    LoopTest(l) \/ Signal(l) \/ OrderReturns(l) \/ Manage(l) \/ WakeUp(l)

Quiet == \A c \in Controllers : pc[c] = "idle"

Next ==
    \/ \E c \in Controllers : Request(c) /\ disorder' = (disorder \/ ~Quiet)
    \/ \E c \in Controllers : Control(c)
    \/ \E l \in Loops : Loop(l) /\ UNCHANGED disorder

Spec == Init /\ [][Next]_vars

\* The threads run; nobody has to start or stop the engine.
Fairness ==
    /\ \A c \in Controllers : WF_vars(Control(c))
    /\ \A l \in Loops : WF_vars(Loop(l) /\ UNCHANGED disorder)
FairSpec == Spec /\ Fairness

-----------------------------------------------------------------------------
(* Properties. *)

TypeOK ==
    /\ running \in BOOLEAN /\ connected \in BOOLEAN /\ exposed \in BOOLEAN
    /\ started \in 0..MaxStarts
    /\ update_thread = started
    /\ loop \in [Loops -> LoopPCs]
    /\ \A l \in Loops : loop[l] = "none" <=> l > started
    /\ pc \in [Controllers -> ControlPCs]

\* "Graceful restart without orphaned threads": the engine never has two update
\* loops, which would trade every signal twice.
OneUpdateLoop == Cardinality({l \in Loops : Live(l)}) <= 1

\* As long as no join times out and no two controllers meet, it keeps to that.
OneLoopInOrder == ~disorder => OneUpdateLoop

\* "Emergency stop - close all positions and stop engine": in the same order of
\* events, when a stop has returned no position is left, though the loop was in
\* the middle of an order when the stop came.
StoppedIsFlat == ~disorder /\ Quiet /\ ~running /\ started > 0 => ~exposed

\* A running engine that nobody is starting or stopping has its update thread
\* and its market data, whatever starts and stops one controller made before.
RunningIsComplete ==
    ~disorder /\ Quiet /\ running => connected /\ update_thread # 0 /\ Live(update_thread)

\* A stopped engine comes to rest: unless it is started again, every update
\* thread ends.
LoopsEnd == \A l \in Loops : ~running /\ Live(l) ~> running \/ ~Live(l)

\* Every start and stop returns.
ControlReturns == \A c \in Controllers : pc[c] # "idle" ~> pc[c] = "idle"
=============================================================================
