---------------------------- MODULE VnpyEngine ----------------------------
(***************************************************************************)
(* main_engine.py in paper mode, driven by the market data feed's thread and *)
(* by the handlers of the API gateway (api_gateway_enhanced.py).           *)
(*                                                                         *)
(* A paper order reads the position's size, writes it back changed, and     *)
(* then saves it to the shared state: three steps between which another     *)
(* thread may run, since nothing locks the position.  The event loop runs   *)
(* one handler at a time, so the API is one thread.                        *)
(*                                                                         *)
(* One symbol; Redis answers or not each time it is asked.  The first key that    *)
(* is set stays there.  MaxOrders bounds the orders and MaxStarts the starts.       *)
(***************************************************************************)
EXTENDS Integers, Sequences

CONSTANTS Feed, Api, MaxOrders, MaxStarts

ASSUME TwoThreads == Feed # Api
ASSUME EngineBounds == {MaxOrders, MaxStarts} \subseteq Nat

VARIABLES running,     \* TradingEngine.running
          feedOn,      \* the feed's _running
          position,    \* positions[symbol]["size"], 0 when the symbol is not there
          kept,        \* the position in the shared state's cache
          inRedis,     \* is there a key for it in Redis?
          strategy,    \* the RL strategy: absent, running or stopped
          step,        \* where a thread is: idle, deciding, or in the order at the head of its plan
          plan,        \* the orders that a thread has yet to execute
          seen,        \* the size that a thread has read
          halting,     \* is the API inside emergency_stop?
          ledger,      \* history: the size that the recorded orders add up to
          excused,     \* history: orders overlapped, or a start had no key to load
          orders, starts

vnpyVars == <<running, feedOn, position, kept, inRedis, strategy, step, plan,
              seen, halting, ledger, excused, orders, starts>>
switches == <<running, feedOn, strategy, starts>>
shared == <<kept, inRedis>>
history == <<ledger, excused>>

Threads == {Feed, Api}
Other(t) == IF t = Feed THEN Api ELSE Feed
Order(action, size) == [action |-> action, size |-> size]
PaperOrder == [action : {"buy", "sell", "close"}, size : Nat \ {0}]

TypeOK ==
    /\ running \in BOOLEAN /\ feedOn \in BOOLEAN /\ inRedis \in BOOLEAN
    /\ position \in Int /\ kept \in Int /\ ledger \in Int
    /\ strategy \in {"absent", "running", "stopped"}
    /\ step \in [Threads -> {"idle", "deciding", "next", "read", "written"}]
    /\ plan \in [Threads -> Seq(PaperOrder)]
    /\ \A t \in Threads : step[t] \in {"next", "read", "written"} <=> plan[t] # <<>>
    /\ seen \in [Threads -> Int] /\ halting \in BOOLEAN
    /\ excused \in BOOLEAN
    /\ orders \in 0..MaxOrders /\ starts \in 0..MaxStarts

Init ==
    /\ running = FALSE /\ feedOn = FALSE /\ position = 0 /\ kept = 0
    /\ inRedis = FALSE /\ strategy = "absent"
    /\ step = [t \in Threads |-> "idle"] /\ plan = [t \in Threads |-> <<>>]
    /\ seen = [t \in Threads |-> 0] /\ halting = FALSE
    /\ ledger = 0 /\ excused = FALSE /\ orders = 0 /\ starts = 0

-----------------------------------------------------------------------------
\* What an order makes of a position of size s: "close" is not an opposite order, it
\* sets the size to zero.
Applied(o, s) == CASE o.action = "buy"   -> s + o.size
                   [] o.action = "sell"  -> s - o.size
                   [] o.action = "close" -> 0

\* The first half of _execute_paper_order: the order is recorded as filled, and the
\* size is read.
ReadPosition(t) ==
    /\ step[t] = "next"
    /\ step' = [step EXCEPT ![t] = "read"] /\ seen' = [seen EXCEPT ![t] = position]
    /\ ledger' = Applied(Head(plan[t]), ledger)
    /\ excused' = (excused \/ step[Other(t)] = "read")
    /\ UNCHANGED <<switches, shared, position, plan, halting, orders>>

WritePosition(t) ==
    /\ step[t] = "read"
    /\ step' = [step EXCEPT ![t] = "written"]
    /\ position' = Applied(Head(plan[t]), seen[t])
    /\ UNCHANGED <<switches, shared, plan, seen, halting, history, orders>>

\* The second half of _execute_paper_order without the shared state.
SaveNothing(t) ==
    /\ step[t] = "written"
    /\ plan' = [plan EXCEPT ![t] = Tail(@)]
    /\ step' = [step EXCEPT ![t] = IF Len(plan[t]) > 1 THEN "next" ELSE "idle"]
    /\ UNCHANGED <<switches, shared, position, seen, halting, history, orders>>

\* The second half: the shared state is told, and the thread goes on to its next order.
SavePosition(t) ==
    /\ step[t] = "written"
    /\ kept' = position /\ inRedis' \in {inRedis, TRUE}
    /\ plan' = [plan EXCEPT ![t] = Tail(@)]
    /\ step' = [step EXCEPT ![t] = IF Len(plan[t]) > 1 THEN "next" ELSE "idle"]
    /\ UNCHANGED <<switches, position, seen, halting, history, orders>>

\* _execute_action in paper mode: a size below one is one unit.
Plan(t, os) ==
    /\ orders + Len(os) <= MaxOrders /\ orders' = orders + Len(os)
    /\ plan' = [plan EXCEPT ![t] = os]
    /\ step' = [step EXCEPT ![t] = IF os = <<>> THEN "idle" ELSE "next"]

\* What the RL agent may decide: nothing, or one order.
Decisions == {<<>>} \cup {<<Order(a, 1)>> : a \in {"buy", "sell", "close"}}

-----------------------------------------------------------------------------
\* _on_market_data on the feed's thread: process_market_data looks at running ...
Tick ==
    /\ feedOn /\ step[Feed] = "idle" /\ running /\ strategy # "absent"
    /\ step' = [step EXCEPT ![Feed] = "deciding"]
    /\ UNCHANGED <<switches, shared, position, plan, seen, halting, history, orders>>

\* ... asks the agent, and acts.  That the RL strategy was stopped does not count: only
\* its name is looked up.
Decide ==
    /\ step[Feed] = "deciding"
    /\ \E os \in Decisions : Plan(Feed, os)
    /\ UNCHANGED <<switches, shared, position, seen, halting, history>>

-----------------------------------------------------------------------------
\* The API's handlers, one at a time.
ApiFree == step[Api] = "idle" /\ ~halting

\* _load_positions_from_state: the cached value of a key that Redis has, if it answers.
LoadedPosition(redisUp) == IF redisUp /\ inRedis THEN kept ELSE 0

\* TradingEngine.start (lifespan, and the command "start").
Start(redisUp) ==
    /\ ApiFree /\ ~running /\ starts < MaxStarts
    /\ running' = TRUE /\ feedOn' = TRUE /\ starts' = starts + 1
    /\ strategy' = "running"
    /\ position' = LoadedPosition(redisUp)
    /\ excused' = (excused \/ (position # 0 /\ ~(redisUp /\ inRedis))
                         \/ step[Feed] \in {"read", "written"})
    /\ UNCHANGED <<shared, step, plan, seen, halting, ledger, orders>>

\* TradingEngine.stop, which saves the positions.
Stop ==
    /\ ApiFree
    /\ running' = FALSE /\ feedOn' = FALSE
    /\ kept' = position /\ inRedis' \in (IF position = 0 THEN {inRedis} ELSE {inRedis, TRUE})
    /\ UNCHANGED <<strategy, starts, position, step, plan, seen, halting, history, orders>>

\* POST /order: the request's price is first fed to the engine as market data, which
\* may bring an order of the agent's before the requested one.  Nobody asks whether
\* the engine is running.
PlaceOrder(action) ==
    /\ ApiFree
    /\ \E os \in (IF running /\ strategy # "absent" THEN Decisions ELSE {<<>>}) :
         Plan(Api, Append(os, Order(action, 1)))
    /\ UNCHANGED <<switches, shared, position, seen, halting, ledger, excused>>

\* set_position_target: one unit in the target's direction.
SetPositionTarget(target) ==
    /\ ApiFree /\ target # position
    /\ Plan(Api, <<Order(IF target > position THEN "buy" ELSE "sell", 1)>>)
    /\ UNCHANGED <<switches, shared, position, seen, halting, ledger, excused>>

\* switch_strategy and the strategy endpoints.
SwitchStrategy(to) ==
    /\ ApiFree /\ strategy \notin {"absent", to}
    /\ strategy' = to
    /\ UNCHANGED <<running, feedOn, starts, shared, position, step, plan, seen, halting, history, orders>>

\* The order by which _close_position closes a position of size s.
Closing(s) == CASE s > 0 -> <<Order("sell", s)>>
                [] s < 0 -> <<Order("buy", -s)>>
                [] s = 0 -> <<>>

\* emergency_stop: no more market data is let in, the position is closed ...
EmergencyStop ==
    /\ ApiFree
    /\ running' = FALSE /\ halting' = TRUE
    /\ plan' = [plan EXCEPT ![Api] = Closing(position)]
    /\ step' = [step EXCEPT ![Api] = IF position = 0 THEN "idle" ELSE "next"]
    /\ UNCHANGED <<feedOn, strategy, starts, shared, position, seen, history, orders>>

\* ... the CTA strategies (vnpy's own) and the feed are stopped, and success is announced.
EmergencyDone ==
    /\ halting /\ step[Api] = "idle"
    /\ halting' = FALSE /\ feedOn' = FALSE
    /\ UNCHANGED <<running, strategy, starts, shared, position, step, plan, seen, ledger, excused, orders>>

\* The engine's own operations, by POST /command (and by the endpoints of their own).
Command ==
    \/ \E redisUp \in BOOLEAN : Start(redisUp)
    \/ Stop \/ EmergencyStop
    \/ \E to \in {"running", "stopped"} : SwitchStrategy(to)

Next ==
    \/ Command \/ EmergencyDone \/ Tick \/ Decide
    \/ \E t \in Threads : ReadPosition(t) \/ WritePosition(t) \/ SavePosition(t)
    \/ \E action \in {"buy", "sell", "close"} : PlaceOrder(action)
    \/ \E target \in {-1, 0, 1} : SetPositionTarget(target)

\* Both threads run on.
Fairness ==
    /\ \A t \in Threads : WF_vnpyVars(ReadPosition(t) \/ WritePosition(t) \/ SavePosition(t))
    /\ WF_vnpyVars(EmergencyDone) /\ WF_vnpyVars(Decide)

-----------------------------------------------------------------------------
\* The position is what the recorded orders add up to, except after orders of two
\* threads overlapped or after a start that found no position to load: restarts with
\* Redis there, emergency closes and API orders lose nothing else.
LedgerExplained == (excused \/ \E t \in Threads : step[t] = "read") \/ position = ledger
=============================================================================
