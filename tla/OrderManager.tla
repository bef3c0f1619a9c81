---------------------------- MODULE OrderManager ----------------------------
(***************************************************************************)
(* paper_trading/layers/layer5_execution/order_manager.py: one symbol's    *)
(* position, the orders sent for it, and the accounting callback that      *)
(* engine.py registers on the manager.  The manager has no lock: the       *)
(* engine's update thread (signals, stop loss, close-all) and the Flask    *)
(* threads of the dashboard run its methods concurrently, so every method  *)
(* is cut where a thread reads shared state, blocks on the network or      *)
(* writes.  Symbols share only the order counter, so one symbol is enough. *)
(*                                                                         *)
(* Quantities are integers of a unit finer than the exchange's lot; prices *)
(* are left out, and the PnL of a close is the number of units realised.   *)
(***************************************************************************)
EXTENDS Integers, FiniteSets, Recursion

CONSTANTS
    EngineThreads,     \* threads that run engine.py code
    DashboardThreads,  \* threads that run dashboard/app.py handlers
    Mode,              \* "paper" or "testnet" (config "mode")
    Sizes,             \* quantities an open may ask for
    Lot,               \* exchange quantity step, in units
    MaxOrders,         \* bound on the orders of a behaviour
    Faults             \* what the network and the process may do wrong

Threads == EngineThreads \cup DashboardThreads
OrderIds == 1..MaxOrders
FaultKinds == {"timeout", "lost_reply", "refused", "partial", "restart"}

ASSUME ConstantsAssumption ==
    /\ EngineThreads \cap DashboardThreads = {}
    /\ Mode \in {"paper", "testnet"}
    /\ Sizes \subseteq Nat \ {0}
    /\ Lot \in Nat \ {0}
    /\ MaxOrders \in Nat
    /\ Faults \subseteq FaultKinds

VARIABLES
    position,       \* OrderManager.positions[symbol]: signed size and side
    orders,         \* OrderManager.orders
    order_counter,  \* OrderManager.order_counter
    total_fees,     \* OrderManager.total_fees, in filled units
    capital,        \* what _on_order_filled credited: PnL units and fees
    realised,       \* history: PnL units of every settled close
    pc, op,         \* each thread's program point and local variables
    exchange,       \* external: the exchange's net position
    xorders,        \* external: the exchange's view of each order
    touched         \* history: the dashboard was used

omVars == <<position, orders, order_counter, total_fees>>
acctVars == <<capital, realised>>
xVars == <<exchange, xorders>>
codeVars == <<omVars, acctVars, pc, op, xVars>>
vars == <<codeVars, touched>>

Sides == {"long", "short"}
Statuses == {"unused", "pending", "filled", "partial", "rejected"}
PCs == {"idle", "start", "query", "submit", "poll", "fill", "notify"}

Abs(n) == IF n < 0 THEN -n ELSE n
Sign(side) == IF side = "long" THEN 1 ELSE -1
SideOf(n) == IF n > 0 THEN "long" ELSE IF n < 0 THEN "short" ELSE "none"
Opposite(side) == IF side = "long" THEN "short" ELSE "long"

Flat == [size |-> 0, side |-> "none"]
NoOp == [kind |-> "none", arg |-> 0, oid |-> 0, side |-> "none", qty |-> 0]
Unused == [side |-> "none", size |-> 0, filled |-> 0, status |-> "unused", pnl |-> 0]
\* An exchange order: direction, quantity still to execute, quantity executed,
\* and how much of it the manager has taken into its own position (history).
NoXOrder == [side |-> "none", left |-> 0, done |-> 0, taken |-> 0]

-----------------------------------------------------------------------------
(* The pure parts of the manager. *)

\* _format_quantity: rounding to the exchange's precision (half a lot rounds down).
FormatQuantity(q) == ((2 * q + Lot - 1) \div (2 * Lot)) * Lot

\* Order.fill: one fill is reported per order here.
Filled(order, q) ==
    [order EXCEPT !.filled = q,
                  !.status = IF q >= order.size THEN "filled" ELSE "partial"]

\* _update_position: open, add to, reduce, or (when the order is larger than an
\* opposite position) replace the position by the whole order.
UpdatePosition(p, side, q) ==
    LET signed == Sign(side) * q
    IN  IF p.size = 0 \/ (side # SideOf(p.size) /\ Abs(p.size) < q)
        THEN [size |-> signed, side |-> side]
        ELSE [size |-> p.size + signed,
              side |-> IF p.size + signed = 0 THEN "none" ELSE p.side]

\* Variants of _reduce_position that forget the side or the direction.
ReduceKeepsSide(p, q) ==
    [size |-> IF p.size > 0 THEN p.size - q ELSE p.size + q, side |-> p.side]

\* _reduce_position: a size that is not positive is treated as a short.
ReducePosition(p, q) ==
    LET size == IF p.size > 0 THEN p.size - q ELSE p.size + q
    IN  [size |-> size, side |-> IF size = 0 THEN "none" ELSE p.side]

\* A variant that gives a short the sign of a long.
PnlOfLong(p, q) == IF p.size < 0 THEN -q ELSE q

\* _calculate_pnl: nothing is realised on a flat position.
CalculatePnl(p, q) == IF p.size = 0 THEN 0 ELSE q

-----------------------------------------------------------------------------
(* Callers: what a thread decides to ask of the manager (at most MaxOrders   *)
(* requests that may need an order are made). *)

Request(t, kind, side, qty, arg) ==
    /\ pc[t] = "idle"
    /\ order_counter + Cardinality({u \in Threads : pc[u] = "start"}) < MaxOrders
    /\ pc' = [pc EXCEPT ![t] = "start"]
    /\ op' = [op EXCEPT ![t] = [NoOp EXCEPT !.kind = kind, !.side = side,
                                            !.qty = qty, !.arg = arg]]
    /\ UNCHANGED <<omVars, acctVars, xVars>>

\* A variant that opens without looking at the recorded side.
SignalOpenAlways(t, side, q) == Request(t, "open", side, q, 0)

\* _on_signal_event, after its gates: a buy or sell opens only when the recorded
\* side is none, and closes the opposite side with the size read here.
SignalOpen(t, side, q) ==
    /\ position.side \notin Sides
    /\ Request(t, "open", side, q, 0)

\* _on_signal_event's closes and _enforce_stop_loss_take_profit: the quantity is
\* the size the caller read before it called close_position.
SignalClose(t) ==
    /\ position.size # 0
    /\ Request(t, "close", "none", 0, Abs(position.size))

\* _close_all_positions (stop, risk breach, fail-safe) passes no quantity.
CloseAll(t) == Request(t, "close", "none", 0, 0)

\* dashboard: /api/order/long and /api/order/short open whatever the position
\* is; /api/order/close closes all of it.
DashboardOpen(t, side, q) == Request(t, "open", side, q, 0)
DashboardClose(t) == Request(t, "close", "none", 0, 0)

-----------------------------------------------------------------------------
(* Order entry. *)

NewOrder(t, side, size, nextPc) ==
    /\ order_counter < MaxOrders
    /\ order_counter' = order_counter + 1
    /\ orders' = [orders EXCEPT ![order_counter + 1] =
                    [Unused EXCEPT !.side = side, !.size = size, !.status = "pending"]]
    /\ op' = [op EXCEPT ![t].oid = order_counter + 1,
                        ![t].side = side, ![t].qty = size]
    /\ pc' = [pc EXCEPT ![t] = nextPc]

\* _open_long and _open_short up to the first network call.
BeginOpen(t) ==
    /\ pc[t] = "start" /\ op[t].kind = "open"
    /\ NewOrder(t, op[t].side, op[t].qty, IF Mode = "testnet" THEN "submit" ELSE "fill")
    /\ UNCHANGED <<position, total_fees, acctVars, xVars>>

\* close_position and _close_position up to the first network call: nothing to
\* do on a flat position; otherwise an order against the position's sign.
BeginClose(t) ==
    /\ pc[t] = "start" /\ op[t].kind = "close"
    /\ IF position.size = 0
       THEN /\ pc' = [pc EXCEPT ![t] = "idle"]
            /\ op' = [op EXCEPT ![t] = NoOp]
            /\ UNCHANGED <<orders, order_counter>>
       ELSE NewOrder(t, Opposite(SideOf(position.size)),
                     IF op[t].arg = 0 THEN Abs(position.size) ELSE op[t].arg,
                     IF Mode = "testnet" THEN "query" ELSE "fill")
    /\ UNCHANGED <<position, total_fees, acctVars, xVars>>

\* A method that raises rejects its order and returns it without a callback.
Reject(t) ==
    /\ orders' = [orders EXCEPT ![op[t].oid].status = "rejected"]
    /\ pc' = [pc EXCEPT ![t] = "idle"]
    /\ op' = [op EXCEPT ![t] = NoOp]
    /\ UNCHANGED <<position, order_counter, total_fees, acctVars>>

-----------------------------------------------------------------------------
(* Paper mode: the fill is simulated at once. *)

Settle(t, order, newPosition) ==
    /\ orders' = [orders EXCEPT ![op[t].oid] = order]
    /\ position' = newPosition
    /\ total_fees' = total_fees + order.filled
    /\ realised' = realised + order.pnl
    /\ pc' = [pc EXCEPT ![t] = "notify"]
    /\ UNCHANGED <<order_counter, capital, op>>

PaperFill(t) ==
    LET order == orders[op[t].oid]
        q == op[t].qty
    IN  /\ pc[t] = "fill"
        /\ IF op[t].kind = "open"
           THEN Settle(t, Filled(order, q), UpdatePosition(position, op[t].side, q))
           ELSE Settle(t, [Filled(order, q) EXCEPT !.pnl = CalculatePnl(position, q)],
                       ReducePosition(position, q))
        /\ UNCHANGED xVars

-----------------------------------------------------------------------------
(* Testnet mode: the position is queried, the order posted and polled. *)

\* get_position_risk in _close_position: a flat exchange clears the local
\* position and returns None, which leaves the order pending; otherwise the
\* exchange's side and size replace the local ones.
QueryPosition(t) ==
    /\ pc[t] = "query"
    /\ IF exchange = 0
       THEN /\ position' = Flat
            /\ pc' = [pc EXCEPT ![t] = "idle"]
            /\ op' = [op EXCEPT ![t] = NoOp]
            /\ xorders' = [x \in OrderIds |-> [xorders[x] EXCEPT !.taken = xorders[x].done]]
       ELSE /\ pc' = [pc EXCEPT ![t] = "submit"]
            /\ op' = [op EXCEPT ![t].side = Opposite(SideOf(exchange)),
                                ![t].qty = Abs(exchange)]
            /\ UNCHANGED <<position, xorders>>
    /\ UNCHANGED <<orders, order_counter, total_fees, acctVars, exchange>>

QueryFails(t) ==
    /\ "refused" \in Faults
    /\ pc[t] = "query"
    /\ Reject(t)
    /\ UNCHANGED xVars

Accepted(t) ==
    /\ pc[t] = "submit"
    /\ FormatQuantity(op[t].qty) > 0
    /\ xorders' = [xorders EXCEPT ![op[t].oid] =
                     [NoXOrder EXCEPT !.side = op[t].side,
                                      !.left = FormatQuantity(op[t].qty)]]
    /\ UNCHANGED exchange

\* place_market_order returned an orderId.
Submit(t) ==
    /\ Accepted(t)
    /\ pc' = [pc EXCEPT ![t] = "poll"]
    /\ UNCHANGED <<omVars, acctVars, op>>

\* The exchange took the order but the reply was lost (a timeout of requests).
SubmitReplyLost(t) ==
    /\ "lost_reply" \in Faults
    /\ Accepted(t)
    /\ Reject(t)

\* The exchange refused the order, or its quantity was formatted as zero.
SubmitRefused(t) ==
    /\ pc[t] = "submit"
    /\ "refused" \in Faults \/ FormatQuantity(op[t].qty) = 0
    /\ Reject(t)
    /\ UNCHANGED xVars

\* _wait_for_order_fill saw FILLED, or PARTIALLY_FILLED, which it also returns:
\* what was executed so far is taken into the position.
PollFilled(t) ==
    LET o == op[t].oid
        done == xorders[o].done
        order == orders[o]
    IN  /\ pc[t] = "poll"
        /\ done > 0
        /\ IF op[t].kind = "open"
           THEN Settle(t, Filled(order, done), UpdatePosition(position, op[t].side, done))
           ELSE Settle(t, [Filled(order, done) EXCEPT !.pnl = CalculatePnl(position, done)],
                       ReducePosition(position, done))
        /\ xorders' = [xorders EXCEPT ![o].taken = done]
        /\ UNCHANGED exchange

\* A variant whose polling loop has no deadline.
PollExpired(t) ==
    /\ pc[t] = "poll"
    /\ xorders[op[t].oid].left = 0 /\ xorders[op[t].oid].done = 0
    /\ Reject(t)
    /\ UNCHANGED xVars

\* Ten seconds without a fill, whether the order is still working or was
\* cancelled (the "Order failed" raise is caught by the polling loop itself).
PollTimeout(t) ==
    /\ pc[t] = "poll"
    /\ \/ "timeout" \in Faults
       \/ xorders[op[t].oid].left = 0 /\ xorders[op[t].oid].done = 0
    /\ Reject(t)
    /\ UNCHANGED xVars

-----------------------------------------------------------------------------
\* Variants that run the callback twice, or not at all for a fill without PnL.
NotifyTwice(t) ==
    LET order == orders[op[t].oid]
    IN  /\ pc[t] = "notify"
        /\ capital' = IF order.status = "filled"
                      THEN [pnl |-> capital.pnl + 2 * order.pnl, fees |-> total_fees]
                      ELSE capital
        /\ pc' = [pc EXCEPT ![t] = "idle"]
        /\ op' = [op EXCEPT ![t] = NoOp]
        /\ UNCHANGED <<omVars, realised, xVars>>

\* _notify_order_callback with engine.py's _on_order_filled: only a FILLED order
\* is credited, and fees are charged up to total_fees.
Notify(t) ==
    LET order == orders[op[t].oid]
    IN  /\ pc[t] = "notify"
        /\ capital' = IF order.status = "filled"
                      THEN [pnl |-> capital.pnl + order.pnl, fees |-> total_fees]
                      ELSE capital
        /\ pc' = [pc EXCEPT ![t] = "idle"]
        /\ op' = [op EXCEPT ![t] = NoOp]
        /\ UNCHANGED <<omVars, realised, xVars>>

-----------------------------------------------------------------------------
(* The exchange (external) and the process. *)

ExchangeFill(x, q) ==
    /\ xorders[x].left >= q
    /\ q < xorders[x].left => "partial" \in Faults
    /\ xorders' = [xorders EXCEPT ![x].left = @ - q, ![x].done = @ + q]
    /\ exchange' = exchange + Sign(xorders[x].side) * q
    /\ UNCHANGED <<omVars, acctVars, pc, op>>

\* The exchange expires what is left of a market order.
ExchangeExpire(x) ==
    /\ "partial" \in Faults
    /\ xorders[x].left > 0
    /\ xorders' = [xorders EXCEPT ![x].left = 0]
    /\ UNCHANGED <<omVars, acctVars, pc, op, exchange>>

\* A variant that takes the quantity of the reply and loses its sign.
SyncUnsigned == [size |-> Abs(exchange), side |-> SideOf(exchange)]

\* sync_positions_from_exchange: the position becomes the exchange's.
Synced == [size |-> exchange, side |-> SideOf(exchange)]

\* The process dies and starts again: a new manager, whose positions are those
\* of the exchange (sync_positions_from_exchange from _init_layers).
Restart ==
    /\ "restart" \in Faults /\ Mode = "testnet"
    /\ position' = Synced
    /\ orders' = [o \in OrderIds |-> Unused]
    /\ total_fees' = 0
    /\ capital' = [pnl |-> 0, fees |-> 0] /\ realised' = 0
    /\ pc' = [t \in Threads |-> "idle"]
    /\ op' = [t \in Threads |-> NoOp]
    /\ xorders' = [x \in OrderIds |-> [xorders[x] EXCEPT !.taken = xorders[x].done]]
    /\ UNCHANGED <<order_counter, exchange>>

-----------------------------------------------------------------------------
\* A paper account starts flat; a testnet account starts synced with the
\* exchange, which may hold a position from an earlier run.
Init ==
    /\ exchange \in IF Mode = "testnet" THEN {-Lot, 0, Lot} ELSE {0}
    /\ position = Synced
    /\ orders = [o \in OrderIds |-> Unused]
    /\ order_counter = 0
    /\ total_fees = 0
    /\ capital = [pnl |-> 0, fees |-> 0]
    /\ realised = 0
    /\ pc = [t \in Threads |-> "idle"]
    /\ op = [t \in Threads |-> NoOp]
    /\ xorders = [x \in OrderIds |-> NoXOrder]
    /\ touched = FALSE

Engine(t) ==
    \/ \E side \in Sides, q \in Sizes : SignalOpen(t, side, q)
    \/ SignalClose(t)
    \/ CloseAll(t)

Dashboard(t) ==
    \/ \E side \in Sides, q \in Sizes : DashboardOpen(t, side, q)
    \/ DashboardClose(t)

Manager(t) ==
    \/ BeginOpen(t) \/ BeginClose(t) \/ PaperFill(t)
    \/ QueryPosition(t) \/ QueryFails(t)
    \/ Submit(t) \/ SubmitReplyLost(t) \/ SubmitRefused(t)
    \/ PollFilled(t) \/ PollTimeout(t)
    \/ Notify(t)

Exchange ==
    \E x \in OrderIds :
        \/ \E q \in 1..xorders[x].left : ExchangeFill(x, q)
        \/ ExchangeExpire(x)

Next ==
    \/ \E t \in EngineThreads : Engine(t) /\ UNCHANGED touched
    \/ \E t \in DashboardThreads : Dashboard(t) /\ touched' = TRUE
    \/ \E t \in Threads : Manager(t) /\ UNCHANGED touched
    \/ Exchange /\ UNCHANGED touched
    \/ Restart /\ UNCHANGED touched

Spec == Init /\ [][Next]_vars

\* The update loop and the dashboard's threads keep running their methods, and
\* a poll ends after ten seconds at the latest; nothing forces a caller to call
\* or the exchange to fill.
FairSpec == Spec /\ \A t \in Threads : WF_codeVars(Manager(t))

-----------------------------------------------------------------------------
(* Properties. *)

AllIdle == \A t \in Threads : pc[t] = "idle"

OrderType == [side : Sides \cup {"none"}, size : Nat, filled : Nat,
              status : Statuses, pnl : Nat]
OpType == [kind : {"none", "open", "close"}, arg : Nat, oid : OrderIds \cup {0},
           side : Sides \cup {"none"}, qty : Nat]
XOrderType == [side : Sides \cup {"none"}, left : Nat, done : Nat, taken : Nat]

TypeOK ==
    /\ position \in [size : Int, side : Sides \cup {"none"}]
    /\ orders \in [OrderIds -> OrderType]
    /\ order_counter \in 0..MaxOrders
    /\ total_fees \in Nat
    /\ capital \in [pnl : Nat, fees : Nat]
    /\ realised \in Nat
    /\ pc \in [Threads -> PCs]
    /\ op \in [Threads -> OpType]
    /\ exchange \in Int
    /\ xorders \in [OrderIds -> XOrderType]

\* The recorded side, which _on_signal_event trades on, agrees with the sign of
\* the size, which the close methods trade on.
SideMatchesSign == position.side = SideOf(position.size)

\* _reduce_position "Reduce position by size, correctly handling longs and
\* shorts": settling a close never leaves a larger position than it found.
ReductionNeverGrows ==
    [][\A t \in Threads :
         (/\ pc[t] \in {"fill", "poll"} /\ pc'[t] = "notify"
          /\ op[t].kind = "close")
         => Abs(position'.size) <= Abs(position.size)]_vars

\* As long as nobody used the dashboard, local and exchange positions can only differ
\* because of an order whose outcome the manager does not know in full: with no call in
\* progress and every executed quantity taken, they are equal.
InStepWithExchange ==
    ~touched /\ AllIdle /\ (\A x \in OrderIds : xorders[x].taken = xorders[x].done)
        => position.size = exchange

\* The PnL of an order that was settled but is not credited: its callback is still to
\* run, or it was reported as PARTIAL.
Due == [o \in OrderIds |->
          IF orders[o].status = "partial" \/ \E t \in Threads : pc[t] = "notify" /\ op[t].oid = o
          THEN orders[o].pnl ELSE 0]

\* Each realised PnL is credited to capital at most once, by its own callback,
\* and what was settled but is not credited is exactly the closes whose callback
\* is still to run and the closes reported as PARTIAL.
CreditedExactlyOnce == realised = capital.pnl + SumUpTo(Due, MaxOrders)

\* Fees: when nothing is in progress and no fill was partial, capital has paid
\* every fee the manager accumulated, whichever thread's callback came last.
FeesCharged ==
    AllIdle /\ (\A o \in OrderIds : orders[o].status # "partial")
        => capital.fees = total_fees

\* Fills reach the account: their PnL once, their fees in full.
FillsBooked == CreditedExactlyOnce /\ FeesCharged

\* Every call of the manager returns to its caller.
CallsReturn == \A t \in Threads : pc[t] # "idle" ~> pc[t] = "idle"

Book == INSTANCE PositionBook WITH book <- position.size

\* With one engine thread and no order of unknown outcome, the manager keeps a
\* position book: opened only from flat, then only reduced towards flat.
RefinesBook == Book!Spec
=============================================================================
