---------------------------- MODULE LiveOrders ----------------------------
(***************************************************************************)
(* The live side of main_engine.py: an action is checked (risk_manager.py), *)
(* sized (position_sizer.py), routed (order_router.py) and sent, with        *)
(* retries; a periodic sync brings the exchange's positions home, and any    *)
(* failure of it puts the engine back to paper for good.                   *)
(*                                                                         *)
(* One symbol.  Prices and equity are abstracted: sizing gives any of Lots,  *)
(* or nothing, and a validated order is charged the size that was asked for   *)
(* (nothing, from the feed) to the daily loss, which nobody resets.          *)
(* The router's gateways are connected when whoever registered them said so. *)
(* MaxSent bounds the orders that are filled or accepted.                   *)
(***************************************************************************)
EXTENDS Integers, Sequences, FiniteSets

CONSTANTS Callers, Lots, MaxPosition, LossLimit, MaxRetries,
          MaxSent

\* What the constants are assumed to be.
LiveAssumption == Lots \subseteq Nat /\ {LossLimit, MaxRetries, MaxSent} \subseteq Nat

VARIABLES mode,        \* TRADING_MODE
          primary,     \* the router's gateway of the symbol's market: absent, down or connected
          spot,        \* its spot gateway, the way out when the market has none
          position,    \* the local size
          exchange,    \* the size at the exchange
          listed,      \* does the exchange's list of positions have the symbol?
          pending,     \* signed sizes of the accepted orders that are not executed yet
          lost,        \* -daily_pnl
          job,         \* per caller of _execute_action: what it is about to send
          sent         \* the orders accepted by the exchange or filled on paper

liveVars == <<mode, primary, spot, position, exchange, listed, pending, lost, job, sent>>
routes == <<primary, spot>>
market == <<exchange, listed, pending>>

Actions == {"buy", "sell", "close"}
Gateways == {"absent", "down", "connected"}
NoJob == [at |-> "idle", action |-> "close", size |-> 0, gateway |-> "none", retries |-> 0]
Routing(action, size) ==
    [at |-> "routing", action |-> action, size |-> size, gateway |-> "none", retries |-> 0]
Job == [at : {"idle", "routing", "sending"}, action : Actions, size : Nat,
        gateway : {"none", "primary", "spot"}, retries : 0..MaxRetries]

Abs(n) == IF n < 0 THEN -n ELSE n
Least(a, b) == IF a <= b THEN a ELSE b

TypeOK ==
    /\ mode \in {"live", "paper"} /\ primary \in Gateways /\ spot \in Gateways
    /\ position \in Int /\ exchange \in Int /\ listed \in BOOLEAN
    /\ pending \in Seq(Int)
    /\ lost \in 0..LossLimit /\ sent \in 0..MaxSent
    /\ job \in [Callers -> Job]
    /\ \A c \in Callers : job[c].at = "sending" => job[c].gateway # "none"

Init ==
    /\ mode = "live" /\ primary = "absent" /\ spot = "absent"
    /\ position = 0 /\ exchange = 0 /\ listed = FALSE /\ pending = <<>>
    /\ lost = 0 /\ job = [c \in Callers |-> NoJob] /\ sent = 0

-----------------------------------------------------------------------------
\* register_gateway: down, unless the caller says that it is connected (_init_gateways
\* does not; the tests do).
RegisterPrimary(gateway) ==
    /\ primary = "absent" /\ primary' = gateway
    /\ UNCHANGED <<mode, spot, position, market, lost, job, sent>>
RegisterSpot(gateway) ==
    /\ spot = "absent" /\ spot' = gateway
    /\ UNCHANGED <<mode, primary, position, market, lost, job, sent>>

\* The size an action aims at, in check_position_limit's eyes.
Aimed(action, size) == CASE action = "buy"  -> position + size
                         [] action = "sell" -> position - size
                         [] action = "close" -> position

\* check_daily_loss: each order that is within the position limit adds its estimated
\* loss, one that is rejected for it too.  (Kept at the limit, where nothing changes.)
LossAfter(action, size) ==
    IF Abs(Aimed(action, size)) > MaxPosition THEN lost ELSE Least(lost + size, LossLimit)

\* validate_order allows it (the drawdown check may refuse it as well).
Allowed(action, size) ==
    Abs(Aimed(action, size)) <= MaxPosition /\ LossAfter(action, size) < LossLimit

\* get_risk_adjusted_action: the size asked for is not used; a sale is cut down to the
\* position, a close is the whole of it, and no size is a "hold".
Sized(action) ==
    IF action = "close" THEN {Abs(position)}
    ELSE {IF action = "sell" /\ position > 0 THEN Least(lot, position) ELSE lot : lot \in Lots}

\* _execute_action in live mode, up to _execute_live_order.
Validate(c, action, size) ==
    /\ mode = "live" /\ job[c].at = "idle"
    /\ lost' = LossAfter(action, size)
    /\ \/ UNCHANGED job            \* rejected, or held
       \/ /\ Allowed(action, size)
          /\ \E n \in Sized(action) :
               job' = [job EXCEPT ![c] = Routing(action, n)]
    /\ UNCHANGED <<mode, routes, position, market, sent>>

\* The feed gives no size, the API the one of its request.
ExecuteAction(c, action) == \E size \in {0} \cup Lots : Validate(c, action, size)

\* In paper mode an action is carried out as it is.
PaperFilled(action, size) == CASE action = "buy"   -> position + size
                               [] action = "sell"  -> position - size
                               [] action = "close" -> 0

\* select_gateway: a market whose gateway is down goes to paper; only a market without
\* one goes to spot.
Selected == CASE primary = "connected" -> "primary"
              [] primary = "down"      -> "paper"
              [] primary = "absent" /\ spot = "connected" -> "spot"
              [] OTHER -> "paper"

\* _execute_live_order: refused by the rate limiter, filled on paper although the mode
\* is live, or on its way.
RouteOrder(c) ==
    /\ job[c].at = "routing"
    /\ \/ /\ job' = [job EXCEPT ![c] = NoJob] /\ UNCHANGED <<position, sent>>
       \/ /\ Selected = "paper" /\ sent < MaxSent
          /\ position' = PaperFilled(job[c].action, job[c].size) /\ sent' = sent + 1
          /\ job' = [job EXCEPT ![c] = NoJob]
       \/ /\ Selected # "paper"
          /\ job' = [job EXCEPT ![c].at = "sending", ![c].gateway = Selected]
          /\ UNCHANGED <<position, sent>>
    /\ UNCHANGED <<mode, routes, market, lost>>

\* Everything that is not a buy is sent as a short, a close of a short position too.
Signed(o) == IF o.action = "buy" THEN o.size ELSE -o.size

Accepted(c) ==
    /\ job[c].at = "sending" /\ sent < MaxSent
    /\ pending' = Append(pending, Signed(job[c])) /\ sent' = sent + 1
    /\ job' = [job EXCEPT ![c] = NoJob]
    /\ UNCHANGED <<mode, routes, position, exchange, listed, lost>>

\* An error that speaks of a rate or a limit is retried after a pause, up to MaxRetries.
RateLimited(c) ==
    /\ job[c].at = "sending"
    /\ job' = [job EXCEPT ![c] = IF job[c].retries < MaxRetries
                                 THEN [job[c] EXCEPT !.retries = @ + 1] ELSE NoJob]
    /\ UNCHANGED <<mode, routes, position, market, lost, sent>>

\* Any other error rejects the order and marks the gateway down, for ever.
SendFails(c) ==
    /\ job[c].at = "sending"
    /\ primary' = IF job[c].gateway = "primary" THEN "down" ELSE primary
    /\ spot' = IF job[c].gateway = "spot" THEN "down" ELSE spot
    /\ job' = [job EXCEPT ![c] = NoJob]
    /\ UNCHANGED <<mode, position, market, lost, sent>>

\* The exchange executes an order; the engine's positions do not follow (external).
ExchangeFills ==
    /\ pending # <<>>
    /\ exchange' = exchange + Head(pending) /\ pending' = Tail(pending) /\ listed' = TRUE
    /\ UNCHANGED <<mode, routes, position, lost, job, sent>>

-----------------------------------------------------------------------------

\* _reconcile_positions: what differs is taken over, for the symbols the exchange lists.
Reconciled == IF listed THEN exchange ELSE position

\* _sync_account_from_exchange, by the sync thread or POST /control/sync, then
\* _check_gateway_health.
SyncAccount ==
    /\ mode = "live"
    /\ position' = Reconciled
    /\ UNCHANGED <<mode, routes, market, lost, job, sent>>

\* No account, or any exception: _handle_gateway_failure.
GatewayFails ==
    /\ mode = "live" /\ mode' = "paper"
    /\ UNCHANGED <<routes, position, market, lost, job, sent>>

\* emergency_stop: the exchange's open orders are cancelled, and the position is
\* closed by an order like any other, which is validated and sized again.
EmergencyStop(c) ==
    /\ mode = "live"
    /\ \E i \in 0..Len(pending) : pending' = SubSeq(pending, 1, i)
    /\ IF position = 0 \/ job[c].at # "idle" THEN UNCHANGED <<lost, job>>
       ELSE LET action == IF position > 0 THEN "sell" ELSE "buy"
            IN  /\ lost' = LossAfter(action, Abs(position))
                /\ \/ UNCHANGED job
                   \/ /\ Allowed(action, Abs(position))
                      /\ \E n \in Sized(action) :
                           job' = [job EXCEPT ![c] = Routing(action, n)]
    /\ UNCHANGED <<mode, routes, position, exchange, listed, sent>>

Next ==
    \/ \E c \in Callers :
         \/ \E action \in Actions : ExecuteAction(c, action)
         \/ RouteOrder(c) \/ Accepted(c) \/ RateLimited(c) \/ SendFails(c) \/ EmergencyStop(c)
    \/ \E gateway \in {"down", "connected"} : RegisterPrimary(gateway) \/ RegisterSpot(gateway)
    \/ ExchangeFills \/ SyncAccount \/ GatewayFails

\* The sync thread runs once an interval while the engine does.
Fairness == WF_liveVars(SyncAccount)

-----------------------------------------------------------------------------
\* In live mode the local position meets the exchange's again and again.
Reconciles == []<>(mode = "paper" \/ ~listed \/ position = exchange)
=============================================================================
