---------------------------- MODULE TradingCycle ----------------------------
(***************************************************************************)
(* paper_trading/engine.py: one iteration of _process_update in paper      *)
(* mode, with everything it calls synchronously: the signal events and     *)
(* their pre-execution gates, the risk check and the events it publishes,  *)
(* the drawdown defence, stop loss and take profit, the fill callback      *)
(* _on_order_filled and the fail-safe (emergency_stop.py) under it.        *)
(*                                                                         *)
(* Money is counted in units coarse enough for fees and slippage to        *)
(* vanish.  A size is signed and counted in sixteenths of the undefended   *)
(* size.  One tick of time is one iteration of the loop.                   *)
(***************************************************************************)
EXTENDS Integers, FiniteSets

CONSTANTS
    Symbols,         \* config trading.symbols
    InitialCapital,  \* config trading.initial_capital
    PnLs,            \* what one close may realise
    Histories,       \* the closed trades Redis may hold when the engine starts
    DailyOf(_),      \* what those of the day realised, by history
    MaxDailyLoss, MaxDrawdown,      \* config risk.*, in percent
    TradeCooldown, BreachCooldown,  \* _trade_cooldown, _breach_cooldown, in ticks
    LossLimit,       \* fail_safe_triggers["consecutive_losses"]
    MinTrades,       \* min_trades of the expectancy gate
    MinCapital,      \* min_capital_threshold of the ruin gate
    MaxTrades        \* bound on the closed trades of a behaviour

History == [count : Nat, wins : Nat, sum : Int, today : {"none", "lost", "won", "mixed"}]

ASSUME CycleAssumption ==
    /\ IsFiniteSet(Symbols) /\ InitialCapital \in Nat /\ PnLs \subseteq Int
    /\ MaxDailyLoss \in Nat /\ MaxDrawdown \in Nat
    /\ TradeCooldown \in Nat /\ BreachCooldown \in Nat
    /\ LossLimit \in Nat \ {0} /\ MinTrades \in Nat \ {0} /\ MinCapital \in Nat
    /\ MaxTrades \in Nat
    /\ Histories \subseteq History /\ \A h \in Histories : DailyOf(h) \in Int

VARIABLES
    pc,          \* where the update thread is in _process_update
    todo,        \* symbols whose signal was not looked at yet in this iteration
    positions,   \* OrderManager.positions: signed size
    account,     \* capital, daily_pnl and the fail-safe's loss streak
    history,     \* TradeLogger: closed trades, and how today's went
    triggered,   \* bs_emergency_stop.triggered
    start,       \* daily_start_capital
    loaded,      \* history: daily_pnl taken from Redis, of which capital knows nothing
    peak,        \* risk_engine.peak_capital
    defensive,   \* risk_engine.defensive_mode
    idleFor,     \* ticks since _last_trade_time[symbol]
    sinceBreach, \* ticks since _last_breach_time
    newDay,      \* the date differs from risk_engine.last_reset_date
    touched      \* history: the dashboard's order endpoints were used

riskVars == <<start, loaded, peak, sinceBreach>>
money == <<account, history, triggered>>
vars == <<pc, todo, positions, money, riskVars, defensive, idleFor, newDay, touched>>

FullSize == 16
Smaller(a, b) == IF a < b THEN a ELSE b
Larger(a, b) == IF a < b THEN b ELSE a
Held == {s \in Symbols : positions[s] # 0}
Flat == Held = {}

-----------------------------------------------------------------------------
(* Closing positions. *)

\* The day's trades as win_count / trade_count tells them apart.
DayAfter(day, p) ==
    IF day = "none" THEN IF p > 0 THEN "won" ELSE "lost"
    ELSE IF (day = "won") = (p > 0) /\ day # "mixed" THEN day ELSE "mixed"

\* log_close_position, then _on_order_filled: a close that realised nothing is
\* logged but reaches neither the account nor the fail-safe; each loss that
\* leaves the streak at the limit answers True (alarm).
Booked(b, p) ==
    LET streak == IF p < 0 THEN Smaller(b.account.losses + 1, LossLimit)
                  ELSE IF p > 0 THEN 0 ELSE b.account.losses
    IN  [account |-> [capital |-> b.account.capital + p,
                      daily |-> b.account.daily + p, losses |-> streak],
         history |-> [count |-> b.history.count + 1,
                      wins |-> b.history.wins + (IF p > 0 THEN 1 ELSE 0),
                      sum |-> b.history.sum + p,
                      today |-> DayAfter(b.history.today, p)],
         alarm |-> b.alarm \/ (p < 0 /\ streak = LossLimit)]

Before == [account |-> account, history |-> history, alarm |-> FALSE]

\* n closes one after the other.
After(ps, n) ==
    LET book[i \in 0..n] == IF i = 0 THEN Before ELSE Booked(book[i - 1], ps[i])
    IN  book[n]

Settled(ps, n) == account' = After(ps, n).account /\ history' = After(ps, n).history

\* A variant whose callback leaves the other positions open.
CloseNoCascade(S, P) ==
    \E ps \in [1..Cardinality(S) -> P] :
        /\ S \subseteq Held
        /\ Settled(ps, Cardinality(S))
        /\ triggered' = (triggered \/ After(ps, Cardinality(S)).alarm)
        /\ positions' = [s \in Symbols |-> IF s \in S THEN 0 ELSE positions[s]]

\* A variant whose fail-safe is told of the losses but never trips.
CloseUntripped(S, P) ==
    \E ps \in [1..Cardinality(S) -> P] :
        /\ S \subseteq Held
        /\ Settled(ps, Cardinality(S))
        /\ positions' = [s \in Symbols |-> IF s \in S THEN 0 ELSE positions[s]]
        /\ UNCHANGED triggered

\* Close the positions of S one after the other, each for one of the PnLs of P.
\* An alarm closes every other position from inside the callback.
Close(S, P) ==
    \E T \in {S, Held} : \E ps \in [1..Cardinality(T) -> PnLs] :
        LET alarm == After(ps, Cardinality(S)).alarm
        IN  /\ S \subseteq Held
            /\ \A i \in 1..Cardinality(S) : ps[i] \in P
            /\ T = IF alarm THEN Held ELSE S
            /\ Settled(ps, Cardinality(T))
            /\ triggered' = (triggered \/ alarm)
            /\ positions' = [s \in Symbols |-> IF s \in T THEN 0 ELSE positions[s]]

CloseAllPositions == Close(Held, PnLs)

-----------------------------------------------------------------------------
(* _on_signal_event. *)

\* check_expectancy over the closed trades (fewer than its limit of fifty).
Expectancy(h) ==
    /\ h.count >= MinTrades
    /\ 100 * h.wins >= 15 * h.count
    /\ h.sum >= 0

\* calculate_ruin_probability as called: a day whose win rate is 0 or 1 is let
\* through before capital is looked at; a day without trades counts as a coin
\* toss for one unit, whose growth is zero and whose ruin is certain; on a mixed
\* day the estimate decides (left open), and never at the critical capital.
RuinAllows(day, capital) ==
    /\ day # "none"
    /\ day = "mixed" => capital > MinCapital

\* A variant whose handler does not ask for the expectancy.
GateWithoutExpectancy(s) == idleFor[s] = TradeCooldown /\ ~triggered

\* The gates in front of the ones that judge the market or the models.
Gate(s) ==
    /\ idleFor[s] = TradeCooldown
    /\ Expectancy(history)
    /\ ~triggered

Size == IF defensive' THEN 1 ELSE FullSize  \* 0.25 * 0.25 when defensive

Looked(s) ==
    /\ pc = "signals" /\ s \in todo
    /\ todo' = todo \ {s}
    /\ UNCHANGED <<pc, riskVars, newDay>>

\* No stable signal, or a gate refuses it.  detect_regime_collapse, between the
\* gates, moves the defensive mode either way.
SignalIgnored(s) ==
    /\ Looked(s)
    /\ defensive' \in (IF Gate(s) THEN BOOLEAN ELSE {defensive})
    /\ UNCHANGED <<positions, money, idleFor>>

Executed(s) ==
    /\ Looked(s)
    /\ Gate(s)
    /\ RuinAllows(history.today, account.capital)
    /\ defensive' \in BOOLEAN
    /\ idleFor' = [idleFor EXCEPT ![s] = 0]

\* A buy or a sell on a flat symbol.
SignalOpens(s, side) ==
    /\ positions[s] = 0
    /\ history.count + Cardinality(Held) < MaxTrades
    /\ Executed(s)
    /\ positions' = [positions EXCEPT ![s] = side * Size]
    /\ UNCHANGED money

\* A close signal, or one against the position: it is closed, not flipped.
SignalCloses(s) ==
    /\ positions[s] # 0
    /\ Executed(s)
    /\ Close({s}, PnLs)

SignalsDone ==
    /\ pc = "signals"
    /\ todo' = {} /\ pc' = "risk"
    /\ UNCHANGED <<positions, money, riskVars, defensive, idleFor, newDay>>

-----------------------------------------------------------------------------
(* Risk check, breach handling and drawdown defence. *)

DailyLossHit == start > 0 /\ 100 * account.daily <= -MaxDailyLoss * start
DrawdownOf(percent) == peak > 0 /\ 100 * (peak - account.capital) >= percent * peak

Breaches == {"daily", "drawdown", "leverage"}

\* check_risk: the first limit that is broken.  Ten times leverage is out of
\* reach of the engine's own orders, not of the dashboard's.
Breach(reason) ==
    CASE reason = "daily" -> DailyLossHit
      [] reason = "drawdown" -> ~DailyLossHit /\ DrawdownOf(MaxDrawdown)
      [] OTHER -> ~DailyLossHit /\ ~DrawdownOf(MaxDrawdown) /\ touched /\ ~Flat

\* The check failed: RISK_CHECK_PERFORMED makes _on_risk_event close everything
\* before _handle_risk_breach runs.  _check_daily_reset touches nothing that is
\* modelled but the date.
RiskCheckFails(reason) ==
    /\ pc = "risk" /\ Breach(reason)
    /\ pc' = reason
    /\ CloseAllPositions
    /\ newDay' = FALSE
    /\ UNCHANGED <<todo, riskVars, defensive, idleFor>>

\* The check passed; a correlation shock may turn the defensive mode on.
RiskCheckPasses ==
    /\ pc = "risk" /\ ~Breach("daily") /\ ~Breach("drawdown")
    /\ pc' = "defence"
    /\ newDay' = FALSE
    /\ defensive' \in {defensive, TRUE}
    /\ UNCHANGED <<todo, positions, money, riskVars, idleFor>>

\* check_drawdown_defense halts, under a reason that also says "Drawdown".
DefenceHalts ==
    /\ pc = "defence" /\ DrawdownOf(15)
    /\ pc' = "drawdown"
    /\ CloseAllPositions
    /\ UNCHANGED <<todo, riskVars, defensive, idleFor, newDay>>

DefencePasses ==
    /\ pc = "defence" /\ ~DrawdownOf(15)
    /\ pc' = "stops"
    /\ UNCHANGED <<todo, positions, money, riskVars, defensive, idleFor, newDay>>

\* _handle_risk_breach: at most one breach per cooldown is handled.
BreachIgnored ==
    /\ pc \in Breaches /\ sinceBreach < BreachCooldown
    /\ pc' = "sleep"
    /\ UNCHANGED <<todo, positions, money, riskVars, defensive, idleFor, newDay>>

\* Its close-all finds only what the dashboard opened in the meantime.
BreachCloses ==
    /\ pc \in Breaches /\ sinceBreach = BreachCooldown /\ ~Flat
    /\ CloseAllPositions
    /\ UNCHANGED <<pc, todo, riskVars, defensive, idleFor, newDay>>

\* A variant of the handler: a daily breach keeps the start capital.
BreachKeepsStart ==
    /\ pc \in Breaches /\ sinceBreach = BreachCooldown /\ Flat
    /\ sinceBreach' = 0
    /\ account' = IF pc = "daily" THEN [account EXCEPT !.daily = 0] ELSE account
    /\ peak' = IF pc = "drawdown" THEN account.capital ELSE peak
    /\ pc' = "halted"
    /\ UNCHANGED <<todo, positions, history, triggered, start, loaded, defensive, idleFor, newDay>>

\* Then the reference that was broken is moved so that trading can resume.
BreachResets ==
    /\ pc \in Breaches /\ sinceBreach = BreachCooldown /\ Flat
    /\ sinceBreach' = 0
    /\ account' = IF pc = "daily" THEN [account EXCEPT !.daily = 0] ELSE account
    /\ start' = IF pc = "daily" THEN account.capital ELSE start
    /\ loaded' = IF pc = "daily" THEN 0 ELSE loaded
    /\ peak' = IF pc = "drawdown" THEN account.capital ELSE peak
    /\ pc' = "halted"
    /\ UNCHANGED <<todo, positions, history, triggered, defensive, idleFor, newDay>>

\* RISK_LIMIT_BREACH reaches _on_risk_event: closed once more.
BreachPublished ==
    /\ pc = "halted"
    /\ pc' = "sleep"
    /\ CloseAllPositions
    /\ UNCHANGED <<todo, riskVars, defensive, idleFor, newDay>>

-----------------------------------------------------------------------------
(* Stops, the end of the iteration, the clock and the dashboard. *)

\* _enforce_stop_loss_take_profit, then update_peak_capital.
EnforceStops ==
    /\ pc = "stops"
    /\ \E S \in SUBSET Held : Close(S, PnLs \ {0})
    /\ peak' = Larger(peak, account'.capital)
    /\ pc' = "sleep"
    /\ UNCHANGED <<todo, start, loaded, sinceBreach, defensive, idleFor, newDay>>

Sleep(midnight) ==
    /\ pc = "sleep"
    /\ pc' = "signals" /\ todo' = Symbols
    /\ idleFor' = [s \in Symbols |-> Smaller(idleFor[s] + 1, TradeCooldown)]
    /\ sinceBreach' = Smaller(sinceBreach + 1, BreachCooldown)
    /\ newDay' = (newDay \/ midnight)
    /\ history' = IF midnight THEN [history EXCEPT !.today = "none"] ELSE history
    /\ UNCHANGED <<positions, account, triggered, start, loaded, peak, defensive>>

\* /api/order/long, short and close go to the order manager past every gate.
DashboardOrders(s, size) ==
    /\ history.count + Cardinality(Held) < MaxTrades
    /\ positions' = [positions EXCEPT ![s] = size]
    /\ UNCHANGED <<pc, todo, money, riskVars, defensive, idleFor, newDay>>

DashboardCloses(s) ==
    /\ positions[s] # 0
    /\ Close({s}, PnLs)
    /\ UNCHANGED <<pc, todo, riskVars, defensive, idleFor, newDay>>

-----------------------------------------------------------------------------
\* PaperTradingEngine.start: daily_pnl is today's, from Redis; capital is not.
Init ==
    /\ pc = "signals" /\ todo = Symbols
    /\ positions = [s \in Symbols |-> 0]
    /\ history \in Histories
    /\ account = [capital |-> InitialCapital, daily |-> DailyOf(history), losses |-> 0]
    /\ loaded = DailyOf(history)
    /\ triggered = FALSE
    /\ start = InitialCapital
    /\ peak = 0
    /\ defensive = FALSE
    /\ idleFor = [s \in Symbols |-> TradeCooldown]
    /\ sinceBreach = BreachCooldown
    /\ newDay = FALSE
    /\ touched = FALSE

Signals ==
    \E s \in Symbols :
        \/ SignalIgnored(s) \/ SignalCloses(s)
        \/ \E side \in {-1, 1} : SignalOpens(s, side)

Risk ==
    \/ \E reason \in Breaches : RiskCheckFails(reason)
    \/ RiskCheckPasses \/ DefenceHalts \/ DefencePasses
    \/ BreachIgnored \/ BreachCloses \/ BreachResets \/ BreachPublished

Cycle ==
    \/ Signals \/ SignalsDone
    \/ Risk
    \/ EnforceStops
    \/ \E midnight \in BOOLEAN : Sleep(midnight)

Dashboard ==
    \E s \in Symbols :
        \/ \E size \in {-FullSize, 0, FullSize} : DashboardOrders(s, size)
        \/ DashboardCloses(s)

Next ==
    \/ Cycle /\ UNCHANGED touched
    \/ Dashboard /\ touched' = TRUE

Spec == Init /\ [][Next]_vars

\* The update thread keeps running.  As long as nobody uses the dashboard its
\* steps are the only ones, and nothing is asked of the time after that.
Alone == ~touched /\ Cycle /\ UNCHANGED touched
FairSpec == Spec /\ WF_vars(Alone)

-----------------------------------------------------------------------------
(* What the iteration promises. *)

\* The variables keep their types, and a loss streak at its limit has tripped
\* the fail-safe (EmergencyStop.record_trade_pnl).
TypeOK ==
    /\ pc \in {"signals", "risk", "defence", "stops", "halted", "sleep"} \cup Breaches
    /\ todo \subseteq Symbols
    /\ positions \in [Symbols -> {-FullSize, -1, 0, 1, FullSize}]
    /\ account \in [capital : Int, daily : Int, losses : 0..LossLimit]
    /\ history \in History
    /\ triggered \in BOOLEAN /\ defensive \in BOOLEAN /\ newDay \in BOOLEAN
    /\ start \in Int /\ loaded \in Int /\ peak \in Int
    /\ idleFor \in [Symbols -> 0..TradeCooldown]
    /\ sinceBreach \in 0..BreachCooldown
    /\ account.losses = LossLimit => triggered

\* Feature 10, engine.py _on_order_filled: the close-all that the fail-safe runs
\* from inside the callback of a losing close leaves nothing open, whichever
\* close it was, and nothing opens again unless somebody uses the dashboard.
FailSafeFlattens == triggered /\ ~touched => Flat

\* daily_pnl and daily_start_capital: across fills, stops and breach resets the
\* daily PnL is what the capital gained since its reference, and what start
\* loaded from Redis until the first reset forgets it.
DailyTracksCapital == account.daily = account.capital - start + loaded

\* The gates of _on_signal_event latch: a flat engine whose trade history fails
\* the expectancy gate, whose day has no closed trade yet, or whose fail-safe has
\* tripped never trades again of itself, since only its own closes could open them.
Shut == ~Expectancy(history) \/ history.today = "none" \/ triggered
IdleForever == [][Flat /\ Shut /\ ~touched' => Flat' /\ Shut']_vars

\* _handle_risk_breach: the references a limit is measured from are lowered once
\* per cooldown, and only when nothing is open.
ReferencesMoveRarely ==
    [][peak' < peak \/ start' # start
         => sinceBreach = BreachCooldown /\ sinceBreach' = 0 /\ Flat']_vars

\* "Resetting ... to allow trading to resume": whatever limit is broken, the
\* checks pass again, unless the dashboard keeps opening positions meanwhile.
ResumesAfterBreach == <>touched \/ []<>(pc = "stops")

\* The gates and limits of the loop: what is shut stays shut, a reference moves rarely, and a
\* broken limit lets the loop through again.
LimitsWork == IdleForever /\ ReferencesMoveRarely /\ ResumesAfterBreach

-----------------------------------------------------------------------------
(* What the documents promise and the iteration does not do. *)

Opened(s) == positions[s] = 0 /\ positions'[s] # 0

\* risk_engine.py, check_drawdown_defense: "drawdown > 15% -> halt trading".
HaltsInDrawdown == [][\A s \in Symbols : Opened(s) /\ ~touched' => ~DrawdownOf(15)]_vars

-----------------------------------------------------------------------------
(* The account that is model-checked: twenty units, so that one unit is 5% and *)
(* two or three losing closes reach every percentage the code compares.  Redis  *)
(* starts empty, or with a history that passes the expectancy gate, of today or  *)
(* of the days before.                                                          *)

MCPnLs == {-2, 0, 1}

MCNoTrades == [count |-> 0, wins |-> 0, sum |-> 0, today |-> "none"]
MCGood(today, sum) == [count |-> 1, wins |-> 1, sum |-> sum, today |-> today]
MCHistories == {MCNoTrades, MCGood("none", 4), MCGood("won", 1), MCGood("won", 4)}
HaltHistories == {MCGood("won", 4)}
MCDailyOf(h) == IF h.today = "won" THEN h.sum ELSE 0
=============================================================================
