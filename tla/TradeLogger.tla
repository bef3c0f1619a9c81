---------------------------- MODULE TradeLogger ----------------------------
(***************************************************************************)
(* paper_trading/layers/layer5_execution/trade_logger.py on Redis: the     *)
(* open positions, the closed trades and four running totals, each under a *)
(* key of its own and written by a command of its own.  A lock keeps the   *)
(* threads of one process apart; a failed command leaves the rest undone,  *)
(* and a crash of the process loses its positions and keeps Redis.         *)
(*                                                                         *)
(* The order manager changes its position first and calls the logger       *)
(* after that, outside any lock.  A trade is its number.                   *)
(***************************************************************************)
EXTENDS Integers, SequencesExt

CONSTANTS
    Symbols,
    Threads,       \* threads that trade
    PnLs,          \* what a close may realise
    MaxCrashes,    \* bound on the crashes of a behaviour
    MaxDay,        \* bound on the days
    MaxTrades      \* bound on the closed trades

\* What the constants are assumed to be.
LoggerAssumption ==
    /\ PnLs \subseteq Int /\ "free" \notin Threads /\ "none" \notin Symbols
    /\ IsFiniteSet(Symbols)
    /\ MaxCrashes \in Nat /\ MaxDay \in Nat /\ MaxTrades \in Nat

VARIABLES
    held,     \* OrderManager.positions, as far as the logger's callers differ
    trades,   \* history: the closes that happened, with symbol and PnL
    redis,    \* the keys of the logger
    lock,     \* _lock: the thread that has it
    op,       \* each thread's call
    day, crashes,
    trouble   \* history: what a property may have to make an exception for

vars == <<held, trades, redis, lock, op, day, crashes, trouble>>

Free == "free"
NoCall == [kind |-> "none", symbol |-> "none", trade |-> 0, step |-> 0]
NoStats == [count |-> 0, wins |-> 0, total |-> 0]
Days == 0..MaxDay

Total(ids) == SumFunctionOnSet([i \in DOMAIN trades |-> trades[i].pnl], ids)
Logged(s) == ToSet(redis.history[s])
AllLogged == UNION {Logged(s) : s \in Symbols}

-----------------------------------------------------------------------------
(* The callers in order_manager.py. *)

\* Another thread is still logging an order of the symbol.
Overlap(s) == IF \E t \in Threads : op[t].symbol = s THEN {"overlap"} ELSE {}

\* _update_position on an empty position: the size, then log_open_position.
Opens(t, s, size) ==
    /\ op[t] = NoCall /\ held[s] = 0
    /\ trouble' = trouble \cup Overlap(s)
    /\ held' = [held EXCEPT ![s] = size]
    /\ op' = [op EXCEPT ![t] = [kind |-> "open", symbol |-> s, trade |-> 0, step |-> 0]]
    /\ UNCHANGED <<trades, redis, lock, day, crashes>>

\* _close_position: the size, then log_close_position.
Closes(t, s, size, pnl) ==
    /\ op[t] = NoCall /\ Len(trades) < MaxTrades
    /\ size <= held[s]
    /\ trouble' = trouble \cup Overlap(s) \cup (IF size < held[s] THEN {"partial"} ELSE {})
    /\ held' = [held EXCEPT ![s] = @ - size]
    /\ trades' = Append(trades, [symbol |-> s, pnl |-> pnl])
    /\ op' = [op EXCEPT ![t] = [kind |-> "close", symbol |-> s, trade |-> Len(trades) + 1, step |-> 0]]
    /\ UNCHANGED <<redis, lock, day, crashes>>

-----------------------------------------------------------------------------
(* The logger. *)

Return(t) == op' = [op EXCEPT ![t] = NoCall]

LogOpen(t) ==
    /\ op[t].kind = "open" /\ lock = Free
    /\ redis' = [redis EXCEPT !.open = @ \cup {op[t].symbol}]
    /\ Return(t)
    /\ UNCHANGED <<held, trades, lock, day, crashes, trouble>>

LogOpenFails(t) ==
    /\ trouble' = trouble \cup {"failed"}
    /\ op[t].kind = "open" /\ lock = Free
    /\ Return(t)
    /\ UNCHANGED <<held, trades, redis, lock, day, crashes>>

\* log_close_position takes the lock and reads the opening data; when there is
\* none it raises on entry_data.get, after the check that allowed for it.
LogClose(t) ==
    /\ op[t].kind = "close" /\ op[t].step = 0 /\ lock = Free
    /\ IF op[t].symbol \in redis.open
       THEN lock' = t /\ op' = [op EXCEPT ![t].step = 1]
       ELSE Return(t) /\ UNCHANGED lock
    /\ UNCHANGED <<held, trades, redis, day, crashes, trouble>>

\* The commands of log_close_position, in their order.
Commands == <<"history", "daily_pnl", "cumulative", "count", "daily_stats", "open">>

\* _update_daily_stats.
Counted(stats, pnl) ==
    [count |-> stats.count + 1, wins |-> stats.wins + (IF pnl > 0 THEN 1 ELSE 0),
     total |-> stats.total + pnl]

\* A variant that overwrites the day's total.
EarnedOverwriting(pnl) == [redis.daily_pnl EXCEPT ![day] = pnl]

\* The history of the symbol, and the two keys of the day.
Listed(s, id) == [redis.history EXCEPT ![s] = Append(@, id)]
Earned(pnl) == [redis.daily_pnl EXCEPT ![day] = @ + pnl]
Tallied(pnl) == [redis.daily_stats EXCEPT ![day] = Counted(@, pnl)]

Performed(command, s, id) ==
    LET pnl == trades[id].pnl
    IN  CASE command = "history" -> [redis EXCEPT !.history = Listed(s, id)]
          [] command = "daily_pnl" -> [redis EXCEPT !.daily_pnl = Earned(pnl)]
          [] command = "cumulative" -> [redis EXCEPT !.cumulative = @ + pnl]
          [] command = "count" -> [redis EXCEPT !.count = @ + 1]
          [] command = "daily_stats" -> [redis EXCEPT !.daily_stats = Tallied(pnl)]
          [] OTHER -> [redis EXCEPT !.open = @ \ {s}]

Command(t) ==
    /\ op[t].step > 0
    /\ redis' = Performed(Commands[op[t].step], op[t].symbol, op[t].trade)
    /\ IF op[t].step = Len(Commands)
       THEN lock' = Free /\ Return(t)
       ELSE op' = [op EXCEPT ![t].step = @ + 1] /\ UNCHANGED lock
    /\ UNCHANGED <<held, trades, day, crashes, trouble>>

\* A variant that leaves without the lock's context manager.
CommandFailsLocked(t) ==
    /\ trouble' = trouble \cup {"failed"}
    /\ op[t].step > 0
    /\ Return(t)
    /\ UNCHANGED <<held, trades, redis, lock, day, crashes>>

\* A command raises: the lock is released and False returned; nobody retries.
CommandFails(t) ==
    /\ trouble' = trouble \cup {"failed"}
    /\ op[t].step > 0
    /\ lock' = Free /\ Return(t)
    /\ UNCHANGED <<held, trades, redis, day, crashes>>

-----------------------------------------------------------------------------
(* The process and the clock. *)

Crash ==
    /\ crashes < MaxCrashes
    /\ crashes' = crashes + 1
    /\ trouble' = trouble \cup {"crashed"}
    /\ held' = [s \in Symbols |-> 0]
    /\ lock' = Free
    /\ op' = [t \in Threads |-> NoCall]
    /\ UNCHANGED <<trades, redis, day>>

Midnight ==
    /\ day < MaxDay
    /\ day' = day + 1
    /\ UNCHANGED <<held, trades, redis, lock, op, crashes, trouble>>

-----------------------------------------------------------------------------
Init ==
    /\ held = [s \in Symbols |-> 0]
    /\ trades = <<>>
    /\ redis = [open |-> {}, history |-> [s \in Symbols |-> <<>>],
                daily_pnl |-> [d \in Days |-> 0], cumulative |-> 0, count |-> 0,
                daily_stats |-> [d \in Days |-> NoStats]]
    /\ lock = Free
    /\ op = [t \in Threads |-> NoCall]
    /\ day = 0 /\ crashes = 0 /\ trouble = {}

Log(t) ==
    \/ LogOpen(t) \/ LogOpenFails(t)
    \/ LogClose(t) \/ Command(t) \/ CommandFails(t)

Trade(t) ==
    \E s \in Symbols, size \in 1..2 :
        \/ Opens(t, s, size)
        \/ \E pnl \in PnLs : Closes(t, s, size, pnl)

Next == (\E t \in Threads : Log(t) \/ Trade(t)) \/ Crash \/ Midnight

Spec == Init /\ [][Next]_vars

-----------------------------------------------------------------------------
(* What the logger promises. *)

\* The variables keep their types; the lock is held only within a close.
TypeOK ==
    /\ held \in [Symbols -> 0..2]
    /\ trades \in Seq([symbol : Symbols, pnl : PnLs])
    /\ redis.open \subseteq Symbols /\ redis.cumulative \in Int /\ redis.count \in Nat
    /\ AllLogged \subseteq DOMAIN trades
    /\ redis.daily_pnl \in [Days -> Int]
    /\ redis.daily_stats \in [Days -> [count : Nat, wins : Nat, total : Int]]
    /\ \A t \in Threads : (lock = t) = (op[t].step > 0)
    /\ lock \in Threads \cup {Free}
    /\ trouble \subseteq {"partial", "overlap", "failed", "crashed"}

OverDays(f) == SumFunctionOnSet(f, Days)
LoggedCount == OverDays([d \in Days |-> redis.daily_stats[d].count])

\* log_close_position writes the trade before its totals: whatever command fails
\* and wherever the process dies, no total counts a trade the history lacks, the
\* days' statistics lag behind the counter, and no trade is logged twice.
NeverAhead ==
    /\ redis.count <= Cardinality(AllLogged)
    /\ LoggedCount <= redis.count
    /\ \A s \in Symbols : IsInjective(redis.history[s])

\* As long as every command was carried out, the history and the four totals are
\* one account whenever no close is being logged, however the threads interleave
\* and whether or not midnight falls between two commands of a close.
TotalsAgree ==
    trouble \cap {"failed", "crashed"} = {} /\ lock = Free =>
        /\ redis.cumulative = Total(AllLogged)
        /\ redis.cumulative = OverDays(redis.daily_pnl)
        /\ redis.cumulative = OverDays([d \in Days |-> redis.daily_stats[d].total])
        /\ redis.count = Cardinality(AllLogged)
        /\ redis.count = LoggedCount

\* The open positions in Redis are those the order manager holds, as long as
\* every close was a whole one, the orders of one symbol were logged one at a
\* time, and nothing failed.
OpenMatchesHeld ==
    trouble = {} /\ (\A t \in Threads : op[t] = NoCall)
      => redis.open = {s \in Symbols : held[s] > 0}

-----------------------------------------------------------------------------
(* The metrics, read from the history without the lock. *)

\* get_recent_trades: symbol after symbol, in the order in which Redis lists their keys, and
\* of each its last trades.
RecentTrades(order, limit) == FlattenSeq([i \in DOMAIN order |->
    LET h == redis.history[order[i]]
    IN  SubSeq(h, IF Len(h) > limit THEN Len(h) - limit + 1 ELSE 1, Len(h))])

\* _calculate_max_drawdown
MaxDrawdown(returns) ==
    FoldLeft(LAMBDA m, r :
                LET pnl == m.pnl + r
                    peak == IF pnl > m.peak THEN pnl ELSE m.peak
                IN  [pnl |-> pnl, peak |-> peak,
                     most |-> IF peak - pnl > m.most THEN peak - pnl ELSE m.most],
             [pnl |-> 0, peak |-> 0, most |-> 0], returns).most

\* get_risk_metrics, of fewer than two trades nothing; a close that realises nothing does
\* not count.
RiskMetrics(order) ==
    LET ids == RecentTrades(order, 500)
        returns == SelectSeq([i \in DOMAIN ids |-> trades[ids[i]].pnl], LAMBDA p : p # 0)
        SumOf(Test(_)) == FoldLeft(LAMBDA a, b : a + b, 0, SelectSeq(returns, Test))
    IN  IF Len(ids) < 2 THEN [max_drawdown |-> 0, profit |-> 0, loss |-> 0, wins |-> 0, total |-> 0]
        ELSE [max_drawdown |-> MaxDrawdown(returns),
              profit |-> SumOf(LAMBDA p : p > 0), loss |-> -SumOf(LAMBDA p : p < 0),
              wins |-> Len(SelectSeq(returns, LAMBDA p : p > 0)), total |-> Len(returns)]

\* The largest fall from a point of the account to a later one, in the order of the closes.
Fall(i, j) == -FoldLeft(LAMBDA sum, n : sum + trades[n].pnl, 0, [k \in 1..(j - i) |-> i + k])

\* Whenever no close is being logged and every command was carried out, the metrics agree
\* with the totals, and the drawdown lies between the largest loss and all losses together;
\* of a single symbol whose closes were logged in their order it is the largest fall.
MetricsAgree ==
    \A order \in SetToSeqs(Symbols) :
        LET m == RiskMetrics(order)
        IN  trouble \cap {"failed", "crashed"} = {} /\ lock = Free /\ redis.count >= 2 =>
            /\ m.profit - m.loss = redis.cumulative
            /\ m.wins = OverDays([d \in Days |-> redis.daily_stats[d].wins])
            /\ m.max_drawdown <= m.loss
            /\ \A i \in AllLogged : m.max_drawdown >= -trades[i].pnl
            /\ \A s \in Symbols : redis.history[s] = [i \in DOMAIN trades |-> i] =>
                  /\ \A i \in 0..Len(trades), j \in 0..Len(trades) :
                        i <= j => Fall(i, j) <= m.max_drawdown
                  /\ \E i \in 0..Len(trades), j \in 0..Len(trades) :
                        i <= j /\ Fall(i, j) = m.max_drawdown

-----------------------------------------------------------------------------
(* What its comments promise and it does not do. *)

\* log_close_position, "Log a closing trade with realized PnL": as long as no
\* command fails, a close whose call has returned is in the history.
EveryCloseLogged ==
    trouble \cap {"failed", "crashed"} = {} =>
        \A i \in DOMAIN trades : i \in AllLogged \/ \E t \in Threads : op[t].trade = i
=============================================================================
