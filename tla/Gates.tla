------------------------------- MODULE Gates --------------------------------
(***************************************************************************)
(* The gates a signal passes before PaperTradingEngine._on_signal_event     *)
(* trades on it that ask about the signal's conviction and the portfolio's  *)
(* losses, and the stops that end positions in the update iteration, while  *)
(* the feed thread moves the prices.  TradingCycle has the gates of the     *)
(* account, Defence the one of the regime.                                  *)
(*   Money is in per cent of the capital, which stands still, and fractions *)
(* are compared crosswise.                                                  *)
(***************************************************************************)
EXTENDS Integers, FiniteSets, FiniteSetsExt

CONSTANTS Symbols,     \* the symbols traded
          Prices,      \* the prices a symbol may have
          Value,       \* value of a new position: position_size_pct times leverage
          StopLoss,    \* stop_loss_pct
          TakeProfit,  \* take_profit_pct
          CvarLimit,   \* cvar_limit_pct
          Confidences, \* confidences signals may have, in per mille
          Uncertainties, \* uncertainties of the ensemble, in per mille
          Decay        \* [age |-> exp(-0.1 * age)], in per mille

\* What the constants are assumed to be.
GatesAssumption ==
    /\ Prices \subseteq Nat \ {0} /\ Confidences \cup Uncertainties \subseteq 0..1000
    /\ {Value, StopLoss, TakeProfit, CvarLimit} \subseteq Nat \ {0}
    /\ IsFiniteSet(Symbols) /\ Prices # {}
    /\ DOMAIN Decay \subseteq Nat /\ \A a \in DOMAIN Decay : Decay[a] \in 0..1000
    /\ \A a \in DOMAIN Decay, b \in DOMAIN Decay : b < a => Decay[a] <= Decay[b]

VARIABLES price,    \* the data bridge's price of each symbol
          holding,  \* the order manager's positions
          fresh     \* history: the symbols without a price since their stops were looked at

gateVars == <<price, holding, fresh>>

Flat == [side |-> 0, entry |-> 0]
Open == {s \in Symbols : holding[s].side # 0}

\* What a position gained per unit of its entry price, times that price.
Gain(s) == holding[s].side * (price[s] - holding[s].entry)

-----------------------------------------------------------------------------
(* The gates *)

\* apply_edge_decay with edge_threshold 0.01: the confidence left of a signal.
Decayed(confidence, age) == confidence * Decay[age]
EdgeLeft(confidence, age) == Decayed(confidence, age) >= 10 * 1000

\* check_conservatism: of uncertainty at most 0.3 and decayed confidence of 0.5 at least.
Convinced(unsure, confidence, age) == unsure <= 300 /\ Decayed(confidence, age) >= 500 * 1000

\* check_market_liquidity; the indicators of a signal name none of the three.
Unnamed == [spread_pct |-> 0, volume_ratio |-> 1000, order_book_depth |-> 1000]
Liquid(market) ==
    market.spread_pct <= 5 /\ market.volume_ratio <= 5000 /\ market.order_book_depth >= 100

\* check_tail_risk: 1.645 times the loss of every losing position, times 1.5, against the limit.
\* A fraction is a pair; adding keeps it exact.
Plus(f, g) == <<f[1] * g[2] + g[1] * f[2], f[2] * g[2]>>
LossOf(s) == IF Gain(s) < 0 THEN <<Value * (-Gain(s)), holding[s].entry>> ELSE <<0, 1>>
TailOf(symbols) == FoldSet(LAMBDA s, f : Plus(f, LossOf(s)), <<0, 1>>, symbols)
Bearable(loss) == 24675 * loss[1] <= 10000 * CvarLimit * loss[2]
TailRiskAllows == Bearable(TailOf(Open))

\* check_position_risk, in the order of its conditions.
RiskOf(s) ==
    CASE 100 * Gain(s) <= -StopLoss * holding[s].entry -> "close_position"
      [] 100 * Gain(s) >= TakeProfit * holding[s].entry -> "consider_take_profit"
      [] OTHER -> "ok"

-----------------------------------------------------------------------------
Init ==
    /\ price \in [Symbols -> {Min(Prices)}]
    /\ holding = [s \in Symbols |-> Flat] /\ fresh = Symbols

\* The feed thread.
PriceMoves(s) ==
    /\ price' \in {[price EXCEPT ![s] = p] : p \in Prices \ {price[s]}}
    /\ fresh' = fresh \ {s}
    /\ UNCHANGED holding

\* A signal: the gates in their order, whose others (the account's) TradingCycle has; what
\* they reject leaves everything as it is.
Passes(confidence, unsure, age) ==
    /\ confidence >= 400
    /\ Liquid(Unnamed)
    /\ EdgeLeft(confidence, age)
    /\ Convinced(unsure, confidence, age)
    /\ TailRiskAllows

\* An open position in the other direction is closed only.
SignalOpens(s, side) ==
    /\ holding[s].side = 0
    /\ \E c \in Confidences, u \in Uncertainties, a \in DOMAIN Decay : Passes(c, u, a)
    /\ holding' = [holding EXCEPT ![s] = [side |-> side, entry |-> price[s]]]
    /\ fresh' = fresh \cup {s}
    /\ UNCHANGED price

SignalCloses(s) ==
    /\ holding[s].side # 0
    /\ \E c \in Confidences, u \in Uncertainties, a \in DOMAIN Decay : Passes(c, u, a)
    /\ holding' = [holding EXCEPT ![s] = Flat]
    /\ UNCHANGED <<price, fresh>>

\* _enforce_stop_loss_take_profit for one position; the feed goes on between two of them.
EnforceStops(s) ==
    /\ s \in Open
    /\ holding' = IF RiskOf(s) = "ok" THEN holding ELSE [holding EXCEPT ![s] = Flat]
    /\ fresh' = fresh \cup {s}
    /\ UNCHANGED price

Next ==
    \E s \in Symbols :
        \/ PriceMoves(s) \/ EnforceStops(s)
        \/ SignalCloses(s) \/ \E side \in {-1, 1} : SignalOpens(s, side)

Spec == Init /\ [][Next]_gateVars

-----------------------------------------------------------------------------
\* While no price came since the stops were looked at, the open positions are within the
\* stops, and as long as their value together times the stop stays within the tail limit, that
\* gate lets signals through: it can hold a closing signal back only between a price and the
\* stops, or in a portfolio too large for the stops.
StopsFreeTheGate ==
    LET open == Open
    IN  open \subseteq fresh =>
          /\ \A s \in open : RiskOf(s) = "ok"
          /\ 24675 * Cardinality(open) * Value * StopLoss <= 1000000 * CvarLimit => TailRiskAllows

\* A portfolio's tail risk is not over the limit when only winners are added to one that was
\* within it, and not within it when losers are added to one that was over.
TailGrowsWithLosers ==
    \A some \in SUBSET Open :
        LET added == Open \ some
        IN  /\ (\A s \in added : Gain(s) >= 0) => Bearable(TailOf(some)) = TailRiskAllows
            /\ (\A s \in added : Gain(s) <= 0) => (TailRiskAllows => Bearable(TailOf(some)))

\* The edge gate decides nothing: every signal it turns away the conviction gate would, and
\* waiting never convinces.
EdgeGateIdle ==
    \A c \in Confidences, u \in Uncertainties, a \in DOMAIN Decay :
        Convinced(u, c, a) =>
            /\ EdgeLeft(c, a) /\ c >= 400
            /\ \A b \in DOMAIN Decay : b < a => Convinced(u, c, b)
=============================================================================
