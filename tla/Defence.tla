------------------------------ MODULE Defence -------------------------------
(***************************************************************************)
(* What the risk engine (layer2_risk/risk_engine.py) and the meta-learner    *)
(* (layer4_intelligence/meta_learner.py) make of the market in one iteration   *)
(* of engine._process_update: the volatility of the price series, the          *)
(* defensive mode and the size of an order, the correlation shock, the          *)
(* drawdown defence and the freezing of model updates.  The market is free to    *)
(* be anything; its numbers are kept as the bands the code compares them with.    *)
(***************************************************************************)
EXTENDS Integers

CONSTANTS Known,     \* volatility samples detect_regime_collapse asks for
          Patience   \* periods of poor performance before a freeze

\* What the constants are assumed to be.
DefenceAssumption == Known \in Nat /\ Patience \in Nat \ {0}

VARIABLES pc,         \* "prices", "signals" or "checks"
          samples,    \* volatility_history, up to Known
          z,          \* the last sample's z-score: under 0.5, over the threshold, or between
          vol,        \* the last sample against 3% and half of it
          corr,       \* the average correlation is over 0.7
          deep,       \* the drawdown from the peak capital is 15% or more
          poor,       \* the day's loss is over 5%
          defensive,  \* defensive_mode
          opened,     \* the last order opened: its size and what it was sized in
          frozen,     \* model_update_frozen
          degraded    \* performance_degradation_count, up to Patience

defenceVars == <<pc, samples, z, vol, corr, deep, poor, defensive, opened, frozen, degraded>>
market == <<samples, z, vol, corr, deep, poor>>
learner == <<frozen, degraded>>

FullSize == 16
ZBands == {"calm", "raised", "spike"}
VolBands == {"low", "middle", "high"}
Spiked == samples = Known /\ z = "spike"

TypeOK ==
    /\ pc \in {"prices", "signals", "checks"} /\ samples \in 0..Known
    /\ z \in ZBands /\ vol \in VolBands /\ {corr, deep, poor, defensive, frozen} \subseteq BOOLEAN
    /\ degraded \in 0..Patience
    /\ opened \in [size : {0, 1, FullSize}, spiked : BOOLEAN]

Init ==
    /\ pc = "prices" /\ samples = 0 /\ z = "calm" /\ vol = "low" /\ corr = FALSE
    /\ deep = FALSE /\ poor = FALSE /\ defensive = FALSE /\ frozen = FALSE /\ degraded = 0
    /\ opened = [size |-> 0, spiked |-> FALSE]

-----------------------------------------------------------------------------
\* update_volatility with the iteration's prices.
UpdateVolatility ==
    /\ pc = "prices" /\ pc' = "signals"
    /\ samples' = IF samples < Known THEN samples + 1 ELSE samples
    /\ z' \in ZBands /\ vol' \in VolBands
    /\ corr' \in BOOLEAN /\ deep' \in BOOLEAN /\ poor' \in BOOLEAN
    /\ UNCHANGED <<defensive, opened, learner>>

\* detect_regime_collapse, asked at every signal that came this far.
DetectRegimeCollapse(mode) ==
    IF samples < Known THEN mode
    ELSE IF mode THEN z # "calm" ELSE z = "spike"

\* A variant of the gate that sizes the order before it looks at the regime.
OpenBefore ==
    /\ pc = "signals" /\ defensive' = DetectRegimeCollapse(defensive)
    /\ opened' = [size |-> IF defensive THEN 1 ELSE FullSize, spiked |-> Spiked]
    /\ UNCHANGED <<pc, market, learner>>

\* A signal that every gate lets through opens a position.  get_defensive_multiplier and the
\* scaling after it both take a quarter; of the drawdown there is nothing in the size.
OpenOrder ==
    /\ pc = "signals" /\ defensive' = DetectRegimeCollapse(defensive)
    /\ opened' = [size |-> IF defensive' THEN 1 ELSE FullSize, spiked |-> Spiked]
    /\ UNCHANGED <<pc, market, learner>>

\* One that a later gate (liquidity, uncertainty, edge, conservatism, tail risk, ruin) rejects.
RejectSignal ==
    /\ pc = "signals" /\ defensive' = DetectRegimeCollapse(defensive)
    /\ UNCHANGED <<pc, market, opened, learner>>

SignalsDone == pc = "signals" /\ pc' = "checks" /\ UNCHANGED <<market, defensive, opened, learner>>

-----------------------------------------------------------------------------
\* A risk check that fails ends the iteration.
RiskCheckFails ==
    /\ pc = "checks" /\ pc' = "prices"
    /\ UNCHANGED <<market, defensive, opened, learner>>

\* check_update_stability: a freeze for volatility is not looked further; a thaw asks only
\* for low volatility, so a freeze for poor performance thaws and freezes again by turns.
CheckUpdateStability ==
    LET count == IF ~poor THEN 0 ELSE IF degraded < Patience THEN degraded + 1 ELSE Patience
    IN  IF vol = "high" /\ ~frozen THEN frozen' = TRUE /\ UNCHANGED degraded
        ELSE /\ degraded' = count
             /\ frozen' = IF count = Patience /\ ~frozen THEN TRUE ELSE frozen /\ vol # "low"

\* check_correlation_shock, then check_drawdown_defense, which halts at 15 percent, and the
\* meta-learner if it does not.
RiskCheckPasses ==
    /\ pc = "checks" /\ pc' = "prices"
    /\ defensive' = (defensive \/ corr)
    /\ IF deep THEN UNCHANGED learner ELSE CheckUpdateStability
    /\ UNCHANGED <<market, opened>>

Next ==
    \/ UpdateVolatility \/ OpenOrder \/ RejectSignal \/ SignalsDone
    \/ RiskCheckFails \/ RiskCheckPasses

-----------------------------------------------------------------------------
\* No order of full size in a volatility spike.
SmallInSpike == opened.spiked => opened.size < FullSize

\* Once the volatility stays low and the drawdown under the halt, and risk checks still pass,
\* model updates are let through again and again.
CalmThaws ==
    <>[](vol = "low" /\ ~deep) /\ []<><<RiskCheckPasses>>_defenceVars => []<>~frozen
=============================================================================
