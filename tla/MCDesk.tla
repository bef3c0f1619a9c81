------------------------------- MODULE MCDesk -------------------------------
(***************************************************************************)
(* From the signal to the ledger: the signal layer, the intelligence layer, *)
(* the risk engine's gates and defences, the CTA strategies of the vnpy     *)
(* engine, the order manager in paper mode and the trade logger; and the    *)
(* market regime that the layers follow.  As in MCControl, a behaviour      *)
(* picks one of them (focus) and the others stand still.                    *)
(***************************************************************************)
EXTENDS OrderManager, Strategies, Regimes

CONSTANTS Update, Learners, Interval, MinSamples, BufferSize, MaxOutcomes, MaxNow,
          Symbols, Prices, FastWindow, SlowWindow, Period, Window, MaxPrices,
          Known, Patience,
          Held, PnLs, MaxCrashes, MaxDay, MaxTrades,
          Traded, Quotes, OrderValue, StopLoss, TakeProfit, CvarLimit, Confidences, Uncertainties, Decay

VARIABLES focus,
          now, buffer, stamped, retrains, training, model, tree, learnPC, outcome, sample,
          looked, outcomes, untold, overlapped,
          fed, action,
          phase, samples, z, vol, corr, deep, poor, defensive, opened, frozen, degraded,
          held, trades, keys, keyLock, call, day, crashes, trouble,
          price, holding, fresh

MCPnLs == {-1, 2}

\* exp(-0.1 * age)
MCDecay == [a \in {0, 5, 10, 50} |->
    CASE a = 0 -> 1000 [] a = 5 -> 606 [] a = 10 -> 367 [] a = 50 -> 6]

Learn == INSTANCE Learning WITH Threads <- Learners, pc <- learnPC
Signal == INSTANCE Signals
Risk == INSTANCE Defence WITH pc <- phase
Logger == INSTANCE TradeLogger WITH
    Threads <- Learners, Symbols <- Held, redis <- keys, lock <- keyLock, op <- call
Gate == INSTANCE Gates WITH Symbols <- Traded, Prices <- Quotes, Value <- OrderValue

ASSUME DeskAssumption ==
    /\ StrategiesAssumption /\ RegimesAssumption
    /\ Learn!LearningAssumption /\ Signal!SignalsAssumption /\ Risk!DefenceAssumption
    /\ Logger!LoggerAssumption /\ Gate!GatesAssumption

-----------------------------------------------------------------------------
learnAll == <<now, buffer, stamped, retrains, training, model, tree, learnPC, outcome, sample,
              looked, outcomes, untold, overlapped>>
signalAll == <<fed, action>>
riskAll == <<phase, samples, z, vol, corr, deep, poor, defensive, opened, frozen, degraded>>
loggerAll == <<held, trades, keys, keyLock, call, day, crashes, trouble>>
gateAll == <<price, holding, fresh>>
deskVars == <<learnAll, focus, signalAll, riskAll, strategyVars, vars, loggerAll, regimeVars, gateAll>>

\* What stands still starts in one way only.
DeskInit ==
    /\ focus \in {"learning", "signals", "risk", "cta", "paper", "logger", "regime", "gates"}
    /\ Learn!Init /\ Signal!Init /\ Risk!Init /\ CtaInit /\ Init /\ Logger!Init
    /\ RegimesInit /\ Gate!Init
    /\ focus # "cta" => class = "rl"

LearningTurn ==
    focus = "learning" /\ UNCHANGED <<focus, signalAll, riskAll, strategyVars, vars, loggerAll, regimeVars, gateAll>>
SignalTurn ==
    focus = "signals" /\ UNCHANGED <<focus, learnAll, riskAll, strategyVars, vars, loggerAll, regimeVars, gateAll>>
RiskTurn ==
    focus = "risk" /\ UNCHANGED <<focus, learnAll, signalAll, strategyVars, vars, loggerAll, regimeVars, gateAll>>
CtaTurn ==
    focus = "cta" /\ UNCHANGED <<focus, learnAll, signalAll, riskAll, vars, loggerAll, regimeVars, gateAll>>
PaperTurn ==
    focus = "paper" /\ UNCHANGED <<focus, learnAll, signalAll, riskAll, strategyVars, loggerAll, regimeVars, gateAll>>
LoggerTurn ==
    focus = "logger" /\ UNCHANGED <<focus, learnAll, signalAll, riskAll, strategyVars, vars, regimeVars, gateAll>>
MarketTurn ==
    focus = "regime" /\ UNCHANGED <<focus, learnAll, signalAll, riskAll, strategyVars, vars, loggerAll, gateAll>>
GateTurn ==
    focus = "gates" /\ UNCHANGED <<focus, learnAll, signalAll, riskAll, strategyVars, vars, loggerAll, regimeVars>>

DeskNext ==
    \/ LearningTurn /\ Learn!Next
    \/ SignalTurn /\ Signal!Next
    \/ RiskTurn /\ Risk!Next
    \/ CtaTurn /\ CtaNext
    \/ PaperTurn /\ Next
    \/ LoggerTurn /\ Logger!Next
    \/ MarketTurn /\ RegimesNext
    \/ GateTurn /\ Gate!Next

DeskSpec == DeskInit /\ [][DeskNext]_deskVars /\ Learn!Fairness

-----------------------------------------------------------------------------
\* Every part is well formed.
DeskTypeOK ==
    /\ TypeOK /\ Learn!TypeOK /\ Signal!TypeOK /\ Risk!TypeOK /\ CtaTypeOK /\ Logger!TypeOK
    /\ RegimesTypeOK

\* The aggregator acts only on an outright voice, and an upward crossing is called once; the
\* gates after it hold nothing back for its age alone, and for the portfolio's losses only
\* between a price and the stops.
SignalsSound ==
    /\ Signal!StrongVoice /\ Signal!CrossesAlternate
    /\ Gate!EdgeGateIdle /\ Gate!TailGrowsWithLosers /\ Gate!StopsFreeTheGate

\* Retrainings keep to their interval, an outcome is lost only when two of them overlap, and
\* the regime model that answers was fitted within its interval.
RetrainingContained == Learn!RetrainsBounded /\ Learn!LostOnlyToOverlap /\ ModelFresh

\* No order of full size in a volatility spike.
SmallInSpike == Risk!SmallInSpike

\* History, totals, daily statistics, metrics and open positions of the logger agree.
LedgersAgree ==
    Logger!NeverAhead /\ Logger!TotalsAgree /\ Logger!OpenMatchesHeld /\ Logger!MetricsAgree

\* The training flag is given back, and updates frozen in a storm are let through in a calm.
LearningGoesOn == Learn!TrainingEnds /\ Risk!CalmThaws
=============================================================================
