------------------------------ MODULE Signals -------------------------------
(***************************************************************************)
(* The signal layer (paper_trading/layers/layer3_signals): the strategies   *)
(* that SignalAggregator has enabled and how their voices are combined.      *)
(* The engine has one aggregator and gives it the price of each symbol in    *)
(* turn, so the history of every strategy holds the prices of all of them.   *)
(*   A price is a whole number and ratios are compared crosswise.  The        *)
(* smoothing factors of MACD are 2/(n+1); with its windows 1, 3 and 3 they    *)
(* are 1, 1/2 and 1/2, exact in units of 1/Scale.                             *)
(***************************************************************************)
EXTENDS Integers, FiniteSetsExt, SequencesExt

CONSTANTS Symbols,          \* the symbols the aggregator is given prices of
          Prices,           \* the prices a symbol may have
          FastWindow, SlowWindow,   \* MACrossoverStrategy
          Period,                   \* RSIStrategy
          Window,                   \* BollingerBandsStrategy, with num_std 2
          MaxPrices         \* bound: prices given

\* What the constants are assumed to be.
SignalsAssumption ==
    /\ Prices \subseteq Nat \ {0}
    /\ {FastWindow, SlowWindow, Period, Window} \subseteq Nat \ {0} /\ MaxPrices \in Nat

VARIABLES fed,      \* <<symbol, price>> given to generate so far
          action    \* [symbol -> the last action generated for it]

signalVars == <<fed, action>>

Actions == {"none", "buy", "sell"}
Strategies == {"ma_crossover", "rsi", "bollinger_bands", "macd"}

-----------------------------------------------------------------------------
Sum(s) == FoldLeft(LAMBDA a, b : a + b, 0, s)
Squares(s) == FoldLeft(LAMBDA a, b : a + b * b, 0, s)
LastN(s, n) == SubSeq(s, IF Len(s) > n THEN Len(s) - n + 1 ELSE 1, Len(s))

\* fast_ma - slow_ma, times both windows.  A window that is not full yet is still divided by
\* its whole length.
Spread(p) == SlowWindow * Sum(LastN(p, FastWindow)) - FastWindow * Sum(LastN(p, SlowWindow))

MACross(p) ==
    IF Len(p) < SlowWindow \/ Spread(p) = 0 THEN "none"
    ELSE IF Spread(p) > 0 THEN IF Spread(Front(p)) <= 0 THEN "buy" ELSE "bullish"
    ELSE IF Spread(Front(p)) >= 0 THEN "sell" ELSE "bearish"

\* The changes run over the indices -Period .. -1, and the one at -1 is
\* prices[0] - prices[-1]: from the last price to the first one ever.
Changes(p) == [i \in 1..Period |->
    (IF i = Period THEN p[1] ELSE p[Len(p) - Period + 1 + i]) - p[Len(p) - Period + i]]

Rsi(p) ==
    LET gain == Sum([i \in 1..Period |-> IF Changes(p)[i] > 0 THEN Changes(p)[i] ELSE 0])
        loss == gain - Sum(Changes(p))
        Above(t) == loss = 0 \/ 100 * gain > t * (gain + loss)
        Below(t) == loss # 0 /\ 100 * gain < t * (gain + loss)
    IN  IF Len(p) < Period + 1 THEN "none"
        ELSE IF Below(30) THEN "buy"
        ELSE IF Above(70) THEN "sell"
        ELSE IF Below(45) THEN "bullish"
        ELSE IF Above(55) THEN "bearish"
        ELSE "none"

\* How far the last price lies under the mean, and the variance, times Window and its square.
Bollinger(p) ==
    LET recent == LastN(p, Window)
        under == Sum(recent) - Window * Last(p)
        variance == Window * Squares(recent) - Sum(recent) * Sum(recent)
    IN  IF Len(p) < Window THEN "none"
        ELSE IF under * under >= 4 * variance THEN IF under >= 0 THEN "buy" ELSE "sell"
        ELSE IF 25 * under * under > 16 * variance THEN IF under > 0 THEN "bullish" ELSE "bearish"
        ELSE "hold"

\* The averages are first set from the window of three prices; a signal line that is zero is
\* set to the MACD line again.
Scale == 3 * 4096
MacdStart(p) == [fast |-> Scale * p[3], slow |-> (Scale \div 3) * (p[1] + p[2] + p[3]),
                 macd |-> 0, line |-> 0, voice |-> "none"]

MacdStep(m, price) ==
    LET slow == (Scale * price + m.slow) \div 2
        macd == Scale * price - slow
        line == IF m.line = 0 THEN macd ELSE (macd + m.line) \div 2
    IN  [fast |-> Scale * price, slow |-> slow, macd |-> macd, line |-> line,
         voice |-> CASE macd > line -> IF m.macd <= m.line THEN "buy" ELSE "bullish"
                     [] macd < line -> IF m.macd >= m.line THEN "sell" ELSE "bearish"
                     [] OTHER -> "hold"]

Macd(p) ==
    IF Len(p) < 3 THEN "none" ELSE FoldLeft(MacdStep, MacdStart(p), SubSeq(p, 4, Len(p))).voice

-----------------------------------------------------------------------------
Weight == [ma_crossover |-> 25, rsi |-> 25, bollinger_bands |-> 15, macd |-> 10]

Voice(p) == [ma_crossover |-> MACross(p), rsi |-> Rsi(p),
             bollinger_bands |-> Bollinger(p), macd |-> Macd(p)]

\* The weight of those who say it, an outright voice in full and an inclined one by 0.6.
Score(voice, outright, inclined) ==
    MapThenSumSet(LAMBDA s : 10 * Weight[s], {s \in Strategies : voice[s] = outright})
    + MapThenSumSet(LAMBDA s : 6 * Weight[s], {s \in Strategies : voice[s] = inclined})

Total(voice) ==
    MapThenSumSet(LAMBDA s : 10 * Weight[s], {s \in Strategies : voice[s] \notin {"none", "hold"}})

Consensus(voice, threshold) ==
    LET Agreed(score) == Total(voice) > 0 /\ 100 * score >= threshold * Total(voice)
    IN  IF Agreed(Score(voice, "buy", "bullish")) THEN "buy"
        ELSE IF Agreed(Score(voice, "sell", "bearish")) THEN "sell" ELSE "none"

\* A variant whose threshold is min_confidence.
CombineWeak(voice) == Consensus(voice, 60)
CombineSignals(voice) == Consensus(voice, 65)

-----------------------------------------------------------------------------
TypeOK == fed \in Seq(Symbols \X Prices) /\ Len(fed) <= MaxPrices /\ action \in [Symbols -> Actions]

Init == fed = <<>> /\ action = [s \in Symbols |-> "none"]

AllPrices == [i \in DOMAIN fed |-> fed[i][2]]

\* engine._generate_signals for one symbol.
Generate(s, price) ==
    /\ Len(fed) < MaxPrices
    /\ fed' = Append(fed, <<s, price>>)
    /\ action' = [action EXCEPT ![s] = CombineSignals(Voice(AllPrices'))]

Next == \E s \in Symbols, price \in Prices : Generate(s, price)

Spec == Init /\ [][Next]_signalVars

-----------------------------------------------------------------------------
\* No action without an outright voice for it: strategies that only incline to one side never
\* reach the threshold, however many agree.
StrongVoice ==
    LET voice == Voice(AllPrices) IN
    \A a \in {"buy", "sell"} : CombineSignals(voice) = a => \E s \in Strategies : voice[s] = a

\* Between two crossings upwards the fast average came down to the slow one again.
CrossesAlternate ==
    LET At(n) == SubSeq(AllPrices, 1, n)
        Crossed(n) == MACross(At(n)) = "buy"
        now == Len(fed)
    IN  Crossed(now) => \A m \in 1..now - 1 :
            Crossed(m) => \E k \in m + 1..now - 1 : Spread(At(k)) <= 0
=============================================================================
