----------------------------- MODULE Strategies -----------------------------
(***************************************************************************)
(* The CTA strategies of the vnpy engine (strategies/cta_strategies.py), one   *)
(* instance of one class, between the bars it is given and the fills of its      *)
(* orders.  vnpy's CtaTemplate is external: it sends an order only while the      *)
(* strategy trades, and pos changes when an order is filled, not when it is sent.  *)
(*   A bar is what on_bar compares: the last and this close with the slow average,  *)
(* the fast average with it, the band or the channel the close lies in, and what     *)
(* the RL agent would say.  The bars that only fill the array are not modelled.       *)
(***************************************************************************)
EXTENDS Integers, Sequences, SequencesExt

CONSTANTS Size,      \* fixed_size
          MaxCtaOrders  \* bound: orders sent

\* What the constants are assumed to be.
StrategiesAssumption == Size \in Nat \ {0} /\ MaxCtaOrders \in Nat

VARIABLES class,    \* which class
          trading,  \* CtaTemplate.trading
          pos,      \* its position
          open,     \* its orders that are not filled, signed
          ctaOrders,   \* orders sent so far
          stacked   \* history: an order was sent while another was open

strategyVars == <<class, trading, pos, open, ctaOrders, stacked>>

Classes == {"momentum", "reversion", "breakout", "rl"}
Signs == {-1, 0, 1}

\* What the classes look at in a bar.
NoBar == [last |-> 0, close |-> 0, fast |-> 0, zone |-> "over", agrees |-> TRUE]
Crosses == [last : Signs, close : Signs, fast : Signs, zone : {"over"}, agrees : BOOLEAN]
Zones == {[NoBar EXCEPT !.zone = zone] : zone \in {"low", "under", "over", "high"}}
Bars == IF class \in {"momentum", "rl"} THEN Crosses ELSE Zones

CtaTypeOK ==
    /\ class \in Classes /\ {trading, stacked} \subseteq BOOLEAN
    /\ pos \in Int /\ open \in Seq(Int) /\ ctaOrders \in 0..MaxCtaOrders

CtaInit ==
    /\ class \in Classes /\ trading = FALSE /\ pos = 0 /\ open = <<>> /\ ctaOrders = 0
    /\ stacked = FALSE

-----------------------------------------------------------------------------
\* Open to a side from nothing, close what is held on the other.
Toward(side) == IF pos = 0 THEN side * Size ELSE IF pos * side < 0 THEN -pos ELSE 0

Crossing(b) ==
    IF b.last < 0 /\ b.close > 0 /\ b.fast > 0 THEN 1
    ELSE IF b.last > 0 /\ b.close < 0 /\ b.fast < 0 THEN -1 ELSE 0

\* Without a crossing the strategy follows the averages, so a crossing adds nothing.
Momentum(b) == IF Crossing(b) # 0 THEN Toward(Crossing(b)) ELSE Toward(b.fast)

\* A crossing the agent does not agree with is no reason to wait: it is followed as a trend.
RlEnhanced(b) ==
    IF Crossing(b) # 0 /\ b.agrees THEN Toward(Crossing(b)) ELSE Toward(b.fast)

\* A variant that takes the fixed size off at the upper band.
MeanReversionFixed(b) ==
    IF pos = 0 THEN IF b.zone = "low" THEN Size ELSE 0
    ELSE IF pos < 0 THEN 0
    ELSE CASE b.zone = "high" -> -Size
           [] b.zone = "over" -> -(pos \div 2)
           [] OTHER -> 0

\* Long only: for a position below zero there is no branch.
MeanReversion(b) ==
    IF pos = 0 THEN IF b.zone = "low" THEN Size ELSE 0
    ELSE IF pos < 0 THEN 0
    ELSE CASE b.zone = "high" -> -pos
           [] b.zone = "over" -> -(pos \div 2)
           [] OTHER -> 0

Breakout(b) == Toward(CASE b.zone = "high" -> 1 [] b.zone = "low" -> -1 [] OTHER -> 0)

Ordered(b) ==
    CASE class = "momentum"  -> Momentum(b)
      [] class = "rl"        -> RlEnhanced(b)
      [] class = "reversion" -> MeanReversion(b)
      [] class = "breakout"  -> Breakout(b)

-----------------------------------------------------------------------------
\* on_bar: no strategy looks at the orders it has out.
OnBar(b) ==
    /\ trading /\ ctaOrders < MaxCtaOrders
    /\ IF Ordered(b) = 0 THEN UNCHANGED <<open, ctaOrders, stacked>>
       ELSE /\ open' = Append(open, Ordered(b)) /\ ctaOrders' = ctaOrders + 1
            /\ stacked' = (stacked \/ open # <<>>)
    /\ UNCHANGED <<class, trading, pos>>

\* External: the exchange fills an order.
Fill(i) ==
    /\ pos' = pos + open[i] /\ open' = RemoveAt(open, i)
    /\ UNCHANGED <<class, trading, ctaOrders, stacked>>

StartStrategy ==
    /\ ~trading /\ trading' = TRUE
    /\ UNCHANGED <<class, pos, open, ctaOrders, stacked>>

\* stop_strategy: on_stop cancels what is open.
StopStrategy ==
    /\ trading /\ trading' = FALSE /\ open' = <<>>
    /\ UNCHANGED <<class, pos, ctaOrders, stacked>>

CtaNext ==
    \/ \E b \in Bars : OnBar(b)
    \/ \E i \in DOMAIN open : Fill(i)
    \/ StartStrategy \/ StopStrategy

CtaSpec == CtaInit /\ [][CtaNext]_strategyVars

-----------------------------------------------------------------------------
\* A strategy holds more than its fixed size, or mean reversion a short position it never
\* leaves, only after it sent an order while another was open.
HeldWithinSize ==
    ~stacked => pos \in -Size..Size /\ (class = "reversion" => pos >= 0)
=============================================================================
