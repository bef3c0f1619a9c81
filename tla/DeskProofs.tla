----------------------------- MODULE DeskProofs -----------------------------
(* Theorems about the parts of MCDesk, for every value of their constants. *)
EXTENDS MCDesk, OrderManagerProofs, Recursion, SequenceTheorems

-----------------------------------------------------------------------------
(* The CTA strategies. *)

Within(n) == n \in -Size..Size /\ (class = "reversion" => n >= 0)

\* Until orders were stacked there is one at the most, and what is held with it and without it
\* is within the size.
OneAtATime ==
    /\ class \in Classes /\ pos \in Int /\ open \in Seq(Int) /\ stacked \in BOOLEAN
    /\ ~stacked =>
         /\ open = <<>> \/ (Len(open) = 1 /\ Within(pos + open[1]))
         /\ Within(pos)

LEMMA TowardWithin ==
    ASSUME StrategiesAssumption, pos \in Int, pos \in -Size..Size, NEW side \in Signs
    PROVE  Toward(side) \in Int /\ pos + Toward(side) \in -Size..Size
<1>1. CASE side = 1
    BY <1>1 DEF StrategiesAssumption, Toward
<1>2. CASE side = -1
    BY <1>2 DEF StrategiesAssumption, Toward
<1>3. CASE side = 0
    BY <1>3 DEF StrategiesAssumption, Toward
<1> QED
    BY <1>1, <1>2, <1>3 DEF Signs

\* One order, filled whole, leads from a position within the size to one within the size.
LEMMA OrderedWithin ==
    ASSUME StrategiesAssumption, class \in Classes, pos \in Int, Within(pos), NEW b \in Bars
    PROVE  Ordered(b) \in Int /\ Within(pos + Ordered(b))
<1>1. CASE class \in {"momentum", "rl"}
  <2>1. b.fast \in Signs /\ Crossing(b) \in Signs
      BY <1>1 DEF Bars, Crosses, Crossing, Signs
  <2>2. PICK side \in Signs : Ordered(b) = Toward(side)
      BY <1>1, <2>1 DEF Ordered, Momentum, RlEnhanced, Signs
  <2> QED
      BY <1>1, <2>2, TowardWithin DEF Within
<1>2. CASE class = "breakout"
  <2>1. PICK side \in Signs : Ordered(b) = Toward(side)
      BY <1>2 DEF Ordered, Breakout, Signs
  <2> QED
      BY <1>2, <2>1, TowardWithin DEF Within
<1>3. CASE class = "reversion"
  <2>1. Ordered(b) = MeanReversion(b) /\ pos \in 0..Size
      BY <1>3 DEF Ordered, Within
  <2>2. pos \div 2 \in Int /\ 0 <= pos \div 2 /\ pos \div 2 <= pos
      BY <2>1
  <2>3. MeanReversion(b) \in Int /\ pos + MeanReversion(b) \in 0..Size
      BY <2>1, <2>2 DEF StrategiesAssumption, MeanReversion
  <2> QED
      BY <1>3, <2>1, <2>3 DEF StrategiesAssumption, Within
<1> QED
    BY <1>1, <1>2, <1>3 DEF Classes

LEMMA BarKeepsOne == ASSUME StrategiesAssumption, OneAtATime, NEW b \in Bars, OnBar(b) PROVE OneAtATime'
<1>1. CASE Ordered(b) = 0
    BY <1>1 DEF OnBar, OneAtATime, Within
<1>2. CASE Ordered(b) # 0 /\ stacked'
  <2>1. open' = Append(open, Ordered(b)) /\ stacked' = (stacked \/ open # <<>>) /\ UNCHANGED <<class, pos>>
      BY <1>2 DEF OnBar
  <2>2. Ordered(b) \in Int
    <3>1. CASE class \in {"momentum", "rl"}
      <4>1. b.fast \in Signs /\ Crossing(b) \in Signs
          BY <3>1 DEF Bars, Crosses, Crossing, Signs
      <4> QED
          BY <3>1, <4>1 DEF StrategiesAssumption, Ordered, Momentum, RlEnhanced, Signs, Toward, OneAtATime
    <3>2. CASE class = "breakout"
          BY <3>2 DEF StrategiesAssumption, Ordered, Breakout, Toward, OneAtATime
    <3>3. CASE class = "reversion"
      <4>1. pos \in Int /\ pos \div 2 \in Int
          BY DEF OneAtATime
      <4> QED
          BY <3>3, <4>1 DEF StrategiesAssumption, Ordered, MeanReversion
    <3> QED
          BY <3>1, <3>2, <3>3 DEF Classes, OneAtATime
  <2> QED
      BY <1>2, <2>1, <2>2 DEF OneAtATime
<1>3. CASE Ordered(b) # 0 /\ ~stacked'
  <2>1. /\ open' = Append(open, Ordered(b)) /\ stacked' = (stacked \/ open # <<>>)
        /\ UNCHANGED <<class, pos>>
      BY <1>3 DEF OnBar
  <2>2. ~stacked /\ open = <<>>
      BY <1>3, <2>1 DEF OneAtATime
  <2>3. Ordered(b) \in Int /\ Within(pos + Ordered(b))
      BY <2>2, OrderedWithin DEF OneAtATime
  <2>4. open' = <<Ordered(b)>>
      BY <2>1, <2>2
  <2> QED
      BY <2>1, <2>2, <2>3, <2>4 DEF OneAtATime, Within
<1> QED
    BY <1>1, <1>2, <1>3 DEF OnBar

LEMMA FillKeepsOne == ASSUME StrategiesAssumption, OneAtATime, NEW i \in DOMAIN open, Fill(i) PROVE OneAtATime'
<1>1. pos' = pos + open[i] /\ open' = RemoveAt(open, i) /\ UNCHANGED <<class, stacked>>
    BY DEF Fill
<1>2. open \in Seq(Int) /\ i \in 1..Len(open)
    BY DEF OneAtATime
<1>3. pos' \in Int /\ open' \in Seq(Int)
  <2>1. SubSeq(open, 1, i - 1) \in Seq(Int) /\ SubSeq(open, i + 1, Len(open)) \in Seq(Int)
      BY <1>2
  <2>2. pos \in Int /\ open[i] \in Int
      BY <1>2 DEF OneAtATime
  <2> QED
      BY <1>1, <2>1, <2>2 DEF RemoveAt
<1>4. ASSUME ~stacked PROVE open' = <<>> /\ Within(pos')
  <2>1. i = 1 /\ Len(open) = 1 /\ Within(pos + open[1])
      BY <1>2, <1>4 DEF OneAtATime
  <2> QED
      BY <1>1, <1>2, <2>1 DEF RemoveAt
<1> QED
    BY <1>1, <1>3, <1>4 DEF OneAtATime, Within

\* A strategy leaves its fixed size, or mean reversion goes short, only by orders sent while
\* another was open (on_bar of the four classes).
THEOREM StackingAlone == ASSUME StrategiesAssumption PROVE CtaSpec => []HeldWithinSize
<1>1. CtaInit => OneAtATime
  <2>1. <<>> \in Seq(Int) /\ Within(0)
      BY DEF StrategiesAssumption, Within
  <2> SUFFICES ASSUME CtaInit PROVE OneAtATime
      OBVIOUS
  <2>2. class \in Classes /\ pos = 0 /\ open = <<>> /\ stacked = FALSE
      BY DEF CtaInit
  <2>3. open \in Seq(Int) /\ Within(pos)
      BY <2>1, <2>2
  <2>4. pos \in Int
      BY <2>2
  <2> QED
      BY <2>2, <2>3, <2>4, Zenon DEF OneAtATime
<1>2. OneAtATime /\ [CtaNext]_strategyVars => OneAtATime'
  <2> SUFFICES ASSUME OneAtATime, [CtaNext]_strategyVars PROVE OneAtATime'
      OBVIOUS
  <2>1. CASE StartStrategy \/ UNCHANGED strategyVars
      BY <2>1 DEF StartStrategy, strategyVars, OneAtATime, Within
  <2>2. CASE StopStrategy
    <3>1. open' = <<>> /\ <<>> \in Seq(Int) /\ UNCHANGED <<class, pos, stacked>>
        BY <2>2 DEF StopStrategy
    <3> QED
        BY <3>1 DEF OneAtATime, Within
  <2> QED
      BY <2>1, <2>2, BarKeepsOne, FillKeepsOne DEF CtaNext
<1>3. OneAtATime => HeldWithinSize
    BY DEF OneAtATime, Within, HeldWithinSize
<1> QED
    BY <1>1, <1>2, <1>3, PTL DEF CtaSpec

-----------------------------------------------------------------------------
(* Regimes. *)

Pairs == (Names \cup {"unknown"}) \X (Names \cup {"unknown"})

\* A walk through the regimes, each change once or again.
Walk(h) ==
    /\ h \in Seq(Pairs)
    /\ \A i \in 1..Len(h) : h[i][1] # h[i][2]
    /\ \A i \in 1..Len(h) - 1 : h[i + 1] = h[i] \/ h[i + 1][1] = h[i][2]

\* The change from one regime to another may come next.
MayFollow(h, from, to) == h = <<>> \/ h[Len(h)][2] = from \/ h[Len(h)] = <<from, to>>

\* The learner is where its last recorded change ended, and the late events are empty.
InStep ==
    /\ seen \in Names /\ regime \in Names /\ known \in Names \cup {"unknown"}
    /\ wire \in Seq({Nothing}) /\ Walk(transitions)
    /\ transitions = <<>> \/ transitions[Len(transitions)][2] = known
    /\ InRegime

\* Recording a change that may come next, cut or not, gives a walk that ends in it.
LEMMA RecordedWalks ==
    ASSUME RegimesAssumption, NEW h, Walk(h), NEW from \in Names \cup {"unknown"}, NEW to \in Names,
           from # to, MayFollow(h, from, to)
    PROVE  /\ Walk(Recorded(h, from, to))
           /\ Recorded(h, from, to) # <<>>
           /\ Recorded(h, from, to)[Len(Recorded(h, from, to))] = <<from, to>>
<1> DEFINE p == <<from, to>>
           a == Append(h, p)
           k == Len(a) - Cap \div 2
<1>1. p \in Pairs /\ p[1] = from /\ p[2] = to /\ h \in Seq(Pairs)
    BY DEF Pairs, Walk
<1>0. Recorded(h, from, to) = Cut(a)
    BY DEF Recorded
<1> HIDE DEF p
<1>2. /\ a \in Seq(Pairs) /\ Len(a) = Len(h) + 1 /\ a[Len(a)] = p
      /\ \A i \in 1..Len(h) : a[i] = h[i]
    BY <1>1
<1> HIDE DEF a
<1>3. \A i \in 1..Len(a) : a[i][1] # a[i][2]
    BY <1>1, <1>2 DEF Walk
<1>4. ASSUME NEW i \in 1..Len(a) - 1 PROVE a[i + 1] = a[i] \/ a[i + 1][1] = a[i][2]
  <2>1. CASE i = Len(h)
    <3>1. a[i + 1] = p /\ a[i] = h[Len(h)] /\ h # <<>>
        BY <1>1, <1>2, <2>1
    <3> QED
        BY <1>1, <3>1 DEF MayFollow, p
  <2>2. CASE i # Len(h)
    <3>1. i \in 1..Len(h) - 1 /\ a[i] = h[i] /\ a[i + 1] = h[i + 1]
        BY <1>1, <1>2, <2>2
    <3> QED
        BY <3>1 DEF Walk
  <2> QED
      BY <2>1, <2>2
<1>c. Cap \in Nat /\ Cap > 1 /\ Cap \div 2 \in Nat /\ Cap \div 2 > 0 /\ Cap \div 2 <= Cap
  <2>1. PICK n \in 1..100 : Cap = 2 * n
      BY DEF RegimesAssumption
  <2> QED
      BY <2>1
<1>5. CASE Len(a) <= Cap
  <2>1. Recorded(h, from, to) = a
      BY <1>0, <1>2, <1>5, <1>c DEF Cut
  <2>2. Walk(a) /\ a # <<>> /\ a[Len(a)] = <<from, to>>
      BY <1>2, <1>3, <1>4 DEF Walk, p
  <2> QED
      BY <2>1, <2>2
<1>6. CASE Len(a) > Cap
  <2> DEFINE s == SubSeq(a, k + 1, Len(a))
  <2>1. Recorded(h, from, to) = s
      BY <1>0, <1>2, <1>6, <1>c DEF Cut
  <2>3. k \in Nat /\ k < Len(a) /\ Len(a) \in Nat
      BY <1>2, <1>6, <1>c
  <2> HIDE DEF k
  <2>4. /\ s \in Seq(Pairs) /\ Len(s) = Len(a) - k
        /\ \A i \in 1..Len(s) : s[i] = a[k + i]
      BY <1>2, <2>3
  <2> HIDE DEF s
  <2>5. ASSUME NEW i \in 1..Len(s) PROVE s[i][1] # s[i][2]
      BY <1>3, <2>3, <2>4
  <2>6. ASSUME NEW i \in 1..Len(s) - 1 PROVE s[i + 1] = s[i] \/ s[i + 1][1] = s[i][2]
    <3>0. i \in 1..Len(s) /\ i + 1 \in 1..Len(s) /\ k + (i + 1) = (k + i) + 1
        BY <2>3, <2>4
    <3>1. k + i \in 1..Len(a) - 1 /\ s[i] = a[k + i] /\ s[i + 1] = a[(k + i) + 1]
        BY <2>3, <2>4, <3>0
    <3> QED
        BY <1>4, <3>1
  <2>7. s # <<>> /\ s[Len(s)] = p
      BY <1>2, <2>3, <2>4
  <2> QED
      BY <2>1, <2>4, <2>5, <2>6, <2>7 DEF Walk, p
<1> QED
    BY <1>2, <1>5, <1>6, <1>c

LEMMA LearningKeepsStep ==
    ASSUME RegimesAssumption, InStep, NEW r \in Names, OnRegimeChange(r)
    PROVE  /\ known' = r /\ Walk(transitions')
           /\ transitions' = <<>> \/ transitions'[Len(transitions')][2] = r
<1>0. r # Nothing
    BY DEF RegimesAssumption, Nothing
<1>1. CASE r = known
    BY <1>1, <1>0 DEF OnRegimeChange, told, InStep
<1>2. CASE r # known
  <2> DEFINE once == Recorded(transitions, known, r)
  <2>1. known' = r /\ transitions' = Recorded(once, known, r)
      BY <1>0, <1>2 DEF OnRegimeChange
  <2>2. MayFollow(transitions, known, r) /\ Walk(transitions) /\ known \in Names \cup {"unknown"}
      BY DEF MayFollow, InStep
  <2>3. Walk(once) /\ once[Len(once)] = <<known, r>>
      BY <1>2, <2>2, RecordedWalks
  <2> HIDE DEF once
  <2>4. MayFollow(once, known, r)
      BY <2>3 DEF MayFollow
  <2>5. Walk(transitions') /\ transitions'[Len(transitions')] = <<known, r>>
      BY <1>2, <2>1, <2>2, <2>3, <2>4, RecordedWalks
  <2> QED
      BY <2>1, <2>5
<1> QED
    BY <1>1, <1>2

LEMMA NextKeepsStep == ASSUME RegimesAssumption, InStep, [RegimesNext]_regimeVars PROVE InStep'
<1> USE DEF InStep, InRegime
<1>1. ASSUME NEW from, NEW hmm, NEW to, Feed(from, hmm, to),
             from # "publish", hmm # "publish", to # "publish"
      PROVE  InStep'
    BY <1>1 DEF Feed, told
<1>2. ASSUME NEW from, NEW to, HmmUpdate(from, to), from # "publish", to # "publish" PROVE InStep'
    BY <1>2 DEF HmmUpdate, told, RegimesAssumption
<1>3. CASE DetectRegime
    BY <1>3 DEF DetectRegime, told
<1>4. CASE PublishRegime
  <2>1. known' = seen /\ regime' = seen /\ seen' = seen /\ turn' = "validate"
      BY <1>4, LearningKeepsStep DEF PublishRegime
  <2>2. /\ Walk(transitions')
        /\ transitions' = <<>> \/ transitions'[Len(transitions')][2] = known'
      BY <1>4, LearningKeepsStep, <2>1 DEF PublishRegime
  <2>3. wire' \in Seq({Nothing})
      BY <1>4 DEF PublishRegime, Rebuilt
  <2> QED
      BY <2>1, <2>2, <2>3
<1>5. CASE ListenerDelivers
  <2>1. Head(wire) = Nothing /\ Tail(wire) \in Seq({Nothing}) /\ wire # <<>>
      BY <1>5 DEF ListenerDelivers
  <2>2. UNCHANGED told /\ regime' = regime /\ wire' = Tail(wire) /\ UNCHANGED <<turn, seen>>
      BY <1>5, <2>1 DEF ListenerDelivers, OnRegimeChange
  <2> QED
      BY <2>1, <2>2 DEF told
<1>6. CASE NoPrimaryPrice \/ Validated \/ HealingRestart \/ HealingRetrain \/ HealingRetrained
    BY <1>6 DEF NoPrimaryPrice, Validated, HealingRestart, HealingRetrain, HealingRetrained, told
<1>7. CASE UNCHANGED regimeVars
    BY <1>7 DEF regimeVars, told
<1> QED
    BY <1>1, <1>2, <1>3, <1>4, <1>5, <1>6, <1>7 DEF RegimesNext

\* After a published change engine and meta-learner agree, and the recorded transitions are a
\* walk through the regimes (_detect_regime, transition_to_regime, _on_regime_change and the
\* listener thread's late copies).
THEOREM LearnerInStep ==
    ASSUME RegimesAssumption PROVE RegimesSpec => []LearnerFollows
<1>1. RegimesInit => InStep
    BY DEF RegimesInit, InStep, InRegime, Walk, RegimesAssumption
<1>2. InStep => LearnerFollows
    BY DEF InStep, Walk, TransitionsChain, LearnerFollows
<1> QED
    BY <1>1, <1>2, NextKeepsStep, PTL DEF RegimesSpec

-----------------------------------------------------------------------------
(* The defence of one iteration. *)

LEMMA DefenceStands == [DeskNext]_deskVars => Risk!Next \/ UNCHANGED riskAll
BY DEF DeskNext, deskVars, LearningTurn, SignalTurn, RiskTurn, CtaTurn, PaperTurn, LoggerTurn,
       MarketTurn, GateTurn

\* risk_engine.py: the mode is decided before the order is sized, so that none of full size
\* is sent in a volatility spike.
THEOREM SpikesShrinkOrders == DeskSpec => []SmallInSpike
<1> DEFINE Sized == opened \in [size : {0, 1, 16}, spiked : BOOLEAN] /\ SmallInSpike
<1>1. DeskInit => Sized
  BY DEF DeskInit, Risk!Init, SmallInSpike, Risk!SmallInSpike
<1>2. Sized /\ [DeskNext]_deskVars => Sized'
  <2>1. ASSUME Sized, Risk!OpenOrder PROVE Sized'
    <3>1. opened' = [size |-> IF defensive' THEN 1 ELSE 16, spiked |-> Risk!Spiked]
      BY <2>1 DEF Risk!OpenOrder, Risk!FullSize
    <3>2. Risk!Spiked => defensive'
      <4> SUFFICES ASSUME samples = Known, z = "spike" PROVE defensive'
        BY DEF Risk!Spiked
      <4>1. Known \in Nat
        BY DeskAssumption DEF Risk!DefenceAssumption
      <4>2. ~(samples < Known)
        BY <4>1
      <4>3. Risk!DetectRegimeCollapse(defensive) = TRUE
        BY <4>2 DEF Risk!DetectRegimeCollapse
      <4>4. QED
        BY <2>1, <4>3 DEF Risk!OpenOrder
    <3>3. Risk!Spiked \in BOOLEAN
      BY DEF Risk!Spiked
    <3>4. QED
      BY <3>1, <3>2, <3>3 DEF SmallInSpike, Risk!SmallInSpike, Risk!FullSize
  <2>2. ASSUME Sized, opened' = opened PROVE Sized'
    BY <2>2 DEF SmallInSpike, Risk!SmallInSpike
  <2>3. Risk!Next => Risk!OpenOrder \/ opened' = opened
    BY DEF Risk!Next, Risk!UpdateVolatility, Risk!RejectSignal, Risk!SignalsDone,
           Risk!RiskCheckFails, Risk!RiskCheckPasses
  <2>4. QED
    BY <2>1, <2>2, <2>3, DefenceStands DEF riskAll
<1>3. QED
  BY <1>1, <1>2, PTL DEF DeskSpec

-----------------------------------------------------------------------------
(* Retraining. *)

\* A thread on its way to a fit found the interval over.
Entitled(t) == learnPC[t] \in {"check", "enter", "assign", "fit"} => (retrains[t] + 1) * Interval <= now

RetrainInv ==
    /\ now \in Nat /\ stamped \in Nat /\ stamped <= now
    /\ retrains \in [Learners -> Nat] /\ learnPC \in [Learners -> Learn!Steps]
    /\ \A t \in Learners : retrains[t] * Interval <= stamped /\ Entitled(t)

LEMMA LearnerNumbers ==
    /\ Interval \in Nat \ {0} /\ BufferSize \in Nat \ {0}
    /\ \A n \in Nat : n * Interval \in Nat /\ (n + 1) * Interval = n * Interval + Interval
BY DeskAssumption DEF Learn!LearningAssumption

LEMMA RetrainStep == RetrainInv /\ Learn!Next => RetrainInv'
<1> SUFFICES ASSUME RetrainInv, Learn!Next PROVE RetrainInv'
  OBVIOUS
<1> USE DEF Learn!Steps
<1>0. ASSUME NEW t \in Learners PROVE retrains[t] \in Nat /\ retrains[t] * Interval \in Nat /\ (retrains[t] + 1) * Interval \in Nat
  BY <1>0, LearnerNumbers DEF RetrainInv
<1>1. ASSUME NEW t \in Learners, NEW from, NEW to \in Learn!Steps, Learn!At(t, from, to),
             UNCHANGED <<now, stamped, retrains>>,
             to \in {"check", "enter", "assign", "fit"} => (retrains[t] + 1) * Interval <= now
      PROVE  RetrainInv'
  <2>1. learnPC' = [learnPC EXCEPT ![t] = to]
    BY <1>1 DEF Learn!At
  <2>2. \A u \in Learners : Entitled(u)'
    BY <1>1, <2>1 DEF RetrainInv, Entitled
  <2>3. QED
    BY <1>1, <2>1, <2>2 DEF RetrainInv
<1>2. ASSUME UNCHANGED <<now, stamped, retrains, learnPC>> PROVE RetrainInv'
  BY <1>2 DEF RetrainInv, Entitled
<1>3. ASSUME NEW choice, Learn!Validate(choice) PROVE RetrainInv'
  <2>1. UNCHANGED <<now, stamped, retrains>> /\ (Learn!At(Update, "idle", "due") \/ learnPC' = learnPC)
    BY <1>3 DEF Learn!Validate
  <2>2. Update \in Learners
    BY DeskAssumption DEF Learn!LearningAssumption
  <2>3. QED
    BY <1>1, <1>2, <2>1, <2>2
<1>4. ASSUME NEW t \in Learners, NEW label, Learn!RecordTradeOutcome(t, label) PROVE RetrainInv'
  BY <1>1, <1>4 DEF Learn!RecordTradeOutcome, Learn!clock
<1>5. ASSUME NEW t \in Learners, Learn!Due(t) PROVE RetrainInv'
  <2>1. /\ UNCHANGED <<now, stamped, retrains>>
        /\ Learn!At(t, "due", IF Learn!ShouldRetrain THEN "check" ELSE "idle")
    BY <1>5 DEF Learn!Due, Learn!clock
  <2>2. CASE Learn!ShouldRetrain
    <3>1. now - stamped >= Interval
      BY <2>2 DEF Learn!ShouldRetrain
    <3>2. (retrains[t] + 1) * Interval <= now
      BY <1>0, <3>1, LearnerNumbers DEF RetrainInv
    <3>3. Learn!At(t, "due", "check")
      BY <2>1, <2>2
    <3>4. QED
      BY <1>1, <2>1, <3>2, <3>3
  <2>3. CASE ~Learn!ShouldRetrain
    <3>1. Learn!At(t, "due", "idle")
      BY <2>1, <2>3
    <3>2. QED
      BY <1>1, <2>1, <3>1
  <2>4. QED
    BY <2>2, <2>3
<1>6. ASSUME NEW t \in Learners, NEW from \in {"check", "enter", "assign"}, NEW to \in Learn!Steps,
             Learn!At(t, from, to), UNCHANGED <<now, stamped, retrains>>
      PROVE  RetrainInv'
  <2>1. (retrains[t] + 1) * Interval <= now
    BY <1>6 DEF Learn!At, RetrainInv, Entitled
  <2>2. QED
    BY <1>1, <1>6, <2>1
<1>7. ASSUME NEW t \in Learners, Learn!Check(t) PROVE RetrainInv'
  <2>1. UNCHANGED <<now, stamped, retrains>> /\ (Learn!At(t, "check", "idle") \/ Learn!At(t, "check", "enter"))
    BY <1>7 DEF Learn!Check, Learn!clock
  <2>2. QED
    BY <1>6, <2>1
<1>8. ASSUME NEW t \in Learners, Learn!Enter(t) PROVE RetrainInv'
  BY <1>6, <1>8 DEF Learn!Enter, Learn!clock
<1>9. ASSUME NEW t \in Learners, Learn!Assign(t) PROVE RetrainInv'
  BY <1>6, <1>9 DEF Learn!Assign, Learn!clock
<1>10. ASSUME NEW t \in Learners, Learn!Fit(t) PROVE RetrainInv'
  <2>1. /\ learnPC[t] = "fit" /\ learnPC' = [learnPC EXCEPT ![t] = "leave"]
        /\ stamped' = now /\ now' = now /\ retrains' = [retrains EXCEPT ![t] = @ + 1]
    BY <1>10 DEF Learn!Fit, Learn!At, Learn!clock
  <2>2. (retrains[t] + 1) * Interval <= now
    BY <2>1 DEF RetrainInv, Entitled
  <2>3. /\ retrains' \in [Learners -> Nat] /\ learnPC' \in [Learners -> Learn!Steps]
        /\ retrains'[t] = retrains[t] + 1 /\ learnPC'[t] = "leave"
        /\ \A u \in Learners : u # t => retrains'[u] = retrains[u] /\ learnPC'[u] = learnPC[u]
    BY <2>1 DEF RetrainInv
  <2>4. ASSUME NEW u \in Learners PROVE (retrains'[u] * Interval <= now) /\ Entitled(u)'
    <3>1. CASE u = t
      BY <2>2, <2>3, <3>1 DEF Entitled
    <3>2. CASE u # t
      <4>1. retrains[u] * Interval <= stamped /\ Entitled(u) /\ stamped \in Nat /\ now \in Nat /\ stamped <= now
        BY DEF RetrainInv
      <4>2. QED
        BY <1>0, <2>1, <2>3, <3>2, <4>1 DEF Entitled
    <3>3. QED
      BY <3>1, <3>2
  <2>5. QED
    BY <2>1, <2>3, <2>4 DEF RetrainInv
<1>11. ASSUME NEW t \in Learners, Learn!Leave(t) \/ Learn!RetrainDecisionTree(t) \/ Learn!Score(t) PROVE RetrainInv'
  <2>1. UNCHANGED <<now, stamped, retrains>>
    BY <1>11 DEF Learn!Leave, Learn!RetrainDecisionTree, Learn!Score, Learn!clock
  <2>2. PICK from \in Learn!Steps, to \in {"grow", "idle", "score"} : Learn!At(t, from, to)
    BY <1>11 DEF Learn!Leave, Learn!RetrainDecisionTree, Learn!Score
  <2>3. QED
    BY <1>1, <2>1, <2>2
<1>12. CASE Learn!Tick
  <2>1. now' = now + 1 /\ UNCHANGED <<stamped, retrains, learnPC>>
    BY <1>12 DEF Learn!Tick
  <2>2. ASSUME NEW t \in Learners PROVE Entitled(t)'
    <3>1. Entitled(t) /\ now \in Nat
      BY DEF RetrainInv
    <3>2. QED
      BY <1>0, <2>1, <3>1 DEF Entitled
  <2>3. QED
    BY <2>1, <2>2 DEF RetrainInv
<1>13. QED
  BY <1>3, <1>4, <1>5, <1>7, <1>8, <1>9, <1>10, <1>11, <1>12 DEF Learn!Next, Learn!Retrain

\* While no two threads refitted the model together, one that fits it is the only one past the
\* classifier's replacement, and the model is unfitted only in its hands.
Early == {"idle", "due", "check", "enter", "assign"}
Fitting(t) == learnPC[t] = "fit"
FitsAlone == \A t, u \in Learners : Fitting(t) /\ u # t => learnPC[u] \in Early
InHands == model = {"unfitted"} => \E t \in Learners : Fitting(t)

OverlapInv ==
    /\ learnPC \in [Learners -> Learn!Steps] /\ sample \in [Learners -> SUBSET {"buy", "sell"}]
    /\ buffer \in Seq({"buy", "sell"}) /\ untold \in Nat
    /\ overlapped \/ (untold = 0 /\ FitsAlone /\ InHands)

LEMMA ExperienceAdded ==
    ASSUME buffer \in Seq({"buy", "sell"}), NEW label \in {"buy", "sell"}, Learn!AddExperience(label)
    PROVE  buffer' \in Seq({"buy", "sell"})
<1>1. BufferSize \in Nat \ {0}
  BY LearnerNumbers
<1>2. CASE Len(buffer) < BufferSize
  BY <1>2 DEF Learn!AddExperience
<1>3. CASE ~(Len(buffer) < BufferSize)
  <2>1. buffer # <<>> /\ buffer' = Append(Tail(buffer), label)
    BY <1>1, <1>3 DEF Learn!AddExperience
  <2>2. Tail(buffer) \in Seq({"buy", "sell"})
    BY <2>1
  <2>3. QED
    BY <2>1, <2>2
<1>4. QED
  BY <1>2, <1>3

LEMMA LabelsOfBuffer ==
    ASSUME buffer \in Seq({"buy", "sell"})
    PROVE  Learn!ToSet(buffer) \in SUBSET {"buy", "sell"}
BY DEF Learn!ToSet

\* A thread moves on without touching the model: before the classifier's replacement, or after it.
LEMMA MoveKeepsHands ==
    ASSUME OverlapInv, NEW t \in Learners, NEW from, NEW to \in Learn!Steps, Learn!At(t, from, to),
           from # "fit", to # "fit", to \in Early \/ from \notin Early,
           UNCHANGED <<model, overlapped>>, untold' = untold,
           sample' \in [Learners -> SUBSET {"buy", "sell"}], buffer' \in Seq({"buy", "sell"})
    PROVE  OverlapInv'
<1>1. /\ learnPC[t] = from /\ learnPC' \in [Learners -> Learn!Steps] /\ learnPC'[t] = to
      /\ \A u \in Learners : u # t => learnPC'[u] = learnPC[u]
  BY DEF Learn!At, OverlapInv
<1>2. FitsAlone => FitsAlone'
  BY <1>1 DEF FitsAlone, Fitting
<1>3. InHands => InHands'
  BY <1>1 DEF InHands, Fitting
<1>4. QED
  BY <1>1, <1>2, <1>3 DEF OverlapInv

LEMMA OverlapStep == OverlapInv /\ Learn!Next => OverlapInv'
<1> SUFFICES ASSUME OverlapInv, Learn!Next PROVE OverlapInv'
  OBVIOUS
<1> USE DEF Learn!Steps, Early, Learn!counts
<1>0. /\ buffer \in Seq({"buy", "sell"}) /\ sample \in [Learners -> SUBSET {"buy", "sell"}]
      /\ Update \in Learners
  BY DeskAssumption DEF OverlapInv, Learn!LearningAssumption
<1>1. ASSUME UNCHANGED <<learnPC, sample, buffer, untold, overlapped, model>> PROVE OverlapInv'
  BY <1>1 DEF OverlapInv, FitsAlone, InHands, Fitting
<1>2. ASSUME NEW choice \in {"buy", "sell", "none"}, Learn!Validate(choice) PROVE OverlapInv'
  <2>1. CASE choice = "none"
    BY <1>1, <1>2, <2>1 DEF Learn!Validate
  <2>2. CASE choice # "none"
    <3>1. /\ Learn!At(Update, "idle", "due") /\ Learn!AddExperience(choice)
          /\ UNCHANGED <<model, overlapped, sample>> /\ untold' = untold
      BY <1>2, <2>2 DEF Learn!Validate
    <3>2. buffer' \in Seq({"buy", "sell"})
      BY <1>0, <1>2, <2>2, <3>1, ExperienceAdded
    <3>3. QED
      BY <1>0, <3>1, <3>2, MoveKeepsHands
  <2>3. QED
    BY <2>1, <2>2
<1>3. ASSUME NEW t \in Learners, NEW label \in {"buy", "sell"}, Learn!RecordTradeOutcome(t, label) PROVE OverlapInv'
  <2>1. /\ Learn!At(t, "idle", "due") /\ Learn!AddExperience(label)
        /\ UNCHANGED <<model, overlapped, sample>> /\ untold' = untold
    BY <1>3 DEF Learn!RecordTradeOutcome
  <2>2. buffer' \in Seq({"buy", "sell"})
    BY <1>0, <1>3, <2>1, ExperienceAdded
  <2>3. QED
    BY <1>0, <2>1, <2>2, MoveKeepsHands
<1>4. ASSUME NEW t \in Learners, Learn!Due(t) \/ Learn!Check(t) PROVE OverlapInv'
  <2>1. UNCHANGED <<model, overlapped, sample, buffer>> /\ untold' = untold
    BY <1>4 DEF Learn!Due, Learn!Check
  <2>2. \/ Learn!At(t, "due", "check") \/ Learn!At(t, "due", "idle")
        \/ Learn!At(t, "check", "idle") \/ Learn!At(t, "check", "enter")
    BY <1>4 DEF Learn!Due, Learn!Check
  <2>3. QED
    BY <1>0, <2>1, <2>2, MoveKeepsHands
<1>5. ASSUME NEW t \in Learners, Learn!Enter(t) PROVE OverlapInv'
  <2>1. /\ Learn!At(t, "enter", "assign") /\ sample' = [sample EXCEPT ![t] = Learn!ToSet(buffer)]
        /\ UNCHANGED <<model, overlapped, buffer>> /\ untold' = untold
    BY <1>5 DEF Learn!Enter
  <2>2. sample' \in [Learners -> SUBSET {"buy", "sell"}]
    BY <1>0, <2>1, LabelsOfBuffer
  <2>3. QED
    BY <1>0, <2>1, <2>2, MoveKeepsHands
<1>6. ASSUME NEW t \in Learners, Learn!Assign(t) PROVE OverlapInv'
  <2>1. /\ learnPC[t] = "assign" /\ learnPC' = [learnPC EXCEPT ![t] = "fit"]
        /\ overlapped' = (overlapped \/ \E u \in Learners \ {t} : learnPC[u] # "idle")
        /\ UNCHANGED <<sample, buffer, untold>>
    BY <1>6 DEF Learn!Assign, Learn!At
  <2>2. learnPC' \in [Learners -> Learn!Steps] /\ learnPC'[t] = "fit"
        /\ \A u \in Learners : u # t => learnPC'[u] = learnPC[u]
    BY <2>1 DEF OverlapInv
  <2>3. CASE overlapped'
    BY <2>1, <2>2, <2>3 DEF OverlapInv
  <2>4. CASE ~overlapped'
    <3>1. ~overlapped /\ \A u \in Learners : u # t => learnPC[u] = "idle"
      BY <2>1, <2>4
    <3>2. FitsAlone' /\ InHands'
      BY <2>2, <3>1 DEF FitsAlone, InHands, Fitting
    <3>3. QED
      BY <2>1, <2>2, <3>1, <3>2 DEF OverlapInv
  <2>5. QED
    BY <2>3, <2>4
<1>7. ASSUME NEW t \in Learners, Learn!Fit(t) PROVE OverlapInv'
  <2>1. /\ learnPC[t] = "fit" /\ learnPC' = [learnPC EXCEPT ![t] = "leave"]
        /\ model' = sample[t] /\ UNCHANGED <<sample, buffer, untold, overlapped>>
    BY <1>7 DEF Learn!Fit, Learn!At
  <2>2. learnPC' \in [Learners -> Learn!Steps] /\ learnPC'[t] = "leave"
        /\ \A u \in Learners : u # t => learnPC'[u] = learnPC[u]
    BY <2>1 DEF OverlapInv
  <2>3. model' # {"unfitted"}
    BY <1>0, <2>1
  <2>4. FitsAlone => FitsAlone'
    BY <2>1, <2>2 DEF FitsAlone, Fitting
  <2>5. InHands'
    BY <2>3 DEF InHands
  <2>6. QED
    BY <2>1, <2>2, <2>4, <2>5 DEF OverlapInv
<1>8. ASSUME NEW t \in Learners, Learn!Leave(t) \/ Learn!RetrainDecisionTree(t) PROVE OverlapInv'
  <2>1. UNCHANGED <<model, overlapped, sample, buffer>> /\ untold' = untold
    BY <1>8 DEF Learn!Leave, Learn!RetrainDecisionTree
  <2>2. Learn!At(t, "leave", "grow") \/ Learn!At(t, "leave", "idle") \/ Learn!At(t, "grow", "score")
    BY <1>8 DEF Learn!Leave, Learn!RetrainDecisionTree
  <2>3. QED
    BY <1>0, <2>1, <2>2, MoveKeepsHands
<1>9. ASSUME NEW t \in Learners, Learn!Score(t) PROVE OverlapInv'
  <2>1. /\ Learn!At(t, "score", "idle") /\ UNCHANGED <<model, overlapped, sample, buffer>>
        /\ untold' = untold + (IF model = {"unfitted"} THEN 1 ELSE 0)
    BY <1>9 DEF Learn!Score, Learn!Unfitted
  <2>2. CASE overlapped
    <3>1. learnPC' \in [Learners -> Learn!Steps]
      BY <2>1 DEF Learn!At, OverlapInv
    <3>2. QED
      BY <2>1, <2>2, <3>1 DEF OverlapInv
  <2>3. CASE ~overlapped
    <3>1. model # {"unfitted"}
      <4>1. SUFFICES ASSUME model = {"unfitted"} PROVE FALSE
        OBVIOUS
      <4>2. PICK u \in Learners : learnPC[u] = "fit"
        BY <2>3, <4>1 DEF OverlapInv, InHands, Fitting
      <4>3. learnPC[t] = "score" /\ t # u
        BY <2>1, <4>2 DEF Learn!At
      <4>4. QED
        BY <2>3, <4>2, <4>3 DEF OverlapInv, FitsAlone, Fitting
    <3>2. untold' = untold
      BY <2>1, <3>1 DEF OverlapInv
    <3>3. QED
      BY <1>0, <2>1, <3>2, MoveKeepsHands
  <2>4. QED
    BY <2>2, <2>3
<1>10. CASE Learn!Tick
  BY <1>1, <1>10 DEF Learn!Tick
<1>11. QED
  BY <1>2, <1>3, <1>4, <1>5, <1>6, <1>7, <1>8, <1>9, <1>10
     DEF Learn!Next, Learn!Retrain, Learn!Labels

-----------------------------------------------------------------------------
(* The age of the regime model. *)

\* A model that was not stamped by a fit that prices outran was fitted on the bars it is
\* stamped with.
Stamped ==
    /\ bars \in Nat /\ stampedBar \in Nat /\ healing \in Nat /\ healing <= HmmBars
    /\ outrun \in BOOLEAN /\ trained \in BOOLEAN
    /\ age < RetrainEvery \/ outrun
    /\ outrun \/ (trained /\ stampedBar = fitted) \/ (~trained /\ stampedBar = 0)

LEMMA RegimeNumbers == First \in Nat \ {0} /\ Lookback \in Nat \ {0} /\ RetrainEvery \in Nat \ {0}
BY DeskAssumption DEF RegimesAssumption

LEMMA BarsGrow == ASSUME bars \in Nat, bars' = bars \/ bars' = bars + 1 PROVE HmmBars \in Nat /\ HmmBars <= HmmBars'
BY RegimeNumbers DEF HmmBars

LEMMA HmmKeepsStamped == ASSUME Stamped, NEW from, NEW to, HmmUpdate(from, to) PROVE Stamped'
<1>1. /\ UNCHANGED <<bars, healing, outrun>> /\ HmmBars' = HmmBars /\ HmmBars \in Nat
  BY BarsGrow DEF HmmUpdate, HmmBars, Stamped
<1>2. CASE HmmBars < Lookback
  BY <1>1, <1>2 DEF HmmUpdate, Stamped, hmmVars
<1>3. CASE ~(HmmBars < Lookback)
  <2>1. /\ Predict
        /\ age' = 0 \/ (~(FitDue /\ stampedBar' # HmmBars) /\ age' = HmmBars - fitted')
    BY <1>3 DEF HmmUpdate
  <2>2. CASE trained' = TRUE /\ stampedBar' = HmmBars /\ fitted' = HmmBars
    BY <1>1, <2>1, <2>2, RegimeNumbers DEF Stamped
  <2>3. CASE UNCHANGED hmmVars
    <3>1. stampedBar' = stampedBar /\ fitted' = fitted /\ trained' = trained
      BY <2>3 DEF hmmVars
    <3>2. CASE outrun
      BY <1>1, <3>1, <3>2 DEF Stamped
    <3>3. CASE ~outrun /\ age' # 0
      <4>1. ~FitDue \/ stampedBar = HmmBars
        BY <2>1, <3>1, <3>3
      <4>2. trained /\ HmmBars - stampedBar < RetrainEvery /\ stampedBar = fitted
        <5>1. CASE ~FitDue
          <6>1. trained /\ ~(HmmBars - stampedBar >= RetrainEvery)
            BY <5>1 DEF FitDue
          <6>2. stampedBar = fitted
            BY <3>3, <6>1 DEF Stamped
          <6>3. HmmBars - stampedBar < RetrainEvery
            BY <1>1, <6>1, RegimeNumbers DEF Stamped
          <6>4. QED
            BY <6>1, <6>2, <6>3
        <5>2. CASE stampedBar = HmmBars
          <6>1. stampedBar # 0
            BY <1>1, <1>3, <5>2, RegimeNumbers
          <6>2. QED
            BY <1>1, <3>3, <5>2, <6>1, RegimeNumbers DEF Stamped
        <5>3. QED
          BY <4>1, <5>1, <5>2
      <4>3. age' < RetrainEvery
        BY <2>1, <3>1, <3>3, <4>2
      <4>4. QED
        BY <1>1, <3>1, <4>3 DEF Stamped
    <3>4. CASE ~outrun /\ age' = 0
      BY <1>1, <3>1, <3>4, RegimeNumbers DEF Stamped
    <3>5. QED
      BY <3>2, <3>3, <3>4 DEF Stamped
  <2>4. QED
    BY <2>1, <2>2, <2>3 DEF Predict, Train
<1>4. QED
  BY <1>2, <1>3

LEMMA StampedStep == Stamped /\ [RegimesNext]_regimeVars => Stamped'
<1> SUFFICES ASSUME Stamped, [RegimesNext]_regimeVars PROVE Stamped'
  OBVIOUS
<1>1. ASSUME UNCHANGED <<hmmVars, healing, age, outrun>>, bars' = bars \/ bars' = bars + 1 PROVE Stamped'
  <2>1. HmmBars \in Nat /\ HmmBars <= HmmBars' /\ HmmBars' \in Nat
    BY <1>1, BarsGrow, RegimeNumbers DEF Stamped, HmmBars
  <2>2. QED
    BY <1>1, <2>1 DEF Stamped, hmmVars
<1>2. ASSUME NEW from, NEW hmm, NEW to, Feed(from, hmm, to) PROVE Stamped'
  BY <1>1, <1>2 DEF Feed
<1>3. CASE HealingRestart
  <2>1. HmmBars' = HmmBars
    BY <1>3 DEF HealingRestart, HmmBars
  <2>2. QED
    BY <1>3, <2>1 DEF HealingRestart, Stamped
<1>4. CASE HealingRetrain
  <2>1. HmmBars' = HmmBars /\ HmmBars \in Nat
    BY <1>4, RegimeNumbers DEF HealingRetrain, HmmBars, Stamped
  <2>2. QED
    BY <1>4, <2>1 DEF HealingRetrain, Stamped, hmmVars
<1>5. CASE HealingRetrained
  <2>1. HmmBars' = HmmBars /\ HmmBars \in Nat
    BY <1>5, RegimeNumbers DEF HealingRetrained, HmmBars, Stamped
  <2>2. healing' = 0 /\ bars' = bars /\ age' = age
    BY <1>5 DEF HealingRetrained
  <2>3. CASE UNCHANGED <<hmmVars, outrun>>
    BY <2>1, <2>2, <2>3 DEF Stamped, hmmVars
  <2>4. CASE /\ trained' = TRUE /\ stampedBar' = HmmBars /\ fitted' = healing
             /\ outrun' = (outrun \/ healing < HmmBars)
    <3>1. healing \in Nat /\ healing <= HmmBars /\ bars \in Nat /\ outrun \in BOOLEAN
          /\ (age < RetrainEvery \/ outrun)
      BY DEF Stamped
    <3>2. CASE outrun'
      BY <2>1, <2>2, <2>4, <3>1, <3>2 DEF Stamped
    <3>3. CASE ~outrun'
      <4>1. ~outrun /\ ~(healing < HmmBars)
        BY <2>4, <3>3
      <4>2. healing = HmmBars
        BY <2>1, <3>1, <4>1
      <4>3. outrun' \in BOOLEAN /\ trained' \in BOOLEAN
        BY <2>4
      <4>4. stampedBar' = fitted' /\ trained'
        BY <2>4, <4>2
      <4>5. stampedBar' \in Nat /\ healing' <= HmmBars' /\ healing' \in Nat /\ bars' \in Nat
        BY <2>1, <2>2, <2>4, <3>1
      <4>6. age' < RetrainEvery
        BY <2>2, <3>1, <4>1
      <4>7. QED
        BY <4>3, <4>4, <4>5, <4>6 DEF Stamped
    <3>4. QED
      BY <3>2, <3>3
  <2>5. QED
    BY <1>5, <2>3, <2>4 DEF HealingRetrained
<1>6. CASE DetectRegime \/ PublishRegime \/ NoPrimaryPrice \/ Validated \/ ListenerDelivers
  BY <1>1, <1>6 DEF DetectRegime, PublishRegime, NoPrimaryPrice, Validated, ListenerDelivers
<1>7. CASE UNCHANGED regimeVars
  BY <1>1, <1>7 DEF regimeVars
<1>8. QED
  BY <1>2, <1>3, <1>4, <1>5, <1>6, <1>7, HmmKeepsStamped DEF RegimesNext

\* self_learning.py and hmm.py: a thread retrains at most once an interval, an outcome is kept
\* from the fail-safe only by two threads that refit together, and the regime model that
\* answers was fitted within its interval unless prices outran a fit.
THEOREM RetrainingHolds == DeskSpec => []RetrainingContained
<1>1. DeskInit => RetrainInv /\ OverlapInv /\ Stamped
  <2> SUFFICES ASSUME Learn!Init, RegimesInit PROVE RetrainInv /\ OverlapInv /\ Stamped
    BY DEF DeskInit
  <2>1. RetrainInv
    BY LearnerNumbers DEF Learn!Init, RetrainInv, Entitled, Learn!Steps
  <2>2. OverlapInv
    BY DEF Learn!Init, OverlapInv, FitsAlone, InHands, Fitting, Learn!Steps
  <2>3. Stamped
    <3>1. /\ bars = 0 /\ stampedBar = 0 /\ healing = 0 /\ age = 0
          /\ trained = FALSE /\ outrun = FALSE
      BY DEF RegimesInit
    <3>2. HmmBars = 0 /\ age < RetrainEvery
      BY <3>1, RegimeNumbers DEF HmmBars
    <3>3. trained \in BOOLEAN /\ outrun \in BOOLEAN /\ ~trained
      BY <3>1
    <3>4. bars \in Nat /\ stampedBar \in Nat /\ healing \in Nat /\ healing <= HmmBars
      BY <3>1, <3>2
    <3>5. QED
      BY <3>1, <3>2, <3>3, <3>4 DEF Stamped
  <2>4. QED
    BY <2>1, <2>2, <2>3
<1>2. RetrainInv /\ OverlapInv /\ [DeskNext]_deskVars => RetrainInv' /\ OverlapInv'
  <2>1. [DeskNext]_deskVars => Learn!Next \/ UNCHANGED learnAll
    BY DEF DeskNext, deskVars, LearningTurn, SignalTurn, RiskTurn, CtaTurn, PaperTurn, LoggerTurn,
           MarketTurn, GateTurn
  <2>2. RetrainInv /\ OverlapInv /\ UNCHANGED learnAll => RetrainInv' /\ OverlapInv'
    BY DEF learnAll, RetrainInv, Entitled, OverlapInv, FitsAlone, InHands, Fitting
  <2>3. QED
    BY <2>1, <2>2, RetrainStep, OverlapStep
<1>3. Stamped /\ [DeskNext]_deskVars => Stamped'
  <2>1. [DeskNext]_deskVars => [RegimesNext]_regimeVars
    BY DEF DeskNext, deskVars, LearningTurn, SignalTurn, RiskTurn, CtaTurn, PaperTurn, LoggerTurn,
           MarketTurn, GateTurn
  <2>2. QED
    BY <2>1, StampedStep
<1>4. RetrainInv /\ OverlapInv /\ Stamped => RetrainingContained
  <2> SUFFICES ASSUME RetrainInv, OverlapInv, Stamped PROVE RetrainingContained
    OBVIOUS
  <2>1. Learn!RetrainsBounded
    <3>1. ASSUME NEW t \in Learners PROVE retrains[t] * Interval <= now
      BY LearnerNumbers DEF RetrainInv
    <3>2. QED
      BY <3>1 DEF Learn!RetrainsBounded
  <2>2. Learn!LostOnlyToOverlap
    BY DEF OverlapInv, Learn!LostOnlyToOverlap
  <2>3. ModelFresh
    BY DEF Stamped, ModelFresh
  <2>4. QED
    BY <2>1, <2>2, <2>3 DEF RetrainingContained
<1>5. QED
  BY <1>1, <1>2, <1>3, <1>4, PTL DEF DeskSpec
-----------------------------------------------------------------------------
(* Types of the parts. *)

\* Which part a step of the whole is one of.
LEMMA DeskSteps ==
    [DeskNext]_deskVars =>
        /\ Learn!Next \/ UNCHANGED learnAll
        /\ Signal!Next \/ UNCHANGED signalAll
        /\ Risk!Next \/ UNCHANGED riskAll
        /\ [CtaNext]_strategyVars
        /\ [Next]_vars
        /\ Logger!Next \/ UNCHANGED loggerAll
        /\ [RegimesNext]_regimeVars
        /\ Gate!Next \/ UNCHANGED gateAll
BY DEF DeskNext, deskVars, LearningTurn, SignalTurn, RiskTurn, CtaTurn, PaperTurn, LoggerTurn,
       MarketTurn, GateTurn

CtaTyped == OneAtATime /\ trading \in BOOLEAN /\ ctaOrders \in 0..MaxCtaOrders

LEMMA CtaStarts == CtaInit => CtaTyped
<1> SUFFICES ASSUME CtaInit PROVE CtaTyped
  OBVIOUS
<1>1. /\ class \in Classes /\ pos = 0 /\ open = <<>> /\ stacked = FALSE /\ trading = FALSE
      /\ ctaOrders = 0
  BY DEF CtaInit
<1>2. Size \in Nat /\ MaxCtaOrders \in Nat
  BY DeskAssumption DEF StrategiesAssumption
<1>3. Within(pos)
  BY <1>1, <1>2 DEF Within
<1>4. pos \in Int /\ <<>> \in Seq(Int) /\ ctaOrders \in 0..MaxCtaOrders
  BY <1>1, <1>2
<1>5. OneAtATime
  BY <1>1, <1>3, <1>4, Zenon DEF OneAtATime
<1>6. ctaOrders \in 0..MaxCtaOrders /\ trading \in BOOLEAN
  BY <1>1, <1>4, Zenon
<1>7. QED
  BY <1>5, <1>6 DEF CtaTyped

LEMMA CtaStep == CtaTyped /\ [CtaNext]_strategyVars => CtaTyped'
<1> SUFFICES ASSUME CtaTyped, [CtaNext]_strategyVars PROVE CtaTyped'
  OBVIOUS
<1>1. OneAtATime /\ StrategiesAssumption
  BY DeskAssumption DEF CtaTyped
<1>2. CASE StartStrategy \/ StopStrategy \/ UNCHANGED strategyVars
  <2>1. <<>> \in Seq(Int)
    OBVIOUS
  <2>2. QED
    BY <1>2, <2>1 DEF StartStrategy, StopStrategy, strategyVars, CtaTyped, OneAtATime, Within
<1>3. ASSUME NEW b \in Bars, OnBar(b) PROVE CtaTyped'
  <2>1. OneAtATime'
    BY <1>1, <1>3, BarKeepsOne
  <2>2. MaxCtaOrders \in Nat /\ ctaOrders \in 0..MaxCtaOrders /\ trading \in BOOLEAN
    BY <1>1 DEF CtaTyped, StrategiesAssumption
  <2>3. trading' = trading /\ ctaOrders < MaxCtaOrders /\ (ctaOrders' = ctaOrders \/ ctaOrders' = ctaOrders + 1)
    BY <1>3 DEF OnBar
  <2>4. ctaOrders' \in 0..MaxCtaOrders
    BY <2>2, <2>3
  <2>5. QED
    BY <2>1, <2>2, <2>3, <2>4 DEF CtaTyped
<1>4. ASSUME NEW i \in DOMAIN open, Fill(i) PROVE CtaTyped'
  <2>1. OneAtATime'
    BY <1>1, <1>4, FillKeepsOne
  <2>2. UNCHANGED <<trading, ctaOrders>>
    BY <1>4 DEF Fill
  <2>3. QED
    BY <2>1, <2>2 DEF CtaTyped
<1>5. QED
  BY <1>2, <1>3, <1>4 DEF CtaNext

\* The learning engine; the threads that are recording an outcome may yet lose it.
Telling(at, recording) == {t \in Learners : at[t] # "idle" /\ recording[t]}

LearnTyped ==
    /\ Learn!TypeOK
    /\ untold + Cardinality(Telling(learnPC, outcome)) <= outcomes
    /\ \A t \in Learners : learnPC[t] \in {"grow", "score"} => outcome[t]

LEMMA FiniteTelling ==
    ASSUME NEW at, NEW recording
    PROVE  IsFiniteSet(Telling(at, recording)) /\ Cardinality(Telling(at, recording)) \in Nat
<1>1. IsFiniteSet(Learners)
  BY DeskAssumption DEF Learn!LearningAssumption, IsFiniteSet, Learn!IsFiniteSet
<1>2. Telling(at, recording) \subseteq Learners
  BY DEF Telling
<1>3. QED
  BY <1>1, <1>2, FS_Subset, FS_CardinalityType

\* A thread that moves on from one step to another in the same call.
LEMMA SameTelling ==
    ASSUME NEW at, NEW t \in Learners, NEW recording, NEW to, at \in [Learners -> Learn!Steps],
           at[t] # "idle", to # "idle"
    PROVE  Telling([at EXCEPT ![t] = to], recording) = Telling(at, recording)
BY DEF Telling

\* A thread that is done.
LEMMA OneTold ==
    ASSUME NEW at, NEW t \in Learners, NEW recording, at \in [Learners -> Learn!Steps],
           at[t] # "idle"
    PROVE  Cardinality(Telling(at, recording))
             = Cardinality(Telling([at EXCEPT ![t] = "idle"], recording)) + (IF recording[t] THEN 1 ELSE 0)
<1> DEFINE all == Telling(at, recording)
           rest == Telling([at EXCEPT ![t] = "idle"], recording)
<1>1. rest = all \ {t} /\ (t \in all <=> recording[t])
  BY DEF Telling
<1>2. IsFiniteSet(all) /\ Cardinality(all) \in Nat
  BY FiniteTelling
<1> HIDE DEF all, rest
<1>3. CASE recording[t]
  <2>1. Cardinality(rest) = Cardinality(all) - 1
    BY <1>1, <1>2, <1>3, FS_RemoveElement
  <2>2. QED
    BY <1>2, <1>3, <2>1 DEF all, rest
<1>4. CASE ~recording[t]
  <2>1. rest = all
    BY <1>1, <1>4
  <2>2. QED
    BY <1>2, <1>4, <2>1 DEF all, rest
<1>5. QED
  BY <1>3, <1>4

\* A thread that begins a call.
LEMMA OneTelling ==
    ASSUME NEW at, NEW t \in Learners, NEW recording, NEW yes \in BOOLEAN,
           at \in [Learners -> Learn!Steps], recording \in [Learners -> BOOLEAN], at[t] = "idle"
    PROVE  Cardinality(Telling([at EXCEPT ![t] = "due"], [recording EXCEPT ![t] = yes]))
             = Cardinality(Telling(at, recording)) + (IF yes THEN 1 ELSE 0)
<1> DEFINE before == Telling(at, recording)
           after == Telling([at EXCEPT ![t] = "due"], [recording EXCEPT ![t] = yes])
<1>1. t \notin before /\ after = IF yes THEN before \cup {t} ELSE before
  BY DEF Telling
<1>2. IsFiniteSet(before) /\ Cardinality(before) \in Nat
  BY FiniteTelling
<1> HIDE DEF before, after
<1>3. CASE yes
  <2>1. Cardinality(after) = Cardinality(before) + 1
    BY <1>1, <1>2, <1>3, FS_AddElement
  <2>2. QED
    BY <1>3, <2>1 DEF before, after
<1>4. CASE ~yes
  BY <1>1, <1>2, <1>4 DEF before, after
<1>5. QED
  BY <1>3, <1>4

LEMMA LearnStarts == Learn!Init => LearnTyped
<1> SUFFICES ASSUME Learn!Init PROVE LearnTyped
  OBVIOUS
<1>1. /\ BufferSize \in Nat /\ MaxNow \in Nat /\ MaxOutcomes \in Nat
  BY DeskAssumption DEF Learn!LearningAssumption
<1>2. <<>> \in Seq(Learn!Labels) /\ Len(<<>>) = 0 /\ {} \in SUBSET Learn!Labels
  OBVIOUS
<1>3. /\ now = 0 /\ buffer = <<>> /\ stamped = 0 /\ retrains = [t \in Learners |-> 0]
      /\ training = FALSE /\ model = {} /\ tree = {}
      /\ learnPC = [t \in Learners |-> "idle"] /\ outcome = [t \in Learners |-> FALSE]
      /\ sample = [t \in Learners |-> {}] /\ looked = 0
      /\ outcomes = 0 /\ untold = 0 /\ overlapped = FALSE
  BY DEF Learn!Init
<1>4. /\ retrains \in [Learners -> Nat] /\ learnPC \in [Learners -> Learn!Steps]
      /\ outcome \in [Learners -> BOOLEAN] /\ sample \in [Learners -> SUBSET Learn!Labels]
  BY <1>3 DEF Learn!Steps
<1>5. /\ now \in 0..MaxNow /\ stamped \in 0..now /\ looked \in 0..now
      /\ outcomes \in 0..MaxOutcomes /\ untold \in 0..outcomes
      /\ buffer \in Seq(Learn!Labels) /\ Len(buffer) <= BufferSize
  BY <1>1, <1>2, <1>3
<1>6. training \in BOOLEAN /\ overlapped \in BOOLEAN
  BY <1>3
<1>7. model \in (SUBSET Learn!Labels) \cup {Learn!Unfitted} /\ tree \subseteq Learn!Labels
  BY <1>3
<1>8. Telling(learnPC, outcome) = {}
  BY <1>3 DEF Telling
<1>9. untold + Cardinality(Telling(learnPC, outcome)) <= outcomes
  <2>1. Cardinality({}) = 0
    BY FS_EmptySet
  <2>2. Cardinality(Telling(learnPC, outcome)) = 0
    BY <1>8, <2>1
  <2>3. untold + 0 <= outcomes
    BY <1>3
  <2>4. QED
    BY <2>2, <2>3
<1>10. \A t \in Learners : learnPC[t] \notin {"grow", "score"}
  BY <1>3
<1>11. QED
  BY <1>4, <1>5, <1>6, <1>7, <1>9, <1>10 DEF LearnTyped, Learn!TypeOK

LEMMA ExperienceTyped ==
    ASSUME LearnTyped, NEW label \in Learn!Labels, Learn!AddExperience(label)
    PROVE  buffer' \in Seq(Learn!Labels) /\ Len(buffer') <= BufferSize
<1>1. BufferSize \in Nat \ {0}
  BY DeskAssumption DEF Learn!LearningAssumption
<1>2. buffer \in Seq(Learn!Labels) /\ Len(buffer) <= BufferSize /\ Len(buffer) \in Nat
  BY DEF LearnTyped, Learn!TypeOK
<1>3. CASE Len(buffer) < BufferSize
  <2>1. buffer' = Append(buffer, label) /\ Len(buffer') = Len(buffer) + 1
    BY <1>2, <1>3 DEF Learn!AddExperience
  <2>2. QED
    BY <1>1, <1>2, <1>3, <2>1
<1>4. CASE ~(Len(buffer) < BufferSize)
  <2>1. buffer # <<>>
    BY <1>1, <1>2, <1>4
  <2>2. Tail(buffer) \in Seq(Learn!Labels) /\ Len(Tail(buffer)) = Len(buffer) - 1
    BY <1>2, <2>1
  <2>3. buffer' = Append(Tail(buffer), label)
    BY <1>4 DEF Learn!AddExperience
  <2>4. buffer' \in Seq(Learn!Labels) /\ Len(buffer') = Len(Tail(buffer)) + 1
    BY <2>2, <2>3
  <2>5. QED
    BY <1>1, <1>2, <2>2, <2>4
<1>5. QED
  BY <1>3, <1>4

LEMMA LearnedLabels ==
    ASSUME LearnTyped PROVE Learn!ToSet(buffer) \in SUBSET Learn!Labels
<1>1. buffer \in Seq(Learn!Labels)
  BY DEF LearnTyped, Learn!TypeOK
<1>2. \A i \in DOMAIN buffer : buffer[i] \in Learn!Labels
  BY <1>1
<1>3. QED
  BY <1>2 DEF Learn!ToSet

\* A step of a thread that has begun.
LEMMA MoveTyped ==
    ASSUME LearnTyped, NEW t \in Learners, Learn!Retrain(t)
    PROVE  LearnTyped'
<1>0. /\ MaxNow \in Nat /\ MaxOutcomes \in Nat
      /\ now \in 0..MaxNow /\ stamped \in 0..now /\ looked \in 0..now
      /\ buffer \in Seq(Learn!Labels) /\ Len(buffer) <= BufferSize
      /\ retrains \in [Learners -> Nat] /\ training \in BOOLEAN
      /\ model \in (SUBSET Learn!Labels) \cup {Learn!Unfitted} /\ tree \subseteq Learn!Labels
      /\ learnPC \in [Learners -> Learn!Steps] /\ outcome \in [Learners -> BOOLEAN]
      /\ sample \in [Learners -> SUBSET Learn!Labels]
      /\ outcomes \in 0..MaxOutcomes /\ untold \in 0..outcomes /\ overlapped \in BOOLEAN
      /\ untold + Cardinality(Telling(learnPC, outcome)) <= outcomes
      /\ \A u \in Learners : learnPC[u] \in {"grow", "score"} => outcome[u]
  BY DeskAssumption DEF Learn!LearningAssumption, LearnTyped, Learn!TypeOK
<1>1. \/ Learn!Due(t) \/ Learn!Check(t) \/ Learn!Enter(t) \/ Learn!Assign(t) \/ Learn!Fit(t)
      \/ Learn!Leave(t) \/ Learn!RetrainDecisionTree(t) \/ Learn!Score(t)
  BY DEF Learn!Retrain
<1>2. PICK from, to \in Learn!Steps :
        /\ from # "idle" /\ Learn!At(t, from, to) /\ (to \in {"grow", "score"} => outcome[t])
        /\ (to # "idle" => untold' = untold)
        /\ untold' \in {untold, untold + 1} /\ (untold' # untold => from = "score")
  BY <1>0, <1>1 DEF Learn!Due, Learn!Check, Learn!Enter, Learn!Assign, Learn!Fit, Learn!At,
            Learn!Leave, Learn!RetrainDecisionTree, Learn!Score, Learn!Steps, Learn!counts
<1>3. UNCHANGED <<now, looked, buffer, outcome, outcomes>>
  BY <1>1 DEF Learn!Due, Learn!Check, Learn!Enter, Learn!Assign, Learn!Fit,
              Learn!Leave, Learn!RetrainDecisionTree, Learn!Score, Learn!clock, Learn!counts
<1>4. learnPC[t] = from /\ learnPC' = [learnPC EXCEPT ![t] = to] /\ learnPC' \in [Learners -> Learn!Steps]
  BY <1>0, <1>2 DEF Learn!At
<1>5. \A u \in Learners : learnPC'[u] \in {"grow", "score"} => outcome'[u]
  BY <1>0, <1>2, <1>3, <1>4
<1>6. Cardinality(Telling(learnPC, outcome)) \in Nat /\ Cardinality(Telling(learnPC', outcome)) \in Nat
  BY FiniteTelling
<1>7. untold' + Cardinality(Telling(learnPC', outcome')) <= outcomes' /\ untold' \in 0..outcomes'
  <2>1. CASE to # "idle"
    <3>1. Telling(learnPC', outcome') = Telling(learnPC, outcome)
      <4>1. Telling([learnPC EXCEPT ![t] = to], outcome) = Telling(learnPC, outcome)
        <5>1. learnPC \in [Learners -> Learn!Steps] /\ learnPC[t] # "idle"
          BY <1>0, <1>2, <1>4
        <5>2. QED
          BY <2>1, <5>1, SameTelling
      <4>2. QED
        BY <1>3, <1>4, <4>1
    <3>2. QED
      BY <1>0, <1>2, <1>3, <2>1, <3>1
  <2>2. CASE to = "idle"
    <3>1. Cardinality(Telling(learnPC, outcome))
            = Cardinality(Telling(learnPC', outcome)) + (IF outcome[t] THEN 1 ELSE 0)
      BY <1>0, <1>2, <1>4, <2>2, OneTold
    <3>2. CASE untold' = untold
      BY <1>0, <1>3, <1>6, <3>1, <3>2
    <3>3. CASE untold' = untold + 1 /\ from = "score"
      <4>1. outcome[t]
        BY <1>0, <1>4, <3>3
      <4>2. QED
        BY <1>0, <1>3, <1>6, <3>1, <3>3, <4>1
    <3>4. QED
      BY <1>2, <3>2, <3>3
  <2>3. QED
    BY <2>1, <2>2
<1>8. sample' \in [Learners -> SUBSET Learn!Labels] /\ tree' \subseteq Learn!Labels
  <2>1. Learn!ToSet(buffer) \in SUBSET Learn!Labels
    BY LearnedLabels
  <2>2. QED
    BY <1>0, <1>1, <2>1
       DEF Learn!Due, Learn!Check, Learn!Enter, Learn!Assign, Learn!Fit,
           Learn!Leave, Learn!RetrainDecisionTree, Learn!Score
<1>9. stamped' \in 0..now /\ retrains' \in [Learners -> Nat]
  <2>1. CASE Learn!Fit(t)
    BY <1>0, <2>1 DEF Learn!Fit
  <2>2. CASE UNCHANGED <<stamped, retrains>>
    BY <1>0, <2>2
  <2>3. QED
    BY <1>1, <2>1, <2>2 DEF Learn!Due, Learn!Check, Learn!Enter, Learn!Assign,
                            Learn!Leave, Learn!RetrainDecisionTree, Learn!Score
<1>10. model' \in (SUBSET Learn!Labels) \cup {Learn!Unfitted}
  BY <1>0, <1>1 DEF Learn!Due, Learn!Check, Learn!Enter, Learn!Assign, Learn!Fit,
                    Learn!Leave, Learn!RetrainDecisionTree, Learn!Score
<1>11. training' \in BOOLEAN /\ overlapped' \in BOOLEAN
  BY <1>0, <1>1 DEF Learn!Due, Learn!Check, Learn!Enter, Learn!Assign, Learn!Fit,
                    Learn!Leave, Learn!RetrainDecisionTree, Learn!Score, Learn!counts
<1>12. now' \in 0..MaxNow /\ looked' \in 0..now' /\ outcomes' \in 0..MaxOutcomes /\ stamped' \in 0..now'
  BY <1>0, <1>3, <1>9
<1>13. buffer' \in Seq(Learn!Labels) /\ Len(buffer') <= BufferSize /\ outcome' \in [Learners -> BOOLEAN]
  BY <1>0, <1>3
<1>14. QED
  BY <1>4, <1>5, <1>7, <1>8, <1>9, <1>10, <1>11, <1>12, <1>13 DEF LearnTyped, Learn!TypeOK

LEMMA LearnStep == LearnTyped /\ Learn!Next => LearnTyped'
<1> SUFFICES ASSUME LearnTyped, Learn!Next PROVE LearnTyped'
  OBVIOUS
<1>0. /\ MaxNow \in Nat /\ MaxOutcomes \in Nat /\ Update \in Learners
      /\ now \in 0..MaxNow /\ stamped \in 0..now /\ looked \in 0..now
      /\ buffer \in Seq(Learn!Labels) /\ Len(buffer) <= BufferSize
      /\ retrains \in [Learners -> Nat] /\ training \in BOOLEAN
      /\ model \in (SUBSET Learn!Labels) \cup {Learn!Unfitted} /\ tree \subseteq Learn!Labels
      /\ learnPC \in [Learners -> Learn!Steps] /\ outcome \in [Learners -> BOOLEAN]
      /\ sample \in [Learners -> SUBSET Learn!Labels]
      /\ outcomes \in 0..MaxOutcomes /\ untold \in 0..outcomes /\ overlapped \in BOOLEAN
      /\ untold + Cardinality(Telling(learnPC, outcome)) <= outcomes
      /\ \A u \in Learners : learnPC[u] \in {"grow", "score"} => outcome[u]
      /\ Cardinality(Telling(learnPC, outcome)) \in Nat
  BY DeskAssumption, FiniteTelling DEF Learn!LearningAssumption, LearnTyped, Learn!TypeOK
<1>1. ASSUME NEW t \in Learners, NEW from, NEW to \in Learn!Steps, Learn!At(t, from, to)
      PROVE  learnPC' \in [Learners -> Learn!Steps]
  BY <1>0, <1>1 DEF Learn!At
<1>2. ASSUME NEW label \in Learn!Labels \cup {"none"}, Learn!Validate(label) PROVE LearnTyped'
  <2>1. UNCHANGED <<now, stamped, retrains, training, model, tree, sample, outcomes, untold, overlapped>>
        /\ looked' = now
    BY <1>2 DEF Learn!Validate, Learn!counts
  <2>2. CASE label = "none"
    <3>1. UNCHANGED <<buffer, learnPC, outcome>>
      BY <1>2, <2>2 DEF Learn!Validate
    <3>2. QED
      BY <1>0, <2>1, <3>1 DEF LearnTyped, Learn!TypeOK
  <2>3. CASE label # "none"
    <3>1. /\ Learn!At(Update, "idle", "due") /\ Learn!AddExperience(label)
          /\ outcome' = [outcome EXCEPT ![Update] = FALSE]
      BY <1>2, <2>3 DEF Learn!Validate
    <3>2. learnPC' \in [Learners -> Learn!Steps]
      BY <1>0, <1>1, <3>1 DEF Learn!Steps
    <3>3. buffer' \in Seq(Learn!Labels) /\ Len(buffer') <= BufferSize
      BY <1>2, <2>3, <3>1, ExperienceTyped
    <3>4. outcome' \in [Learners -> BOOLEAN]
      BY <1>0, <3>1
    <3>5. learnPC' = [learnPC EXCEPT ![Update] = "due"] /\ learnPC[Update] = "idle"
      BY <3>1 DEF Learn!At
    <3>6. Cardinality(Telling(learnPC', outcome')) = Cardinality(Telling(learnPC, outcome))
      <4>1. Cardinality(Telling([learnPC EXCEPT ![Update] = "due"], [outcome EXCEPT ![Update] = FALSE]))
              = Cardinality(Telling(learnPC, outcome)) + (IF FALSE THEN 1 ELSE 0)
        BY <1>0, <3>5, OneTelling
      <4>2. QED
        BY <1>0, <3>1, <3>5, <4>1
    <3>7. \A u \in Learners : learnPC'[u] \in {"grow", "score"} => outcome'[u]
      BY <1>0, <3>1, <3>5
    <3>8. QED
      BY <1>0, <2>1, <3>2, <3>3, <3>4, <3>6, <3>7 DEF LearnTyped, Learn!TypeOK
  <2>4. QED
    BY <2>2, <2>3
<1>3. ASSUME NEW t \in Learners, NEW label \in Learn!Labels, Learn!RecordTradeOutcome(t, label)
      PROVE  LearnTyped'
  <2>1. /\ outcomes < MaxOutcomes /\ outcomes' = outcomes + 1
        /\ Learn!At(t, "idle", "due") /\ Learn!AddExperience(label)
        /\ outcome' = [outcome EXCEPT ![t] = TRUE]
        /\ UNCHANGED <<now, looked, stamped, retrains, training, model, tree, sample, untold, overlapped>>
    BY <1>3 DEF Learn!RecordTradeOutcome, Learn!clock
  <2>2. learnPC' \in [Learners -> Learn!Steps]
    BY <1>1, <2>1 DEF Learn!Steps
  <2>3. buffer' \in Seq(Learn!Labels) /\ Len(buffer') <= BufferSize
    BY <2>1, ExperienceTyped
  <2>4. outcome' \in [Learners -> BOOLEAN]
    BY <1>0, <2>1
  <2>5. outcomes' \in 0..MaxOutcomes /\ untold' \in 0..outcomes'
    BY <1>0, <2>1
  <2>6. learnPC' = [learnPC EXCEPT ![t] = "due"] /\ learnPC[t] = "idle"
    BY <2>1 DEF Learn!At
  <2>7. Cardinality(Telling(learnPC', outcome')) = Cardinality(Telling(learnPC, outcome)) + 1
    BY <1>0, <2>1, <2>6, OneTelling
  <2>8. \A u \in Learners : learnPC'[u] \in {"grow", "score"} => outcome'[u]
    BY <1>0, <2>1, <2>6
  <2>9. untold' + Cardinality(Telling(learnPC', outcome')) <= outcomes'
    BY <1>0, <2>1, <2>7
  <2>10. QED
    BY <1>0, <2>1, <2>2, <2>3, <2>4, <2>5, <2>8, <2>9 DEF LearnTyped, Learn!TypeOK
<1>4. ASSUME NEW t \in Learners, Learn!Retrain(t) PROVE LearnTyped'
  BY <1>4, MoveTyped
<1>5. CASE Learn!Tick
  <2>1. now' \in 0..MaxNow /\ stamped' \in 0..now' /\ looked' \in 0..now'
    BY <1>0, <1>5 DEF Learn!Tick
  <2>2. QED
    BY <1>0, <1>5, <2>1 DEF Learn!Tick, Learn!counts, LearnTyped, Learn!TypeOK
<1>6. QED
  BY <1>2, <1>3, <1>4, <1>5 DEF Learn!Next

\* The signal layer and the defence.
LEMMA SignalStep == Signal!TypeOK /\ Signal!Next => Signal!TypeOK'
<1> SUFFICES ASSUME Signal!TypeOK, NEW s \in Symbols, NEW p \in Prices, Signal!Generate(s, p)
             PROVE  Signal!TypeOK'
  BY DEF Signal!Next
<1>1. /\ fed \in Seq(Symbols \X Prices) /\ Len(fed) < MaxPrices /\ fed' = Append(fed, <<s, p>>)
      /\ action \in [Symbols -> Signal!Actions]
      /\ action' = [action EXCEPT ![s] = Signal!CombineSignals(Signal!Voice(Signal!AllPrices'))]
  BY DEF Signal!TypeOK, Signal!Generate
<1>2. MaxPrices \in Nat
  BY DeskAssumption DEF Signal!SignalsAssumption
<1>3. Signal!CombineSignals(Signal!Voice(Signal!AllPrices')) \in Signal!Actions
  BY DEF Signal!CombineSignals, Signal!Consensus, Signal!Actions
<1>4. <<s, p>> \in Symbols \X Prices /\ Len(fed) \in Nat
  BY <1>1
<1>5. fed' \in Seq(Symbols \X Prices) /\ Len(fed') = Len(fed) + 1
  BY <1>1, <1>4
<1>6. Len(fed') <= MaxPrices
  BY <1>1, <1>2, <1>4, <1>5
<1>7. action' \in [Symbols -> Signal!Actions]
  BY <1>1, <1>3
<1>8. QED
  BY <1>5, <1>6, <1>7 DEF Signal!TypeOK

LEMMA DefenceStep == Risk!TypeOK /\ Risk!Next => Risk!TypeOK'
<1> SUFFICES ASSUME Risk!TypeOK, Risk!Next PROVE Risk!TypeOK'
  OBVIOUS
<1> USE DEF Risk!TypeOK, Risk!market, Risk!learner, Risk!FullSize
<1>0. Known \in Nat /\ Patience \in Nat \ {0}
  BY DeskAssumption DEF Risk!DefenceAssumption
<1>1. CASE Risk!UpdateVolatility
  <2>1. samples' \in 0..Known
    BY <1>0, <1>1 DEF Risk!UpdateVolatility
  <2>2. QED
    BY <1>1, <2>1 DEF Risk!UpdateVolatility
<1>2. ASSUME Risk!OpenOrder \/ Risk!RejectSignal PROVE defensive' \in BOOLEAN
  <2>1. defensive' = Risk!DetectRegimeCollapse(defensive) /\ defensive \in BOOLEAN
    BY <1>2 DEF Risk!OpenOrder, Risk!RejectSignal
  <2>2. QED
    BY <2>1 DEF Risk!DetectRegimeCollapse
<1>3. CASE Risk!OpenOrder
  <2>1. opened' = [size |-> IF defensive' THEN 1 ELSE 16, spiked |-> Risk!Spiked]
        /\ UNCHANGED <<phase, samples, z, vol, corr, deep, poor, frozen, degraded>>
    BY <1>3 DEF Risk!OpenOrder
  <2>2. Risk!Spiked \in BOOLEAN
    BY DEF Risk!Spiked
  <2>3. opened' \in [size : {0, 1, 16}, spiked : BOOLEAN]
    BY <2>1, <2>2
  <2>4. QED
    BY <1>2, <1>3, <2>1, <2>3
<1>4. CASE Risk!RejectSignal
  BY <1>2, <1>4 DEF Risk!RejectSignal
<1>5. CASE Risk!SignalsDone \/ Risk!RiskCheckFails
  BY <1>5 DEF Risk!SignalsDone, Risk!RiskCheckFails
<1>6. CASE Risk!RiskCheckPasses
  <2>1. phase' = "prices" /\ defensive' \in BOOLEAN
        /\ UNCHANGED <<samples, z, vol, corr, deep, poor, opened>>
    BY <1>6 DEF Risk!RiskCheckPasses
  <2>2. frozen' \in BOOLEAN /\ degraded' \in 0..Patience
    <3>1. CASE UNCHANGED <<frozen, degraded>>
      BY <3>1
    <3>2. CASE Risk!CheckUpdateStability
      <4>1. degraded \in 0..Patience /\ frozen \in BOOLEAN
        OBVIOUS
      <4>2. degraded' \in 0..Patience
        <5> DEFINE count == IF ~poor THEN 0 ELSE IF degraded < Patience THEN degraded + 1 ELSE Patience
        <5>1. degraded' = degraded \/ degraded' = count
          BY <3>2 DEF Risk!CheckUpdateStability
        <5>2. count \in 0..Patience
          BY <1>0, <4>1
        <5>3. QED
          BY <4>1, <5>1, <5>2
      <4>3. frozen' \in BOOLEAN
        BY <3>2, <4>1 DEF Risk!CheckUpdateStability
      <4>4. QED
        BY <4>2, <4>3
    <3>3. QED
      BY <1>6, <3>1, <3>2 DEF Risk!RiskCheckPasses
  <2>3. QED
    BY <2>1, <2>2
<1>7. QED
  BY <1>1, <1>3, <1>4, <1>5, <1>6 DEF Risk!Next

\* The regimes; no fit has more bars than there are.
RegimesTyped ==
    /\ RegimesTypeOK
    /\ fitted <= HmmBars /\ healing <= HmmBars

LEMMA RegimeConstants ==
    /\ "sideways" \in Names /\ First \in Nat \ {0} /\ MaxLag \in Nat \ {0} /\ MaxBars \in Nat
    /\ Cap \in Nat /\ Cap \div 2 \in Nat /\ Cap \div 2 <= Cap /\ Cap \div 2 > 0
<1>1. RegimesAssumption
  BY DeskAssumption
<1>2. PICK n \in 1..100 : Cap = 2 * n
  BY <1>1 DEF RegimesAssumption
<1>3. QED
  BY <1>1, <1>2 DEF RegimesAssumption

LEMMA BarsBound ==
    ASSUME bars \in 0..MaxBars PROVE HmmBars \in 0..MaxBars
BY RegimeConstants DEF HmmBars

LEMMA BarsGiven == ASSUME bars' \in Nat PROVE HmmBars' \in Nat
<1>1. HmmBars' = IF bars' < First THEN 0 ELSE bars' - First + 1
  BY DEF HmmBars
<1>2. \A b \in Nat : (IF b < First THEN 0 ELSE b - First + 1) \in Nat
  BY RegimeNumbers
<1>3. QED
  BY <1>1, <1>2

Changes == (Names \cup {"unknown"}) \X Names

LEMMA RecordedTyped ==
    ASSUME NEW h \in Seq(Changes), Len(h) <= Cap, NEW from \in Names \cup {"unknown"}, NEW to \in Names
    PROVE  Recorded(h, from, to) \in Seq(Changes) /\ Len(Recorded(h, from, to)) <= Cap
<1> DEFINE a == Append(h, <<from, to>>)
           k == Len(a) - Cap \div 2
<1>1. <<from, to>> \in Changes
  BY DEF Changes
<1>2. a \in Seq(Changes) /\ Len(a) \in Nat
  BY <1>1
<1>3. Recorded(h, from, to) = Cut(a)
  BY DEF Recorded
<1> HIDE DEF a
<1>4. CASE Len(a) > Cap
  <2>1. k + 1 \in 1..Len(a) /\ k \in Nat
    BY <1>2, <1>4, RegimeConstants
  <2>2. SubSeq(a, k + 1, Len(a)) \in Seq(Changes) /\ Len(SubSeq(a, k + 1, Len(a))) = Len(a) - k
    BY <1>2, <2>1, SubSeqProperties
  <2>3. Cut(a) = SubSeq(a, k + 1, Len(a))
    BY <1>4 DEF Cut
  <2>4. QED
    BY <1>2, <1>3, <2>2, <2>3, RegimeConstants
<1>5. CASE ~(Len(a) > Cap)
  BY <1>2, <1>3, <1>5, RegimeConstants DEF Cut
<1>6. QED
  BY <1>4, <1>5

LEMMA LearnerTyped ==
    ASSUME RegimesTyped, NEW r \in Names \cup {Nothing}, OnRegimeChange(r)
    PROVE  known' \in Names \cup {"unknown"} /\ transitions' \in Seq(Changes) /\ Len(transitions') <= Cap
<1>1. known \in Names \cup {"unknown"} /\ transitions \in Seq(Changes) /\ Len(transitions) <= Cap
  BY DEF RegimesTyped, RegimesTypeOK, Changes
<1>2. CASE r \in {Nothing, known}
  BY <1>1, <1>2 DEF OnRegimeChange, told
<1>3. CASE r \notin {Nothing, known}
  <2>1. r \in Names /\ known' = r
        /\ transitions' = Recorded(Recorded(transitions, known, r), known, r)
    BY <1>3 DEF OnRegimeChange
  <2>2. /\ Recorded(transitions, known, r) \in Seq(Changes)
        /\ Len(Recorded(transitions, known, r)) <= Cap
    BY <1>1, <2>1, RecordedTyped
  <2>3. QED
    BY <1>1, <2>1, <2>2, RecordedTyped
<1>4. QED
  BY <1>2, <1>3

LEMMA HmmTyped ==
    ASSUME RegimesTyped, NEW from, NEW to \in {"compare", "validate"}, HmmUpdate(from, to)
    PROVE  RegimesTyped'
<1>0. /\ bars \in 0..MaxBars /\ seen \in Names /\ regime \in Names /\ HmmBars \in 0..MaxBars
      /\ trained \in BOOLEAN /\ stampedBar \in 0..MaxBars /\ fitted \in 0..MaxBars
      /\ healing \in 0..MaxBars /\ age \in 0..MaxBars
      /\ fitted <= HmmBars /\ healing <= HmmBars
      /\ known \in Names \cup {"unknown"} /\ outrun \in BOOLEAN
      /\ transitions \in Seq(Changes) /\ Len(transitions) <= Cap
      /\ wire \in Seq(Names \cup {Nothing}) /\ Len(wire) <= MaxLag
  BY BarsBound DEF RegimesTyped, RegimesTypeOK, Changes
<1>1. /\ UNCHANGED <<bars, healing, regime, known, transitions, wire, outrun>> /\ turn' = to
      /\ HmmBars' = HmmBars /\ seen' \in Names
  BY <1>0, RegimeConstants DEF HmmUpdate, told, HmmBars
<1>2. trained' \in BOOLEAN /\ stampedBar' \in 0..MaxBars /\ fitted' \in 0..MaxBars /\ fitted' <= HmmBars
  <2>1. CASE UNCHANGED hmmVars
    BY <1>0, <2>1 DEF hmmVars
  <2>2. CASE trained' = TRUE /\ stampedBar' = HmmBars /\ fitted' = HmmBars
    BY <1>0, <2>2
  <2>3. QED
    BY <2>1, <2>2 DEF HmmUpdate, Predict, Train
<1>3. age' \in 0..MaxBars
  <2>1. age' = age \/ age' = 0 \/ age' = HmmBars - fitted'
    BY DEF HmmUpdate
  <2>2. QED
    BY <1>0, <1>2, <2>1, RegimeConstants
<1>4. QED
  BY <1>0, <1>1, <1>2, <1>3 DEF RegimesTyped, RegimesTypeOK, Changes

LEMMA RegimeStarts == RegimesInit => RegimesTyped
<1> SUFFICES ASSUME RegimesInit PROVE RegimesTyped
  OBVIOUS
<1>1. /\ turn = "detect" /\ bars = 0 /\ seen = "sideways" /\ regime = "sideways"
      /\ trained = FALSE /\ stampedBar = 0 /\ fitted = 0 /\ healing = 0
      /\ known = "unknown" /\ transitions = <<>> /\ wire = <<>> /\ age = 0 /\ outrun = FALSE
  BY DEF RegimesInit
<1>2. HmmBars = 0
  BY <1>1, RegimeConstants DEF HmmBars
<1>3. <<>> \in Seq((Names \cup {"unknown"}) \X Names) /\ <<>> \in Seq(Names \cup {Nothing}) /\ Len(<<>>) = 0
  OBVIOUS
<1>4. trained \in BOOLEAN /\ outrun \in BOOLEAN
  BY <1>1
<1>5. 0 \in 0..MaxBars /\ {stampedBar, fitted, healing, age} \subseteq 0..MaxBars
  BY <1>1, RegimeConstants
<1>6. transitions \in Seq((Names \cup {"unknown"}) \X Names) /\ Len(transitions) <= Cap
      /\ wire \in Seq(Names \cup {Nothing}) /\ Len(wire) <= MaxLag
  BY <1>1, <1>3, RegimeConstants
<1>7. fitted <= HmmBars /\ healing <= HmmBars
  BY <1>1, <1>2
<1>8. QED
  BY <1>1, <1>4, <1>5, <1>6, <1>7, RegimeConstants DEF RegimesTyped, RegimesTypeOK

Calls == {"detect", "hmm", "compare", "publish", "validate", "hmm again"}

LEMMA FeedTyped ==
    ASSUME RegimesTyped, NEW from, NEW onward \in Calls, NEW to \in Calls, Feed(from, onward, to)
    PROVE  RegimesTyped'
<1>0. bars \in 0..MaxBars /\ fitted \in 0..MaxBars /\ healing \in 0..MaxBars
  BY Zenon DEF RegimesTyped, RegimesTypeOK
<1>1. bars \in Nat /\ MaxBars \in Nat /\ bars' = bars + 1 /\ bars < MaxBars
  BY <1>0, RegimeConstants DEF Feed
<1>2. bars' \in 0..MaxBars /\ bars' \in Nat
  BY <1>1
<1>3. HmmBars <= HmmBars' /\ HmmBars \in Nat /\ HmmBars' \in Nat
  <2>1. HmmBars <= HmmBars' /\ HmmBars \in Nat
    BY <1>1, BarsGrow
  <2>2. HmmBars' \in Nat
    BY <1>2, BarsGiven
  <2>3. QED
    BY <2>1, <2>2
<1>4. /\ UNCHANGED <<seen, trained, stampedBar, fitted, healing, regime, known, transitions, wire,
                     age, outrun>>
      /\ turn' \in {onward, to}
  BY DEF Feed, hmmVars, told
<1>5. fitted \in Nat /\ healing \in Nat /\ fitted <= HmmBars /\ healing <= HmmBars
  BY <1>0, RegimeConstants DEF RegimesTyped
<1>6. fitted <= HmmBars' /\ healing <= HmmBars'
  BY <1>3, <1>5
<1>7. turn' \in Calls
  BY <1>4
<1>8. stampedBar \in 0..MaxBars /\ fitted \in 0..MaxBars /\ healing \in 0..MaxBars /\ age \in 0..MaxBars
  BY DEF RegimesTyped, RegimesTypeOK
<1>9. {stampedBar', fitted', healing', age'} \subseteq 0..MaxBars
  BY <1>4, <1>8
<1>10. fitted' <= HmmBars' /\ healing' <= HmmBars'
  BY <1>4, <1>6
<1>11. QED
  BY <1>2, <1>4, <1>7, <1>9, <1>10, Zenon DEF RegimesTyped, RegimesTypeOK, Calls

LEMMA RegimeStep == RegimesTyped /\ [RegimesNext]_regimeVars => RegimesTyped'
<1> SUFFICES ASSUME RegimesTyped, [RegimesNext]_regimeVars PROVE RegimesTyped'
  OBVIOUS
<1>a. bars \in Nat /\ bars <= MaxBars /\ HmmBars \in Nat /\ HmmBars <= MaxBars /\ MaxBars \in Nat
  <2>1. bars \in 0..MaxBars
    BY DEF RegimesTyped, RegimesTypeOK
  <2>2. HmmBars \in 0..MaxBars
    BY <2>1, BarsBound
  <2>3. QED
    BY <2>1, <2>2, RegimeConstants
<1>b. stampedBar \in 0..MaxBars /\ fitted \in 0..MaxBars /\ healing \in 0..MaxBars /\ age \in 0..MaxBars
  BY DEF RegimesTyped, RegimesTypeOK
<1>c. fitted <= HmmBars /\ healing <= HmmBars
  BY DEF RegimesTyped
<1>d. transitions \in Seq(Changes) /\ Len(transitions) <= Cap
  BY DEF RegimesTyped, RegimesTypeOK, Changes
<1>e. wire \in Seq(Names \cup {Nothing}) /\ Len(wire) <= MaxLag
  BY DEF RegimesTyped, RegimesTypeOK
<1>f. /\ seen \in Names /\ regime \in Names /\ trained \in BOOLEAN /\ outrun \in BOOLEAN
      /\ known \in Names \cup {"unknown"}
      /\ turn \in {"detect", "hmm", "compare", "publish", "validate", "hmm again"}
  BY DEF RegimesTyped, RegimesTypeOK
<1>0. \A n : n \in 0..MaxBars <=> n \in Nat /\ n <= MaxBars
  BY RegimeConstants
<1>g. ASSUME bars' \in 0..MaxBars, {stampedBar', fitted', healing', age'} \subseteq 0..MaxBars,
             fitted' <= HmmBars', healing' <= HmmBars',
             transitions' \in Seq(Changes), Len(transitions') <= Cap,
             wire' \in Seq(Names \cup {Nothing}), Len(wire') <= MaxLag,
             seen' \in Names, regime' \in Names, trained' \in BOOLEAN, outrun' \in BOOLEAN,
             known' \in Names \cup {"unknown"},
             turn' \in {"detect", "hmm", "compare", "publish", "validate", "hmm again"}
      PROVE  RegimesTyped'
  BY <1>g, Zenon DEF RegimesTyped, RegimesTypeOK, Changes
<1>2. ASSUME UNCHANGED bars PROVE HmmBars' = HmmBars
  BY <1>2 DEF HmmBars
<1>3. CASE HealingRestart
  <2>1. /\ trained' = FALSE /\ stampedBar' = 0 /\ HmmBars' = HmmBars
        /\ UNCHANGED <<turn, bars, seen, fitted, healing, regime, known, transitions, wire, age, outrun>>
    BY <1>2, <1>3 DEF HealingRestart, told
  <2>2. bars' \in 0..MaxBars /\ 0 \in 0..MaxBars
    BY <1>0, <1>a, <2>1, RegimeConstants
  <2>3. QED
    BY <1>b, <1>c, <1>d, <1>e, <1>f, <1>g, <2>1, <2>2
<1>4. CASE HealingRetrain
  <2>1. /\ healing' = HmmBars /\ HmmBars' = HmmBars
        /\ UNCHANGED <<turn, bars, seen, trained, stampedBar, fitted, regime, known, transitions, wire,
                       age, outrun>>
    BY <1>2, <1>4 DEF HealingRetrain, told, hmmVars
  <2>2. bars' \in 0..MaxBars /\ HmmBars \in 0..MaxBars /\ HmmBars <= HmmBars
    BY <1>0, <1>a, <2>1
  <2>3. QED
    BY <1>b, <1>c, <1>d, <1>e, <1>f, <1>g, <2>1, <2>2
<1>5. CASE HealingRetrained
  <2>1. /\ healing' = 0 /\ UNCHANGED <<turn, bars, seen, regime, known, transitions, wire, age>>
        /\ HmmBars' = HmmBars
    BY <1>2, <1>5 DEF HealingRetrained, told
  <2>2. /\ trained' \in BOOLEAN /\ stampedBar' \in 0..MaxBars /\ fitted' \in 0..MaxBars
        /\ fitted' <= HmmBars
    <3>1. CASE UNCHANGED <<hmmVars, outrun>>
      BY <1>b, <1>c, <1>f, <3>1 DEF hmmVars
    <3>2. CASE trained' = TRUE /\ stampedBar' = HmmBars /\ fitted' = healing
      BY <1>0, <1>a, <1>b, <1>c, <3>2
    <3>3. QED
      BY <1>5, <3>1, <3>2 DEF HealingRetrained
  <2>3. outrun' \in BOOLEAN
    BY <1>5, <1>f DEF HealingRetrained
  <2>4. bars' \in 0..MaxBars /\ 0 \in 0..MaxBars /\ 0 <= HmmBars
    BY <1>0, <1>a, <2>1, RegimeConstants
  <2>5. QED
    BY <1>b, <1>d, <1>e, <1>f, <1>g, <2>1, <2>2, <2>3, <2>4
<1>6. CASE DetectRegime \/ NoPrimaryPrice \/ Validated
  <2>1. /\ UNCHANGED <<bars, seen, trained, stampedBar, fitted, healing, known, transitions, wire, age,
                       outrun>>
        /\ turn' \in {"detect", "publish", "validate", "compare"} /\ regime' \in Names
    BY <1>6, <1>f DEF DetectRegime, NoPrimaryPrice, Validated, told, hmmVars
  <2>2. bars' \in 0..MaxBars /\ HmmBars' = HmmBars
    BY <1>0, <1>2, <1>a, <2>1
  <2>3. QED
    BY <1>b, <1>c, <1>d, <1>e, <1>f, <1>g, <2>1, <2>2
<1>7. CASE PublishRegime
  <2>1. /\ turn' = "validate" /\ regime' = seen /\ OnRegimeChange(seen)
        /\ UNCHANGED <<bars, seen, trained, stampedBar, fitted, healing, age, outrun>>
        /\ wire' = wire \/ (Len(wire) < MaxLag /\ wire' = Append(wire, Nothing))
    BY <1>7 DEF PublishRegime, hmmVars, Rebuilt
  <2>2. wire' \in Seq(Names \cup {Nothing}) /\ Len(wire') <= MaxLag
    <3>1. CASE wire' = wire
      BY <1>e, <3>1
    <3>2. CASE Len(wire) < MaxLag /\ wire' = Append(wire, Nothing)
      <4>1. wire' \in Seq(Names \cup {Nothing}) /\ Len(wire') = Len(wire) + 1 /\ Len(wire) \in Nat
        BY <1>e, <3>2
      <4>2. QED
        BY <3>2, <4>1, RegimeConstants
    <3>3. QED
      BY <2>1, <3>1, <3>2
  <2>3. known' \in Names \cup {"unknown"} /\ transitions' \in Seq(Changes) /\ Len(transitions') <= Cap
    BY <1>f, <2>1, LearnerTyped
  <2>4. bars' \in 0..MaxBars /\ HmmBars' = HmmBars
    BY <1>0, <1>2, <1>a, <2>1
  <2>5. QED
    BY <1>b, <1>c, <1>f, <1>g, <2>1, <2>2, <2>3, <2>4
<1>8. CASE ListenerDelivers
  <2>1. /\ wire # <<>> /\ wire' = Tail(wire) /\ OnRegimeChange(Head(wire))
        /\ UNCHANGED <<turn, bars, seen, trained, stampedBar, fitted, healing, age, outrun>>
        /\ regime' = IF Head(wire) = Nothing THEN regime ELSE Head(wire)
    BY <1>8 DEF ListenerDelivers, hmmVars
  <2>2. /\ Head(wire) \in Names \cup {Nothing} /\ wire' \in Seq(Names \cup {Nothing})
        /\ Len(wire') = Len(wire) - 1 /\ Len(wire) \in Nat
    BY <1>e, <2>1
  <2>3. Len(wire') <= MaxLag
    BY <1>e, <2>2, RegimeConstants
  <2>4. regime' \in Names
    BY <1>f, <2>1, <2>2
  <2>5. known' \in Names \cup {"unknown"} /\ transitions' \in Seq(Changes) /\ Len(transitions') <= Cap
    BY <2>1, <2>2, LearnerTyped
  <2>6. bars' \in 0..MaxBars /\ HmmBars' = HmmBars
    BY <1>0, <1>2, <1>a, <2>1
  <2>7. QED
    BY <1>b, <1>c, <1>f, <1>g, <2>1, <2>2, <2>3, <2>4, <2>5, <2>6
<1>9. CASE UNCHANGED regimeVars
  BY <1>2, <1>9, Zenon DEF regimeVars, hmmVars, told, RegimesTyped, RegimesTypeOK
<1>10. QED
  BY <1>3, <1>4, <1>5, <1>6, <1>7, <1>8, <1>9, FeedTyped, HmmTyped DEF RegimesNext, Calls

-----------------------------------------------------------------------------
(* The gates: fractions of the capital are compared on a common denominator. *)

LEMMA GateNumbers ==
    /\ Quotes \subseteq Nat \ {0} /\ Quotes # {} /\ IsFiniteSet(Traded)
    /\ OrderValue \in Nat \ {0} /\ StopLoss \in Nat \ {0} /\ TakeProfit \in Nat \ {0}
    /\ CvarLimit \in Nat \ {0}
<1>1. /\ Quotes \subseteq Nat \ {0} /\ Quotes # {} /\ Gate!IsFiniteSet(Traded)
      /\ {OrderValue, StopLoss, TakeProfit, CvarLimit} \subseteq Nat \ {0}
  BY DeskAssumption DEF Gate!GatesAssumption
<1>2. IsFiniteSet(Traded)
  BY <1>1 DEF Gate!IsFiniteSet, IsFiniteSet
<1>3. QED
  BY <1>1, <1>2

\* Positions have an entry price, and those whose stops were looked at since their last price
\* are within them.
GateTyped ==
    /\ price \in [Traded -> Nat \ {0}] /\ fresh \in SUBSET Traded
    /\ holding \in [Traded -> [side : {-1, 0, 1}, entry : Nat]]
    /\ \A s \in Traded : holding[s].side # 0 => holding[s].entry # 0
    /\ \A s \in fresh : holding[s].side # 0 => Gate!RiskOf(s) = "ok"

LEMMA GateStarts == Gate!Init => GateTyped
<1> SUFFICES ASSUME Gate!Init PROVE GateTyped
  OBVIOUS
<1>1. Gate!Min(Quotes) \in Nat \ {0}
  <2>1. PICK q \in Quotes : TRUE
    BY GateNumbers
  <2>2. \E m \in Quotes : \A k \in Quotes : m <= k
    BY <2>1, GateNumbers, LeastNatural
  <2>3. Gate!Min(Quotes) \in Quotes
    BY <2>2 DEF Gate!Min
  <2>4. QED
    BY <2>3, GateNumbers
<1>2. price \in [Traded -> Nat \ {0}]
  BY <1>1 DEF Gate!Init
<1>3. fresh = Traded /\ holding = [s \in Traded |-> [side |-> 0, entry |-> 0]]
  BY DEF Gate!Init, Gate!Flat
<1>4. holding \in [Traded -> [side : {-1, 0, 1}, entry : Nat]] /\ \A s \in Traded : holding[s].side = 0
  BY <1>3
<1>5. QED
  BY <1>2, <1>3, <1>4 DEF GateTyped

\* One position changes, or none; the prices stand still.
LEMMA PositionStep ==
    ASSUME GateTyped, NEW s \in Traded, NEW p \in [side : {-1, 0, 1}, entry : Nat],
           holding' = [holding EXCEPT ![s] = p], price' = price, fresh' \in {fresh, fresh \cup {s}},
           p.side # 0 => p.entry # 0, p.side # 0 => Gate!RiskOf(s)' = "ok"
    PROVE  GateTyped'
<1>1. /\ price \in [Traded -> Nat \ {0}] /\ fresh \in SUBSET Traded
      /\ holding \in [Traded -> [side : {-1, 0, 1}, entry : Nat]]
  BY DEF GateTyped
<1>2. holding' \in [Traded -> [side : {-1, 0, 1}, entry : Nat]] /\ fresh' \in SUBSET Traded
  BY <1>1
<1>3. holding'[s] = p /\ \A u \in Traded : u # s => holding'[u] = holding[u]
  BY <1>1
<1>4. ASSUME NEW u \in Traded PROVE holding'[u].side # 0 => holding'[u].entry # 0
  BY <1>3 DEF GateTyped
<1>5. ASSUME NEW u \in fresh', holding'[u].side # 0 PROVE Gate!RiskOf(u)' = "ok"
  <2>1. CASE u = s
    BY <1>3, <1>5, <2>1
  <2>2. CASE u # s
    <3>1. u \in fresh /\ holding'[u] = holding[u]
      BY <1>1, <1>3, <1>5, <2>2
    <3>2. Gate!RiskOf(u) = "ok"
      BY <1>5, <3>1 DEF GateTyped
    <3>3. Gate!RiskOf(u)' = Gate!RiskOf(u)
      BY <3>1 DEF Gate!RiskOf, Gate!Gain
    <3>4. QED
      BY <3>2, <3>3
  <2>3. QED
    BY <2>1, <2>2
<1>6. price' \in [Traded -> Nat \ {0}]
  BY <1>1
<1>7. QED
  BY <1>2, <1>4, <1>5, <1>6 DEF GateTyped

LEMMA GateStep == GateTyped /\ Gate!Next => GateTyped'
<1> SUFFICES ASSUME GateTyped, NEW s \in Traded,
                    \/ Gate!PriceMoves(s) \/ Gate!EnforceStops(s) \/ Gate!SignalCloses(s)
                    \/ \E side \in {-1, 1} : Gate!SignalOpens(s, side)
             PROVE  GateTyped'
  BY DEF Gate!Next
<1>0. /\ price \in [Traded -> Nat \ {0}] /\ fresh \in SUBSET Traded
      /\ holding \in [Traded -> [side : {-1, 0, 1}, entry : Nat]]
  BY DEF GateTyped
<1>1. CASE Gate!PriceMoves(s)
  <2>1. PICK p \in Quotes : price' = [price EXCEPT ![s] = p]
    BY <1>1 DEF Gate!PriceMoves
  <2>2. fresh' = fresh \ {s} /\ holding' = holding
    BY <1>1 DEF Gate!PriceMoves
  <2>3. p \in Nat \ {0}
    BY GateNumbers
  <2>4. price' \in [Traded -> Nat \ {0}] /\ \A u \in Traded : u # s => price'[u] = price[u]
    BY <1>0, <2>1, <2>3
  <2>5. ASSUME NEW u \in fresh', holding'[u].side # 0 PROVE Gate!RiskOf(u)' = "ok"
    <3>1. u \in fresh /\ u \in Traded /\ price'[u] = price[u] /\ holding'[u] = holding[u]
      BY <1>0, <2>2, <2>4, <2>5
    <3>2. Gate!RiskOf(u) = "ok"
      BY <2>2, <2>5, <3>1 DEF GateTyped
    <3>3. Gate!RiskOf(u)' = Gate!RiskOf(u)
      BY <3>1 DEF Gate!RiskOf, Gate!Gain
    <3>4. QED
      BY <3>2, <3>3
  <2>6. fresh' \in SUBSET Traded
    BY <1>0, <2>2
  <2>7. QED
    BY <2>2, <2>4, <2>5, <2>6 DEF GateTyped
<1>2. Gate!Flat \in [side : {-1, 0, 1}, entry : Nat] /\ Gate!Flat.side = 0
  BY DEF Gate!Flat
<1>3. CASE Gate!SignalCloses(s)
  <2>1. holding' = [holding EXCEPT ![s] = Gate!Flat] /\ UNCHANGED <<price, fresh>>
    BY <1>3 DEF Gate!SignalCloses
  <2>2. QED
    BY <1>2, <2>1, PositionStep
<1>4. CASE Gate!EnforceStops(s)
  <2>1. price' = price /\ fresh' = fresh \cup {s}
    BY <1>4 DEF Gate!EnforceStops
  <2>2. CASE Gate!RiskOf(s) = "ok"
    <3>1. holding' = holding
      BY <1>4, <2>2 DEF Gate!EnforceStops
    <3>2. Gate!RiskOf(s)' = "ok"
      BY <2>1, <2>2, <3>1 DEF Gate!RiskOf, Gate!Gain
    <3>3. holding' = [holding EXCEPT ![s] = holding[s]] /\ holding[s] \in [side : {-1, 0, 1}, entry : Nat]
          /\ (holding[s].side # 0 => holding[s].entry # 0)
      BY <1>0, <3>1 DEF GateTyped
    <3>4. QED
      BY <2>1, <3>2, <3>3, PositionStep
  <2>3. CASE Gate!RiskOf(s) # "ok"
    <3>1. holding' = [holding EXCEPT ![s] = Gate!Flat]
      BY <1>4, <2>3 DEF Gate!EnforceStops
    <3>2. QED
      BY <1>2, <2>1, <3>1, PositionStep
  <2>4. QED
    BY <2>2, <2>3
<1>5. ASSUME NEW side \in {-1, 1}, Gate!SignalOpens(s, side) PROVE GateTyped'
  <2> DEFINE p == [side |-> side, entry |-> price[s]]
  <2>1. holding' = [holding EXCEPT ![s] = p] /\ price' = price /\ fresh' = fresh \cup {s}
    BY <1>5 DEF Gate!SignalOpens
  <2>2. price[s] \in Nat \ {0}
    BY <1>0
  <2>3. p \in [side : {-1, 0, 1}, entry : Nat] /\ p.side = side /\ p.entry = price[s]
    BY <2>2
  <2>4. Gate!RiskOf(s)' = "ok"
    <3>1. holding'[s] = p
      BY <1>0, <2>1
    <3>2. Gate!Gain(s)' = side * (price[s] - price[s])
      BY <2>1, <2>3, <3>1 DEF Gate!Gain
    <3>3. Gate!Gain(s)' = 0
      BY <2>2, <3>2
    <3>4. holding'[s].entry = price[s]
      BY <2>3, <3>1
    <3>5. \A n \in Nat \ {0}, m \in Nat \ {0} : ~(100 * 0 <= -m * n) /\ ~(100 * 0 >= m * n)
      OBVIOUS
    <3>6. ~(100 * 0 <= -StopLoss * price[s]) /\ ~(100 * 0 >= TakeProfit * price[s])
      BY <2>2, <3>5, GateNumbers
    <3>7. QED
      BY <3>3, <3>4, <3>6 DEF Gate!RiskOf
  <2> HIDE DEF p
  <2>5. p.side # 0 => p.entry # 0
    BY <2>2, <2>3
  <2>6. QED
    BY <2>1, <2>3, <2>4, <2>5, PositionStep
<1>6. QED
  BY <1>1, <1>3, <1>4, <1>5

\* The signals that the conviction gate lets through, the edge gate does, and sooner too.
LEMMA EdgeIdle == Gate!EdgeGateIdle
<1> SUFFICES ASSUME NEW c \in Confidences, NEW u \in Uncertainties, NEW a \in DOMAIN Decay,
                    Gate!Convinced(u, c, a)
             PROVE  /\ Gate!EdgeLeft(c, a) /\ c >= 400
                    /\ \A b \in DOMAIN Decay : b < a => Gate!Convinced(u, c, b)
  BY DEF Gate!EdgeGateIdle
<1>1. c \in Nat /\ Decay[a] \in 0..1000
  BY DeskAssumption DEF Gate!GatesAssumption
<1>2. u <= 300 /\ c * Decay[a] >= 500 * 1000
  BY DEF Gate!Convinced, Gate!Decayed
<1>3. \A n \in Nat, d \in Nat, e \in Nat : d <= e => n * d <= n * e
  OBVIOUS
<1>4. c * Decay[a] <= c * 1000
  BY <1>1, <1>3
<1>5. c >= 400
  BY <1>1, <1>2, <1>4
<1>6. Gate!EdgeLeft(c, a)
  BY <1>1, <1>2 DEF Gate!EdgeLeft, Gate!Decayed
<1>7. ASSUME NEW b \in DOMAIN Decay, b < a PROVE Gate!Convinced(u, c, b)
  <2>1. Decay[b] \in 0..1000 /\ Decay[a] <= Decay[b]
    BY <1>7, DeskAssumption DEF Gate!GatesAssumption
  <2> DEFINE d == Decay[a]
             e == Decay[b]
  <2>6. d \in Nat /\ e \in Nat /\ d <= e
    BY <1>1, <2>1
  <2>7. \A n \in Nat, m \in Nat : n * m \in Nat
    OBVIOUS
  <2> HIDE DEF d, e
  <2>2. c * d <= c * e
    BY <1>1, <1>3, <2>6
  <2>3. c * d \in Nat /\ c * e \in Nat
    BY <1>1, <2>6, <2>7
  <2>4. c * Decay[b] >= 500 * 1000
    <3>1. c * d >= 500 * 1000
      BY <1>2 DEF d
    <3>2. c * e >= 500 * 1000
      BY <2>2, <2>3, <3>1
    <3>3. QED
      BY <3>2 DEF e
  <2>5. QED
    BY <1>2, <2>4 DEF Gate!Convinced, Gate!Decayed
<1>8. QED
  BY <1>5, <1>6, <1>7

\* Loss of an open position, as a fraction.
LEMMA LossFraction ==
    ASSUME GateTyped, NEW s \in Gate!Open
    PROVE  /\ Gate!LossOf(s) = <<Gate!LossOf(s)[1], Gate!LossOf(s)[2]>>
           /\ Gate!LossOf(s)[1] \in Nat /\ Gate!LossOf(s)[2] \in Nat \ {0}
           /\ Gate!Gain(s) \in Int /\ (Gate!Gain(s) >= 0 => Gate!LossOf(s)[1] = 0)
           /\ (Gate!Gain(s) < 0 => /\ Gate!LossOf(s)[1] = OrderValue * (-Gate!Gain(s))
                                   /\ Gate!LossOf(s)[2] = holding[s].entry)
           /\ holding[s].entry \in Nat \ {0}
<1>1. /\ s \in Traded /\ holding[s].side \in {-1, 0, 1} /\ holding[s].entry \in Nat \ {0}
      /\ price[s] \in Nat
  BY DEF GateTyped, Gate!Open
<1>2. Gate!Gain(s) \in Int
  BY <1>1 DEF Gate!Gain
<1>3. CASE Gate!Gain(s) < 0
  <2>1. Gate!LossOf(s) = <<OrderValue * (-Gate!Gain(s)), holding[s].entry>>
    BY <1>3 DEF Gate!LossOf
  <2>2. \A n \in Nat, m \in Nat : n * m \in Nat
    OBVIOUS
  <2>3. OrderValue * (-Gate!Gain(s)) \in Nat
    BY <1>2, <1>3, <2>2, GateNumbers
  <2>4. QED
    BY <1>1, <1>2, <1>3, <2>1, <2>3
<1>4. CASE ~(Gate!Gain(s) < 0)
  <2>1. Gate!LossOf(s) = <<0, 1>>
    BY <1>4 DEF Gate!LossOf
  <2>2. QED
    BY <1>1, <1>2, <1>4, <2>1
<1>5. QED
  BY <1>3, <1>4

LEMMA CommonDenominator ==
    ASSUME NEW S, IsFiniteSet(S), NEW D, \A s \in S : D[s] \in Nat \ {0}
    PROVE  \E k \in Nat \ {0} : \A s \in S : \E m \in Nat : k = m * D[s]
<1> DEFINE Good == {T \in SUBSET S : \E k \in Nat \ {0} : \A s \in T : \E m \in Nat : k = m * D[s]}
<1>1. {} \in Good
  OBVIOUS
<1>2. ASSUME NEW T \in SUBSET S, NEW x \in T, T \ {x} \in Good PROVE T \in Good
  <2>1. PICK k \in Nat \ {0} : \A s \in T \ {x} : \E m \in Nat : k = m * D[s]
    BY <1>2
  <2>2. D[x] \in Nat \ {0}
    OBVIOUS
  <2>3. \A n \in Nat \ {0}, m \in Nat \ {0} : n * m \in Nat \ {0}
    OBVIOUS
  <2>4. k * D[x] \in Nat \ {0}
    BY <2>2, <2>3
  <2>5. ASSUME NEW s \in T PROVE \E m \in Nat : k * D[x] = m * D[s]
    <3>1. CASE s = x
      BY <3>1
    <3>2. CASE s # x
      <4>1. PICK m \in Nat : k = m * D[s]
        BY <2>1, <3>2
      <4>2. D[s] \in Nat \ {0}
        OBVIOUS
      <4>3. \A a \in Nat, b \in Nat, c \in Nat : (a * b) * c = (a * c) * b /\ a * c \in Nat
        OBVIOUS
      <4>4. k * D[x] = (m * D[x]) * D[s] /\ m * D[x] \in Nat
        BY <2>2, <4>1, <4>2, <4>3
      <4>5. QED
        BY <4>4
    <3>3. QED
      BY <3>1, <3>2
  <2>6. QED
    BY <2>4, <2>5
<1>3. \A T \in SUBSET S : T \in Good
  <2> HIDE DEF Good
  <2>1. Good \in SUBSET SUBSET S
    BY DEF Good
  <2>2. QED
    BY <1>1, <1>2, <2>1, SubsetInduction
<1>4. S \in Good
  BY <1>3
<1>5. QED
  BY <1>4

\* The losses of the open positions in units of 1/k of the capital.
Weighs(w, k) ==
    /\ k \in Nat \ {0} /\ w \in [Gate!Open -> Nat]
    /\ \A s \in Gate!Open : Gate!LossOf(s)[1] * k = w[s] * Gate!LossOf(s)[2]

LEMMA OpenFinite == IsFiniteSet(Gate!Open)
<1>1. Gate!Open \subseteq Traded
  BY DEF Gate!Open
<1>2. QED
  BY <1>1, GateNumbers, FS_Subset

LEMMA WeightsExist == ASSUME GateTyped PROVE \E w, k : Weighs(w, k)
<1> DEFINE D == [s \in Gate!Open |-> Gate!LossOf(s)[2]]
<1>1. \A s \in Gate!Open : D[s] \in Nat \ {0}
  BY LossFraction
<1>2. PICK k \in Nat \ {0} : \A s \in Gate!Open : \E m \in Nat : k = m * D[s]
  <2> HIDE DEF D
  <2>1. QED
    BY <1>1, OpenFinite, CommonDenominator
<1> DEFINE m == [s \in Gate!Open |-> CHOOSE n \in Nat : k = n * D[s]]
           w == [s \in Gate!Open |-> Gate!LossOf(s)[1] * m[s]]
<1>3. ASSUME NEW s \in Gate!Open
      PROVE  w[s] \in Nat /\ Gate!LossOf(s)[1] * k = w[s] * Gate!LossOf(s)[2]
  <2>1. m[s] \in Nat /\ k = m[s] * D[s]
    BY <1>2
  <2>2. D[s] = Gate!LossOf(s)[2] /\ w[s] = Gate!LossOf(s)[1] * m[s]
    OBVIOUS
  <2>3. Gate!LossOf(s)[1] \in Nat /\ Gate!LossOf(s)[2] \in Nat
    BY LossFraction
  <2>4. \A a \in Nat, b \in Nat, c \in Nat : a * (b * c) = (a * b) * c /\ a * b \in Nat
    OBVIOUS
  <2> HIDE DEF m, w, D
  <2>5. QED
    BY <2>1, <2>2, <2>3, <2>4
<1>4. w \in [Gate!Open -> Nat]
  <2>1. w = [s \in Gate!Open |-> w[s]]
    OBVIOUS
  <2> HIDE DEF w
  <2>2. QED
    BY <1>3, <2>1
<1>5. Weighs(w, k)
  <2> HIDE DEF w
  <2>1. QED
    BY <1>3, <1>4 DEF Weighs
<1>6. QED
  BY <1>5

\* f is worth n of k, and so on for what is added to it.
LEMMA WorthAdds ==
    ASSUME NEW k \in Nat, NEW a \in Nat, NEW b \in Nat, NEW n \in Nat, a * k = n * b,
           NEW c \in Nat, NEW d \in Nat, NEW m \in Nat, c * k = m * d
    PROVE  (a * d + c * b) * k = (m + n) * (b * d)
<1>1. (a * d + c * b) * k = (a * k) * d + (c * k) * b
  OBVIOUS
<1>2. (n * b) * d + (m * d) * b = (m + n) * (b * d)
  OBVIOUS
<1>3. QED
  BY <1>1, <1>2

\* The fraction that TailOf computes, in the order of the fold, is worth the sum of the weights.
LEMMA TailWorth ==
    ASSUME GateTyped, NEW w, NEW k, Weighs(w, k), NEW S \in SUBSET Gate!Open
    PROVE  /\ Gate!TailOf(S)[1] \in Nat /\ Gate!TailOf(S)[2] \in Nat \ {0}
           /\ SumFunctionOnSet(w, S) \in Nat
           /\ Gate!TailOf(S)[1] * k = SumFunctionOnSet(w, S) * Gate!TailOf(S)[2]
<1> DEFINE pick == [T \in SUBSET S |-> CHOOSE x \in T : TRUE]
           Fractions == Nat \X (Nat \ {0})
           Defines(g) == g = [T \in SUBSET S |-> IF T = {} THEN <<0, 1>>
                                ELSE Gate!Plus(g[T \ {CHOOSE x \in T : TRUE}], Gate!LossOf(CHOOSE x \in T : TRUE))]
           tail == CHOOSE g : Defines(g)
           step == [p \in S \X Fractions |-> Gate!Plus(p[2], Gate!LossOf(p[1]))]
           Good == {T \in SUBSET S : /\ tail[T] \in Fractions /\ SumFunctionOnSet(w, T) \in Nat
                                     /\ tail[T][1] * k = SumFunctionOnSet(w, T) * tail[T][2]}
<1>1. Gate!TailOf(S) = tail[S]
  BY DEF Gate!TailOf, Gate!FoldSet, Gate!MapThenFoldSet
<1>2. Picks(pick, S)
  BY DEF Picks
<1>3. IsFiniteSet(S) /\ \A T \in SUBSET S : IsFiniteSet(T)
  BY OpenFinite, FS_Subset
<1>4. ASSUME NEW x \in S, NEW f \in Fractions
      PROVE  /\ Gate!Plus(f, Gate!LossOf(x)) \in Fractions
             /\ Gate!Plus(f, Gate!LossOf(x))[1] = f[1] * Gate!LossOf(x)[2] + Gate!LossOf(x)[1] * f[2]
             /\ Gate!Plus(f, Gate!LossOf(x))[2] = f[2] * Gate!LossOf(x)[2]
  <2>1. Gate!LossOf(x)[1] \in Nat /\ Gate!LossOf(x)[2] \in Nat \ {0}
    BY LossFraction
  <2>2. f[1] \in Nat /\ f[2] \in Nat \ {0}
    OBVIOUS
  <2>3. Gate!Plus(f, Gate!LossOf(x))
          = <<f[1] * Gate!LossOf(x)[2] + Gate!LossOf(x)[1] * f[2], f[2] * Gate!LossOf(x)[2]>>
    BY DEF Gate!Plus
  <2>4. \A a \in Nat, b \in Nat, c \in Nat, d \in Nat : a * b + c * d \in Nat
    OBVIOUS
  <2>5. \A a \in Nat \ {0}, b \in Nat \ {0} : a * b \in Nat \ {0}
    OBVIOUS
  <2>6. /\ f[1] * Gate!LossOf(x)[2] + Gate!LossOf(x)[1] * f[2] \in Nat
        /\ f[2] * Gate!LossOf(x)[2] \in Nat \ {0}
    BY <2>1, <2>2, <2>4, <2>5
  <2>7. QED
    BY <2>3, <2>6
<1>5. Defines(tail)
  <2>1. step \in [S \X Fractions -> Fractions] /\ <<0, 1>> \in Fractions
    BY <1>4
  <2>2. \E g \in [SUBSET S -> Fractions] : Folding(g, S, <<0, 1>>, step, pick)
    <3> HIDE DEF step, pick, Fractions
    <3>1. QED
      BY <1>2, <1>3, <2>1, FoldExists
  <2>3. PICK g \in [SUBSET S -> Fractions] : Folding(g, S, <<0, 1>>, step, pick)
    BY <2>2
  <2>4. ASSUME NEW T \in SUBSET S, T # {}
        PROVE  step[<<pick[T], g[T \ {pick[T]}]>>]
                 = Gate!Plus(g[T \ {CHOOSE x \in T : TRUE}], Gate!LossOf(CHOOSE x \in T : TRUE))
    <3>1. pick[T] = (CHOOSE x \in T : TRUE) /\ pick[T] \in S
      BY <2>4
    <3>2. g[T \ {pick[T]}] \in Fractions
      BY <2>3
    <3> HIDE DEF pick, Fractions
    <3>3. QED
      BY <3>1, <3>2
  <2>5. Defines(g)
    <3> HIDE DEF step, pick
    <3>1. g = [T \in SUBSET S |-> IF T = {} THEN <<0, 1>> ELSE step[<<pick[T], g[T \ {pick[T]}]>>]]
      BY <2>3 DEF Folding
    <3>2. QED
      BY <2>4, <3>1
  <2> HIDE DEF Defines
  <2>6. QED
    BY <2>5
<1>6. tail[{}] = <<0, 1>>
  BY <1>5
<1>7. ASSUME NEW T \in SUBSET S, T # {}
      PROVE  pick[T] \in T /\ tail[T] = Gate!Plus(tail[T \ {pick[T]}], Gate!LossOf(pick[T]))
  BY <1>5, <1>7
<1>8. /\ k \in Nat /\ w \in [Gate!Open -> Nat]
      /\ \A s \in Gate!Open : Gate!LossOf(s)[1] * k = w[s] * Gate!LossOf(s)[2]
  BY DEF Weighs
<1> HIDE DEF tail, pick
<1>9. \A T \in SUBSET S : T \in Good
  <2>1. {} \in Good
    <3>1. SumFunctionOnSet(w, {}) = 0
      BY SumOnEmpty
    <3>2. tail[{}][1] = 0 /\ tail[{}][2] = 1 /\ tail[{}] \in Fractions
      BY <1>6
    <3>3. 0 * k = 0 * 1
      BY <1>8
    <3> HIDE DEF Fractions
    <3>4. QED
      BY <3>1, <3>2, <3>3
  <2>2. ASSUME NEW T \in SUBSET S, T # {}, T \ {pick[T]} \in Good PROVE T \in Good
    <3> DEFINE x == pick[T]
               R == T \ {x}
               l == Gate!LossOf(x)
               f == tail[R]
               n == SumFunctionOnSet(w, R)
    <3>1. x \in T /\ tail[T] = Gate!Plus(f, l)
      BY <1>7, <2>2
    <3>2. R \in Good
      BY <2>2
    <3>3. f \in Fractions /\ n \in Nat /\ f[1] * k = n * f[2]
      BY <3>2
    <3>4. SumFunctionOnSet(w, T) = w[x] + n
      <4>1. \A v \in T : w[v] \in Int
        BY <1>8
      <4>2. QED
        BY <1>3, <3>1, <4>1, SumOnOne
    <3>5. w[x] \in Nat /\ l[1] * k = w[x] * l[2]
      BY <1>8, <3>1
    <3>6. /\ tail[T] \in Fractions
          /\ tail[T][1] = f[1] * l[2] + l[1] * f[2] /\ tail[T][2] = f[2] * l[2]
      BY <1>4, <3>1, <3>3
    <3>7. l[1] \in Nat /\ l[2] \in Nat
      BY <3>1, LossFraction
    <3>8. f[1] \in Nat /\ f[2] \in Nat
      BY <3>3
    <3> HIDE DEF l, f, n, x, R
    <3>9. (f[1] * l[2] + l[1] * f[2]) * k = (w[x] + n) * (f[2] * l[2])
      <4> DEFINE a == f[1]
                 b == f[2]
                 c == l[1]
                 d == l[2]
                 m == w[x]
      <4>1. a \in Nat /\ b \in Nat /\ c \in Nat /\ d \in Nat /\ m \in Nat
        BY <3>5, <3>7, <3>8
      <4>2. a * k = n * b /\ c * k = m * d
        BY <3>3, <3>5
      <4> HIDE DEF a, b, c, d, m
      <4>3. (a * d + c * b) * k = (m + n) * (b * d)
        BY <1>8, <3>3, <4>1, <4>2, WorthAdds
      <4>4. QED
        BY <4>3 DEF a, b, c, d, m
    <3>10. tail[T][1] * k = SumFunctionOnSet(w, T) * tail[T][2]
      BY <3>4, <3>6, <3>9
    <3>11. SumFunctionOnSet(w, T) \in Nat
      BY <3>3, <3>4, <3>5
    <3> HIDE DEF Fractions
    <3>12. QED
      BY <3>6, <3>10, <3>11
  <2>3. Good \in SUBSET SUBSET S
    OBVIOUS
  <2> HIDE DEF Good
  <2>4. QED
    BY <1>2, <1>3, <2>1, <2>2, <2>3, PickInduction
<1>10. QED
  BY <1>1, <1>9
LEMMA CrossMultiplied ==
    ASSUME NEW a \in Nat, NEW n \in Nat, NEW b \in Nat \ {0}, NEW k \in Nat \ {0}, a * k = n * b,
           NEW c \in Nat, NEW d \in Nat
    PROVE  c * a <= d * b <=> c * n <= d * k
<1>1. ASSUME NEW x \in Nat, NEW y \in Nat, NEW m \in Nat \ {0} PROVE x * m <= y * m <=> x <= y
  BY Cancels
<1>2. /\ c * a \in Nat /\ d * b \in Nat /\ c * n \in Nat /\ d * k \in Nat
  OBVIOUS
<1>3. (c * a) * k = (c * n) * b
  <2>1. (c * a) * k = c * (a * k) /\ (c * n) * b = c * (n * b)
    OBVIOUS
  <2>2. QED
    BY <2>1
<1>4. (d * b) * k = (d * k) * b
  OBVIOUS
<1>5. c * a <= d * b <=> (c * a) * k <= (d * b) * k
  BY <1>1, <1>2
<1>6. c * n <= d * k <=> (c * n) * b <= (d * k) * b
  BY <1>1, <1>2
<1>7. QED
  BY <1>3, <1>4, <1>5, <1>6

\* The tail is bearable when the weights are.
LEMMA BearableWorth ==
    ASSUME GateTyped, NEW w, NEW k, Weighs(w, k), NEW S \in SUBSET Gate!Open
    PROVE  Gate!Bearable(Gate!TailOf(S)) <=> 24675 * SumFunctionOnSet(w, S) <= (10000 * CvarLimit) * k
<1> DEFINE a == Gate!TailOf(S)[1]
           b == Gate!TailOf(S)[2]
           n == SumFunctionOnSet(w, S)
           d == 10000 * CvarLimit
<1>1. a \in Nat /\ b \in Nat \ {0} /\ n \in Nat /\ a * k = n * b
  BY TailWorth
<1>2. k \in Nat \ {0} /\ d \in Nat
  BY GateNumbers DEF Weighs
<1>3. Gate!Bearable(Gate!TailOf(S)) <=> 24675 * a <= d * b
  BY DEF Gate!Bearable
<1> HIDE DEF a, b, n, d
<1>4. 24675 * a <= d * b <=> 24675 * n <= d * k
  BY <1>1, <1>2, CrossMultiplied
<1>5. QED
  BY <1>3, <1>4 DEF n, d

LEMMA OpenWeights ==
    ASSUME GateTyped, NEW w, NEW k, Weighs(w, k)
    PROVE  \A S \in SUBSET Gate!Open : /\ IsFiniteSet(S) /\ SumFunctionOnSet(w, S) \in Nat
                                       /\ \A s \in S : w[s] \in Nat /\ w[s] \in Int
<1> SUFFICES ASSUME NEW S \in SUBSET Gate!Open
             PROVE  /\ IsFiniteSet(S) /\ SumFunctionOnSet(w, S) \in Nat
                    /\ \A s \in S : w[s] \in Nat /\ w[s] \in Int
  OBVIOUS
<1>1. IsFiniteSet(S)
  BY OpenFinite, FS_Subset
<1>2. \A s \in S : w[s] \in Nat /\ w[s] \in Int
  BY DEF Weighs
<1>3. SumFunctionOnSet(w, S) \in Nat
  BY TailWorth
<1>4. QED
  BY <1>1, <1>2, <1>3

\* Winners weigh nothing, and losers something.
LEMMA TailGrows == GateTyped => Gate!TailGrowsWithLosers
<1> SUFFICES ASSUME GateTyped, NEW some \in SUBSET Gate!Open
             PROVE  LET added == Gate!Open \ some
                    IN  /\ (\A s \in added : Gate!Gain(s) >= 0)
                             => Gate!Bearable(Gate!TailOf(some)) = Gate!TailRiskAllows
                        /\ (\A s \in added : Gate!Gain(s) <= 0)
                             => (Gate!TailRiskAllows => Gate!Bearable(Gate!TailOf(some)))
  BY DEF Gate!TailGrowsWithLosers
<1> DEFINE added == Gate!Open \ some
<1>1. PICK w, k : Weighs(w, k)
  BY WeightsExist
<1> DEFINE W(S) == SumFunctionOnSet(w, S)
           limit == (10000 * CvarLimit) * k
           all == W(Gate!Open)
           part == W(some)
           rest == W(added)
<1>2. some \subseteq Gate!Open /\ added \subseteq Gate!Open
  OBVIOUS
<1>3. all \in Nat /\ part \in Nat /\ rest \in Nat
  BY <1>1, <1>2, OpenWeights
<1>4. all = part + rest
  BY <1>1, <1>2, OpenWeights, SumOnSplit
<1>5. /\ Gate!TailRiskAllows <=> 24675 * all <= limit
      /\ Gate!Bearable(Gate!TailOf(some)) <=> 24675 * part <= limit
  BY <1>1, <1>2, BearableWorth DEF Gate!TailRiskAllows
<1>6. limit \in Int
  <2>1. k \in Nat
    BY <1>1 DEF Weighs
  <2>2. \A a \in Nat, b \in Nat : (10000 * a) * b \in Int
    OBVIOUS
  <2>3. QED
    BY <2>1, <2>2, GateNumbers
<1>7. Gate!TailRiskAllows => Gate!Bearable(Gate!TailOf(some))
  <2> HIDE DEF all, part, rest, limit
  <2>1. QED
    BY <1>3, <1>4, <1>5, <1>6
<1>8. ASSUME \A s \in added : Gate!Gain(s) >= 0
      PROVE  Gate!Bearable(Gate!TailOf(some)) <=> Gate!TailRiskAllows
  <2>1. ASSUME NEW s \in added PROVE w[s] = 0
    <3>1. s \in Gate!Open /\ Gate!LossOf(s)[1] = 0 /\ Gate!LossOf(s)[2] \in Nat \ {0}
      BY <1>8, LossFraction
    <3>2. w[s] \in Nat /\ k \in Nat /\ Gate!LossOf(s)[1] * k = w[s] * Gate!LossOf(s)[2]
      BY <1>1, <3>1 DEF Weighs
    <3>3. \A a \in Nat, b \in Nat \ {0}, c \in Nat : 0 * c = a * b => a = 0
      OBVIOUS
    <3>4. QED
      BY <3>1, <3>2, <3>3
  <2>2. rest = 0 * Cardinality(added)
    BY <1>1, <1>2, <2>1, OpenWeights, SumOnConstant
  <2>3. Cardinality(added) \in Nat
    BY <1>1, <1>2, OpenWeights, FS_CardinalityType
  <2>4. rest = 0
    BY <2>2, <2>3
  <2> HIDE DEF all, part, rest, limit
  <2>5. all = part
    BY <1>3, <1>4, <2>4
  <2>6. QED
    BY <1>5, <2>5
<1>9. Gate!TailRiskAllows \in BOOLEAN /\ Gate!Bearable(Gate!TailOf(some)) \in BOOLEAN
  BY DEF Gate!TailRiskAllows, Gate!Bearable
<1> HIDE DEF added
<1>10. QED
  BY <1>7, <1>8, <1>9 DEF added
\* In units small enough, no position within its stop weighs more than the stop of its value.
LEMMA StopWeights ==
    ASSUME GateTyped, Gate!Open \subseteq fresh
    PROVE  \E v, j : /\ j \in Nat \ {0} /\ Weighs(v, 100 * j)
                     /\ \A s \in Gate!Open : v[s] <= (OrderValue * StopLoss) * j
<1>1. PICK w, k : Weighs(w, k)
  BY WeightsExist
<1>2. /\ k \in Nat \ {0} /\ w \in [Gate!Open -> Nat]
      /\ \A s \in Gate!Open : Gate!LossOf(s)[1] * k = w[s] * Gate!LossOf(s)[2]
  BY <1>1 DEF Weighs
<1> DEFINE v == [s \in Gate!Open |-> 100 * w[s]]
<1>3. ASSUME NEW s \in Gate!Open
      PROVE  v[s] \in Nat /\ Gate!LossOf(s)[1] * (100 * k) = v[s] * Gate!LossOf(s)[2]
  <2> DEFINE a == Gate!LossOf(s)[1]
             b == Gate!LossOf(s)[2]
             n == w[s]
  <2>1. a \in Nat /\ b \in Nat /\ n \in Nat /\ a * k = n * b /\ v[s] = 100 * n
    BY <1>2, LossFraction
  <2> HIDE DEF a, b, n, v
  <2>2. a * (100 * k) = 100 * (a * k) /\ (100 * n) * b = 100 * (n * b)
    BY <1>2, <2>1
  <2>3. a * (100 * k) = v[s] * b /\ v[s] \in Nat
    BY <2>1, <2>2
  <2>4. QED
    BY <2>3 DEF a, b
<1>4. Weighs(v, 100 * k)
  <2>1. v = [s \in Gate!Open |-> v[s]]
    OBVIOUS
  <2> HIDE DEF v
  <2>2. v \in [Gate!Open -> Nat] /\ 100 * k \in Nat \ {0}
    BY <1>2, <1>3, <2>1
  <2>3. QED
    BY <1>3, <2>2 DEF Weighs
<1>5. ASSUME NEW s \in Gate!Open PROVE v[s] <= (OrderValue * StopLoss) * k
  <2> DEFINE a == Gate!LossOf(s)[1]
             b == Gate!LossOf(s)[2]
             loss == -Gate!Gain(s)
  <2>1. a \in Nat /\ b \in Nat \ {0} /\ v[s] \in Nat /\ a * (100 * k) = v[s] * b
    BY <1>3, LossFraction
  <2>2. /\ Gate!Gain(s) \in Int /\ (Gate!Gain(s) >= 0 => a = 0)
        /\ (Gate!Gain(s) < 0 => a = OrderValue * loss /\ b = holding[s].entry)
        /\ holding[s].entry \in Nat \ {0}
    BY LossFraction
  <2>3. OrderValue \in Nat /\ StopLoss \in Nat
    BY GateNumbers
  <2>4. (OrderValue * StopLoss) * k \in Nat
    <3>1. \A n \in Nat, m \in Nat, q \in Nat : (n * m) * q \in Nat
      OBVIOUS
    <3>2. QED
      BY <1>2, <2>3, <3>1
  <2>5. CASE Gate!Gain(s) >= 0
    <3>1. a = 0
      BY <2>2, <2>5
    <3> HIDE DEF a, b, v, loss
    <3>2. \A x \in Nat, n \in Nat \ {0}, m \in Nat : 0 * m = x * n => x = 0
      OBVIOUS
    <3>3. 100 * k \in Nat
      BY <1>2
    <3>4. 0 * (100 * k) = v[s] * b
      BY <2>1, <3>1
    <3>5. v[s] = 0
      BY <2>1, <3>2, <3>3, <3>4
    <3>6. QED
      BY <2>4, <3>5
  <2>6. CASE Gate!Gain(s) < 0
    <3>1. Gate!RiskOf(s) = "ok"
      <4>1. s \in fresh /\ holding[s].side # 0
        BY DEF Gate!Open
      <4>2. QED
        BY <4>1 DEF GateTyped
    <3>2. ~(100 * Gate!Gain(s) <= -StopLoss * holding[s].entry)
      BY <3>1 DEF Gate!RiskOf
    <3>3. loss \in Nat /\ Gate!Gain(s) = -loss /\ a = OrderValue * loss /\ b = holding[s].entry
      BY <2>2, <2>6
    <3> HIDE DEF a, b, v, loss
    <3>4. 100 * loss <= StopLoss * b
      <4>1. \A n \in Nat, m \in Nat, q \in Nat : ~(100 * (-n) <= -m * q) => 100 * n <= m * q
        OBVIOUS
      <4>2. ~(100 * (-loss) <= -StopLoss * b)
        BY <3>2, <3>3
      <4>3. QED
        BY <2>1, <2>3, <3>3, <4>1, <4>2
    <3>5. OrderValue * k \in Nat /\ 100 * loss \in Nat /\ StopLoss * b \in Nat
      <4>1. \A n \in Nat, m \in Nat : n * m \in Nat
        OBVIOUS
      <4>2. QED
        BY <1>2, <2>1, <2>3, <3>3, <4>1
    <3>6. (OrderValue * k) * (100 * loss) <= (OrderValue * k) * (StopLoss * b)
      <4>1. \A n \in Nat, m \in Nat, q \in Nat : m <= q => n * m <= n * q
        OBVIOUS
      <4> DEFINE n == OrderValue * k
                 m == 100 * loss
                 q == StopLoss * b
      <4>2. n \in Nat /\ m \in Nat /\ q \in Nat /\ m <= q
        BY <3>4, <3>5
      <4> HIDE DEF n, m, q
      <4>3. n * m <= n * q
        BY <4>1, <4>2
      <4>4. QED
        BY <4>3 DEF n, m, q
    <3>7. v[s] * b = (OrderValue * k) * (100 * loss)
      <4>1. (OrderValue * loss) * (100 * k) = (OrderValue * k) * (100 * loss)
        BY <1>2, <2>3, <3>3
      <4>2. QED
        BY <2>1, <3>3, <4>1
    <3>8. (OrderValue * k) * (StopLoss * b) = ((OrderValue * StopLoss) * k) * b
      BY <1>2, <2>1, <2>3
    <3>9. v[s] * b <= ((OrderValue * StopLoss) * k) * b
      BY <3>6, <3>7, <3>8
    <3>10. \A x \in Nat, y \in Nat, m \in Nat \ {0} : x * m <= y * m => x <= y
      <4> SUFFICES ASSUME NEW x \in Nat, NEW y \in Nat, NEW m \in Nat \ {0}, x * m <= y * m, x > y
                   PROVE  FALSE
        OBVIOUS
      <4>1. y * m + m <= x * m
        <5>1. y + 1 <= x
          OBVIOUS
        <5>2. (y + 1) * m <= x * m
          BY <5>1
        <5>3. (y + 1) * m = y * m + m
          OBVIOUS
        <5>4. QED
          BY <5>2, <5>3
      <4>2. y * m \in Nat /\ x * m \in Nat
        OBVIOUS
      <4>3. QED
        BY <4>1, <4>2
    <3> DEFINE y == (OrderValue * StopLoss) * k
    <3>11. y \in Nat /\ v[s] * b <= y * b
      BY <2>4, <3>9
    <3> HIDE DEF y
    <3>12. v[s] <= y
      BY <2>1, <3>10, <3>11
    <3>13. QED
      BY <3>12 DEF y
  <2>7. QED
    BY <2>2, <2>5, <2>6
<1> HIDE DEF v
<1>6. QED
  BY <1>2, <1>4, <1>5

LEMMA StopsFree == GateTyped => Gate!StopsFreeTheGate
<1> SUFFICES ASSUME GateTyped, Gate!Open \subseteq fresh
             PROVE  /\ \A s \in Gate!Open : Gate!RiskOf(s) = "ok"
                    /\ 24675 * Gate!Cardinality(Gate!Open) * OrderValue * StopLoss <= 1000000 * CvarLimit
                         => Gate!TailRiskAllows
  BY DEF Gate!StopsFreeTheGate
<1>1. ASSUME NEW s \in Gate!Open PROVE Gate!RiskOf(s) = "ok"
  <2>1. s \in fresh /\ holding[s].side # 0
    BY DEF Gate!Open
  <2>2. QED
    BY <2>1 DEF GateTyped
<1>2. ASSUME 24675 * Gate!Cardinality(Gate!Open) * OrderValue * StopLoss <= 1000000 * CvarLimit
      PROVE  Gate!TailRiskAllows
  <2>1. PICK v, k : /\ k \in Nat \ {0} /\ Weighs(v, 100 * k)
                    /\ \A s \in Gate!Open : v[s] <= (OrderValue * StopLoss) * k
    BY StopWeights
  <2> DEFINE n == Cardinality(Gate!Open)
             W == SumFunctionOnSet(v, Gate!Open)
             most == (OrderValue * StopLoss) * k
             F == [s \in Gate!Open |-> most]
  <2>2. n \in Nat /\ W \in Nat /\ IsFiniteSet(Gate!Open)
    BY <2>1, OpenFinite, FS_CardinalityType, OpenWeights
  <2>3. Gate!Cardinality(Gate!Open) = n
    BY DEF Gate!Cardinality, Cardinality, Gate!IsFiniteSet, IsFiniteSet
  <2>4. OrderValue \in Nat /\ StopLoss \in Nat /\ CvarLimit \in Nat
    BY GateNumbers
  <2>5. most \in Nat /\ most \in Int
    <3>1. \A a \in Nat, b \in Nat, c \in Nat : (a * b) * c \in Nat /\ (a * b) * c \in Int
      OBVIOUS
    <3>2. QED
      BY <2>1, <2>4, <3>1
  <2>6. W <= SumFunctionOnSet(F, Gate!Open) /\ SumFunctionOnSet(F, Gate!Open) = most * n
    <3> HIDE DEF most
    <3>1. \A s \in Gate!Open : F[s] = most
      OBVIOUS
    <3>2. \A s \in Gate!Open : v[s] \in Int
      BY <2>1, OpenWeights
    <3>3. \A s \in Gate!Open : v[s] <= most
      BY <2>1 DEF most
    <3> HIDE DEF F
    <3>4. W <= SumFunctionOnSet(F, Gate!Open)
      BY <2>2, <2>5, <3>1, <3>2, <3>3, SumOnGrows
    <3>5. SumFunctionOnSet(F, Gate!Open) = most * n
      BY <2>2, <2>5, <3>1, SumOnConstant
    <3>6. QED
      BY <3>4, <3>5
  <2>7. Gate!TailRiskAllows <=> 24675 * W <= (10000 * CvarLimit) * (100 * k)
    BY <2>1, BearableWorth DEF Gate!TailRiskAllows
  <2>8. ((24675 * n) * OrderValue) * StopLoss <= 1000000 * CvarLimit
    BY <1>2, <2>3
  <2>9. W <= most * n
    BY <2>6
  <2> HIDE DEF n, W, F
  <2>10. (((24675 * n) * OrderValue) * StopLoss) * k <= (1000000 * CvarLimit) * k
    <3> DEFINE a == ((24675 * n) * OrderValue) * StopLoss
               b == 1000000 * CvarLimit
    <3>1. \A x \in Nat, y \in Nat, c \in Nat : ((24675 * x) * y) * c \in Nat
      OBVIOUS
    <3>2. a \in Nat /\ b \in Nat /\ a <= b
      BY <2>2, <2>4, <2>8, <3>1
    <3> HIDE DEF a, b
    <3>3. \A x \in Nat, y \in Nat, c \in Nat : x <= y => x * c <= y * c
      OBVIOUS
    <3>4. a * k <= b * k
      BY <2>1, <3>2, <3>3
    <3>5. QED
      BY <3>4 DEF a, b
  <2>11. (((24675 * n) * OrderValue) * StopLoss) * k = 24675 * (most * n)
    BY <2>1, <2>2, <2>4 DEF most
  <2>12. (1000000 * CvarLimit) * k = (10000 * CvarLimit) * (100 * k)
    BY <2>1, <2>4
  <2>13. 24675 * W <= 24675 * (most * n)
    <3>1. most * n \in Nat
      <4>1. \A x \in Nat, y \in Nat : x * y \in Nat
        OBVIOUS
      <4> HIDE DEF most
      <4>2. QED
        BY <2>2, <2>5, <4>1
    <3>2. QED
      BY <2>2, <2>9, <3>1
  <2>14. 24675 * W <= (10000 * CvarLimit) * (100 * k)
    <3> DEFINE p == 24675 * (most * n)
               q == (10000 * CvarLimit) * (100 * k)
    <3>1. p \in Int /\ q \in Int
      <4>1. \A x \in Nat, y \in Nat : 24675 * (x * y) \in Int /\ (10000 * x) * (100 * y) \in Int
        OBVIOUS
      <4> HIDE DEF most
      <4>2. QED
        BY <2>1, <2>2, <2>4, <2>5, <4>1
    <3>2. p <= q /\ 24675 * W <= p
      BY <2>10, <2>11, <2>12, <2>13
    <3> HIDE DEF p, q
    <3>3. 24675 * W <= q
      BY <2>2, <3>1, <3>2
    <3>4. QED
      BY <3>3 DEF q
  <2>15. QED
    BY <2>7, <2>14
<1>3. QED
  BY <1>1, <1>2
-----------------------------------------------------------------------------
(* The voices. *)

LEMMA SignalNumbers ==
    /\ Prices \subseteq Nat \ {0} /\ FastWindow \in Nat \ {0} /\ SlowWindow \in Nat \ {0}
<1>1. /\ Prices \subseteq Nat \ {0} /\ {FastWindow, SlowWindow, Period, Window} \subseteq Nat \ {0}
  BY DeskAssumption DEF Signal!SignalsAssumption
<1>2. QED
  BY <1>1

LEMMA SumOfIntegers == ASSUME NEW s \in Seq(Int) PROVE Signal!Sum(s) \in Int
<1> DEFINE S == DOMAIN s
           pick == [T \in SUBSET S |-> Signal!Max(T)]
           Defines(g) == g = [T \in SUBSET S |-> IF T = {} THEN 0
                                ELSE g[T \ {Signal!Max(T)}] + s[Signal!Max(T)]]
           sum == CHOOSE g : Defines(g)
           step == [p \in S \X Int |-> p[2] + s[p[1]]]
           Good == {T \in SUBSET S : sum[T] \in Int}
<1>1. Signal!Sum(s) = sum[S]
  BY DEF Signal!Sum, Signal!FoldLeft, Signal!MapThenFoldSet
<1>2. S = 1..Len(s) /\ Len(s) \in Nat /\ IsFiniteSet(S) /\ \A i \in S : s[i] \in Int
  BY FS_Interval
<1>3. ASSUME NEW T \in SUBSET S, T # {} PROVE Signal!Max(T) \in T
  <2>1. \E m \in T : \A k \in T : k <= m
    BY <1>2, <1>3, Greatest
  <2>2. QED
    BY <2>1 DEF Signal!Max
<1>4. Picks(pick, S) /\ \A T \in SUBSET S : pick[T] = Signal!Max(T)
  BY <1>3 DEF Picks
<1>5. Defines(sum)
  <2>1. step \in [S \X Int -> Int] /\ 0 \in Int
    BY <1>2
  <2>2. PICK g \in [SUBSET S -> Int] : Folding(g, S, 0, step, pick)
    <3> HIDE DEF step, pick, S
    <3>1. QED
      BY <1>2, <1>4, <2>1, FoldExists
  <2>3. ASSUME NEW T \in SUBSET S, T # {}
        PROVE  step[<<pick[T], g[T \ {pick[T]}]>>] = g[T \ {Signal!Max(T)}] + s[Signal!Max(T)]
    <3>1. pick[T] = Signal!Max(T) /\ Signal!Max(T) \in S
      BY <1>3, <1>4, <2>3
    <3>2. g[T \ {Signal!Max(T)}] \in Int
      BY <2>2
    <3> HIDE DEF pick, S
    <3>3. QED
      BY <3>1, <3>2
  <2>4. Defines(g)
    <3> HIDE DEF step, pick
    <3>1. g = [T \in SUBSET S |-> IF T = {} THEN 0 ELSE step[<<pick[T], g[T \ {pick[T]}]>>]]
      BY <2>2 DEF Folding
    <3>2. QED
      BY <2>3, <3>1
  <2> HIDE DEF Defines
  <2>5. QED
    BY <2>4
<1>6. sum[{}] = 0
  BY <1>5
<1>7. ASSUME NEW T \in SUBSET S, T # {} PROVE sum[T] = sum[T \ {pick[T]}] + s[pick[T]]
  BY <1>4, <1>5, <1>7
<1> HIDE DEF sum, pick
<1>8. \A T \in SUBSET S : T # {} /\ T \ {pick[T]} \in Good => T \in Good
  <2> SUFFICES ASSUME NEW T \in SUBSET S, T # {}, T \ {pick[T]} \in Good PROVE T \in Good
    OBVIOUS
  <2>1. s[pick[T]] \in Int
    BY <1>2, <1>4 DEF Picks
  <2>2. sum[T \ {pick[T]}] \in Int
    OBVIOUS
  <2>3. sum[T] = sum[T \ {pick[T]}] + s[pick[T]]
    BY <1>7
  <2>4. sum[T] \in Int
    BY <2>1, <2>2, <2>3
  <2>5. QED
    BY <2>4
<1>9. {} \in Good /\ Good \in SUBSET SUBSET S
  BY <1>6
<1>10. IsFiniteSet(S) /\ Picks(pick, S)
  BY <1>2, <1>4
<1> HIDE DEF Good, S
<1>11. \A T \in SUBSET S : T \in Good
  BY <1>8, <1>9, <1>10, PickInduction
<1>12. QED
  BY <1>1, <1>11 DEF Good

LEMMA SpreadType == ASSUME NEW p \in Seq(Int) PROVE Signal!Spread(p) \in Int
<1>1. \A n \in Nat \ {0} : Signal!LastN(p, n) \in Seq(Int)
  <2> SUFFICES ASSUME NEW n \in Nat \ {0} PROVE Signal!LastN(p, n) \in Seq(Int)
    OBVIOUS
  <2> DEFINE from == IF Len(p) > n THEN Len(p) - n + 1 ELSE 1
  <2>1. from \in 1..Len(p) + 1 /\ Len(p) \in Nat
    OBVIOUS
  <2>2. Signal!LastN(p, n) = SubSeq(p, from, Len(p))
    BY DEF Signal!LastN
  <2> HIDE DEF from
  <2>3. QED
    BY <2>1, <2>2, SubSeqProperties
<1>2. /\ Signal!Sum(Signal!LastN(p, FastWindow)) \in Int
      /\ Signal!Sum(Signal!LastN(p, SlowWindow)) \in Int
  BY <1>1, SignalNumbers, SumOfIntegers
<1>3. QED
  BY <1>2, SignalNumbers DEF Signal!Spread

LEMMA CrossedUp ==
    ASSUME NEW p, Signal!MACross(p) = "buy"
    PROVE  ~(Len(p) < SlowWindow) /\ Signal!Spread(p) > 0 /\ Signal!Spread(Signal!Front(p)) <= 0
BY DEF Signal!MACross

LEMMA CrossesAgain == Signal!TypeOK => Signal!CrossesAlternate
<1> SUFFICES ASSUME Signal!TypeOK PROVE Signal!CrossesAlternate
  OBVIOUS
<1> DEFINE p == Signal!AllPrices
           At(n) == SubSeq(p, 1, n)
           Crossed(n) == Signal!MACross(At(n)) = "buy"
           end == Len(fed)
<1>1. end \in Nat /\ p \in Seq(Int) /\ Len(p) = end
  <2>1. fed \in Seq(Symbols \X Prices)
    BY DEF Signal!TypeOK
  <2>2. ASSUME NEW i \in 1..Len(fed) PROVE fed[i][2] \in Int
    <3>1. fed[i] \in Symbols \X Prices
      BY <2>1
    <3> DEFINE quote == fed[i][2]
    <3>2. quote \in Prices
      BY <3>1
    <3> HIDE DEF quote
    <3>3. quote \in Int
      BY <3>2, SignalNumbers
    <3>4. QED
      BY <3>3 DEF quote
  <2>3. Len(fed) \in Nat /\ p = [i \in 1..Len(fed) |-> fed[i][2]]
    BY <2>1 DEF Signal!AllPrices
  <2> HIDE DEF p
  <2>4. p \in Seq(Int) /\ Len(p) = Len(fed)
    BY <2>2, <2>3
  <2>5. QED
    BY <2>3, <2>4
<1> HIDE DEF p
<1>2. ASSUME NEW n \in 0..end PROVE At(n) \in Seq(Int) /\ Len(At(n)) = n
  BY <1>1, <1>2, SubSeqProperties
<1>3. ASSUME NEW n \in 0..end, Crossed(n)
      PROVE  n >= 1 /\ Signal!Spread(At(n)) > 0 /\ Signal!Spread(At(n - 1)) <= 0
  <2>1. ~(Len(At(n)) < SlowWindow) /\ Signal!Spread(At(n)) > 0 /\ Signal!Spread(Signal!Front(At(n))) <= 0
    BY <1>3, CrossedUp
  <2>2. n >= 1
    BY <1>2, <2>1, SignalNumbers
  <2>3. Signal!Front(At(n)) = At(n - 1)
    <3>1. Signal!Front(At(n)) = SubSeq(At(n), 1, n - 1)
      BY <1>2 DEF Signal!Front
    <3>2. /\ At(n) \in Seq(Int) /\ Len(At(n)) = n /\ n - 1 \in 0..n
          /\ \A i \in 1..n : At(n)[i] = p[i]
      BY <1>1, <2>2, SubSeqProperties
    <3>3. /\ At(n - 1) \in Seq(Int) /\ Len(At(n - 1)) = n - 1
          /\ \A i \in 1..(n - 1) : At(n - 1)[i] = p[i]
      BY <1>1, <2>2, SubSeqProperties
    <3> DEFINE a == At(n)
    <3> HIDE DEF a
    <3>4. /\ SubSeq(a, 1, n - 1) \in Seq(Int) /\ Len(SubSeq(a, 1, n - 1)) = n - 1
          /\ \A i \in 1..(n - 1) : SubSeq(a, 1, n - 1)[i] = a[i]
      <4>1. a \in Seq(Int) /\ Len(a) = n
        BY <3>2 DEF a
      <4>2. QED
        BY <2>2, <4>1, SubSeqProperties
    <3>5. QED
      BY <2>2, <3>1, <3>2, <3>3, <3>4 DEF a
  <2>4. QED
    BY <2>1, <2>2, <2>3
<1>4. ASSUME Crossed(end), NEW m \in 1..end - 1, Crossed(m)
      PROVE  \E k \in m + 1..end - 1 : Signal!Spread(At(k)) <= 0
  <2>1. end >= 1 /\ Signal!Spread(At(end - 1)) <= 0
    BY <1>1, <1>3, <1>4
  <2>2. Signal!Spread(At(m)) > 0
    BY <1>1, <1>3, <1>4
  <2>3. m # end - 1
    <3>1. Signal!Spread(At(end - 1)) \in Int
      <4>1. end - 1 \in 0..end
        BY <1>1, <2>1
      <4>2. At(end - 1) \in Seq(Int)
        BY <1>2, <4>1
      <4> HIDE DEF At
      <4>3. QED
        BY <4>2, SpreadType
    <3>2. QED
      BY <2>1, <2>2, <3>1
  <2>4. end - 1 \in m + 1..end - 1
    BY <1>1, <2>1, <2>3
  <2> HIDE DEF At, end
  <2>5. QED
    BY <2>1, <2>4
<1>5. QED
  BY <1>4 DEF Signal!CrossesAlternate, p
LEMMA StrategyWeights ==
    /\ IsFiniteSet(Signal!Strategies) /\ \A s \in Signal!Strategies : Signal!Weight[s] \in Nat
    /\ \A S \in SUBSET Signal!Strategies : SumFunctionOnSet(Signal!Weight, S) \in Nat
<1>1. IsFiniteSet(Signal!Strategies)
  <2>1. IsFiniteSet({"ma_crossover"}) /\ IsFiniteSet({"rsi"})
        /\ IsFiniteSet({"bollinger_bands"}) /\ IsFiniteSet({"macd"})
    BY FS_Singleton
  <2>2. Signal!Strategies = (({"ma_crossover"} \cup {"rsi"}) \cup {"bollinger_bands"}) \cup {"macd"}
    BY DEF Signal!Strategies
  <2>3. QED
    BY <2>1, <2>2, FS_Union
<1>2. \A s \in Signal!Strategies : Signal!Weight[s] \in Nat
  BY DEF Signal!Strategies, Signal!Weight
<1>3. ASSUME NEW S \in SUBSET Signal!Strategies PROVE SumFunctionOnSet(Signal!Weight, S) \in Nat
  <2> DEFINE F == Signal!Weight
             G == [s \in S |-> 0]
  <2>1. IsFiniteSet(S) /\ \A s \in S : F[s] \in Int /\ G[s] \in Int /\ G[s] <= F[s] /\ G[s] = 0
    BY <1>1, <1>2, FS_Subset
  <2> HIDE DEF F, G
  <2>2. SumFunctionOnSet(F, S) \in Int
    BY <2>1, SumOnType
  <2>3. SumFunctionOnSet(G, S) <= SumFunctionOnSet(F, S)
    BY <2>1, SumOnGrows
  <2>4. SumFunctionOnSet(G, S) = 0 * Cardinality(S) /\ Cardinality(S) \in Nat
    BY <2>1, SumOnConstant, FS_CardinalityType
  <2>5. SumFunctionOnSet(F, S) \in Nat
    BY <2>2, <2>3, <2>4
  <2>6. QED
    BY <2>5 DEF F
<1>4. QED
  BY <1>1, <1>2, <1>3

LEMMA WeighedVoices ==
    ASSUME NEW S \in SUBSET Signal!Strategies, NEW c \in {6, 10}
    PROVE  Signal!MapThenSumSet(LAMBDA s : c * Signal!Weight[s], S) = c * SumFunctionOnSet(Signal!Weight, S)
<1> DEFINE F == [s \in S |-> c * Signal!Weight[s]]
           pick == [T \in SUBSET S |-> CHOOSE x \in T : TRUE]
           Defines(g) == g = [T \in SUBSET S |-> IF T = {} THEN 0
               ELSE c * Signal!Weight[CHOOSE x \in T : TRUE] + g[T \ {CHOOSE x \in T : TRUE}]]
           sum == CHOOSE g : Defines(g)
<1>1. Signal!MapThenSumSet(LAMBDA s : c * Signal!Weight[s], S) = sum[S]
  BY DEF Signal!MapThenSumSet, Signal!MapThenFoldSet
<1>2. Picks(pick, S)
  BY DEF Picks
<1>3. IsFiniteSet(S) /\ c \in Int /\ \A s \in S : Signal!Weight[s] \in Int /\ F[s] = c * Signal!Weight[s]
  BY StrategyWeights, FS_Subset
<1>4. \A s \in S : F[s] \in Int
  <2>1. \A n \in Int : c * n \in Int
    BY <1>3
  <2>2. QED
    BY <1>3, <2>1
<1>5. ASSUME NEW g PROVE Defines(g) <=> AddingUp(g, F, S, pick)
  BY DEF AddingUp
<1> HIDE DEF pick, Defines, F
<1>6. PICK g : AddingUp(g, F, S, pick)
  BY <1>2, <1>3, <1>4, AddingExists
<1>7. AddingUp(sum, F, S, pick)
  BY <1>5, <1>6
<1>8. sum[S] = SumFunctionOnSet(F, S)
  BY <1>2, <1>3, <1>4, <1>7, AddingUpIs
<1>9. SumFunctionOnSet(F, S) = c * SumFunctionOnSet(Signal!Weight, S)
  BY <1>3, SumOnTimes
<1>10. QED
  BY <1>1, <1>8, <1>9

\* Those who only incline reach six tenths of their weight, and the threshold is more of the total.
LEMMA InclinedFallShort ==
    ASSUME NEW voice, NEW a, NEW b, b \notin {"none", "hold"},
           \A s \in Signal!Strategies : voice[s] # a
    PROVE  ~(Signal!Total(voice) > 0 /\ 100 * Signal!Score(voice, a, b) >= 65 * Signal!Total(voice))
<1> DEFINE out == {s \in Signal!Strategies : voice[s] = a}
           inclined == {s \in Signal!Strategies : voice[s] = b}
           all == {s \in Signal!Strategies : voice[s] \notin {"none", "hold"}}
           n == SumFunctionOnSet(Signal!Weight, inclined)
           m == SumFunctionOnSet(Signal!Weight, all)
           r == SumFunctionOnSet(Signal!Weight, all \ inclined)
<1>1. out = {} /\ inclined \subseteq all /\ all \subseteq Signal!Strategies
  OBVIOUS
<1>2. n \in Nat /\ m \in Nat /\ r \in Nat
  BY <1>1, StrategyWeights
<1>3. m = n + r
  <2>1. IsFiniteSet(all) /\ \A s \in all : Signal!Weight[s] \in Int
    BY <1>1, StrategyWeights, FS_Subset
  <2> HIDE DEF all, inclined
  <2>2. QED
    BY <1>1, <2>1, SumOnSplit
<1>4. Signal!Total(voice) = 10 * m
  BY <1>1, WeighedVoices DEF Signal!Total
<1>5. Signal!Score(voice, a, b) = 6 * n
  <2>1. Signal!MapThenSumSet(LAMBDA s : 6 * Signal!Weight[s], inclined) = 6 * n
    BY <1>1, WeighedVoices
  <2>2. Signal!MapThenSumSet(LAMBDA s : 10 * Signal!Weight[s], out) = 10 * SumFunctionOnSet(Signal!Weight, out)
    BY <1>1, WeighedVoices
  <2>3. SumFunctionOnSet(Signal!Weight, out) = 0
    BY <1>1, SumOnEmpty
  <2>4. Signal!Score(voice, a, b) = 10 * SumFunctionOnSet(Signal!Weight, out) + 6 * n
    BY <2>1, <2>2 DEF Signal!Score
  <2> HIDE DEF n, out
  <2>5. QED
    BY <1>2, <2>3, <2>4
<1> HIDE DEF n, m, r
<1>6. QED
  BY <1>2, <1>3, <1>4, <1>5

LEMMA OutrightVoice == Signal!StrongVoice
<1> DEFINE voice == Signal!Voice(Signal!AllPrices)
<1> HIDE DEF voice
<1>1. ASSUME Signal!CombineSignals(voice) = "buy", \A s \in Signal!Strategies : voice[s] # "buy" PROVE FALSE
  <2>1. /\ Signal!Total(voice) > 0
        /\ 100 * Signal!Score(voice, "buy", "bullish") >= 65 * Signal!Total(voice)
    BY <1>1 DEF Signal!CombineSignals, Signal!Consensus
  <2>2. QED
    BY <1>1, <2>1, InclinedFallShort
<1>2. ASSUME Signal!CombineSignals(voice) = "sell", \A s \in Signal!Strategies : voice[s] # "sell" PROVE FALSE
  <2>1. /\ Signal!Total(voice) > 0
        /\ 100 * Signal!Score(voice, "sell", "bearish") >= 65 * Signal!Total(voice)
    BY <1>2 DEF Signal!CombineSignals, Signal!Consensus
  <2>2. QED
    BY <1>2, <2>1, InclinedFallShort
<1>3. ASSUME NEW a \in {"buy", "sell"}, Signal!CombineSignals(voice) = a
      PROVE  \E s \in Signal!Strategies : voice[s] = a
  BY <1>1, <1>2, <1>3
<1>4. QED
  BY <1>3 DEF Signal!StrongVoice, voice

\* Every state that is reached: what the signals and the gates promise, with the types.
Sound == Signal!TypeOK /\ GateTyped

LEMMA SoundIsSound == Sound => SignalsSound
BY OutrightVoice, CrossesAgain, EdgeIdle, TailGrows, StopsFree DEF Sound, SignalsSound
\* The aggregator acts on an outright voice only and calls an upward crossing once; no gate
\* holds a signal back for its age alone; the tail gate follows the losers, and lets go when
\* the stops were looked at.  For any prices, windows, limits, confidences and decay.
THEOREM SignalsAreSound == DeskSpec => []SignalsSound
<1>1. DeskInit => Sound
  <2> SUFFICES ASSUME Signal!Init, Gate!Init PROVE Sound
    BY DEF DeskInit
  <2>1. fed = <<>> /\ action = [s \in Symbols |-> "none"]
    BY DEF Signal!Init
  <2>2. MaxPrices \in Nat
    BY DeskAssumption DEF Signal!SignalsAssumption
  <2>3. fed \in Seq(Symbols \X Prices) /\ Len(fed) <= MaxPrices
    BY <2>1, <2>2
  <2>4. action \in [Symbols -> Signal!Actions]
    BY <2>1 DEF Signal!Actions
  <2>5. QED
    BY <2>3, <2>4, GateStarts DEF Sound, Signal!TypeOK
<1>2. Sound /\ [DeskNext]_deskVars => Sound'
  <2> SUFFICES ASSUME Sound, [DeskNext]_deskVars PROVE Sound'
    OBVIOUS
  <2>1. Signal!TypeOK'
    <3>1. CASE Signal!Next
      BY <3>1, SignalStep DEF Sound
    <3>2. CASE UNCHANGED signalAll
      BY <3>2 DEF Sound, Signal!TypeOK, signalAll
    <3>3. QED
      BY <3>1, <3>2, DeskSteps
  <2>2. GateTyped'
    <3>1. CASE Gate!Next
      BY <3>1, GateStep DEF Sound
    <3>2. CASE UNCHANGED gateAll
      BY <3>2 DEF Sound, GateTyped, gateAll, Gate!RiskOf, Gate!Gain
    <3>3. QED
      BY <3>1, <3>2, DeskSteps
  <2>3. QED
    BY <2>1, <2>2 DEF Sound
<1>3. QED
  BY <1>1, <1>2, SoundIsSound, PTL DEF DeskSpec
-----------------------------------------------------------------------------
(* The ledger: what a close that is being logged still owes to each total. *)

KeysType ==
    [open : SUBSET Held, history : [Held -> Seq(Nat)], daily_pnl : [Logger!Days -> Int],
     cumulative : Int, count : Nat,
     daily_stats : [Logger!Days -> [count : Nat, wins : Nat, total : Int]]]
CallType == [kind : {"none", "open", "close"}, symbol : Held \cup {"none"}, trade : Nat, step : 0..6]

LedgerTyped ==
    /\ held \in [Held -> 0..2] /\ trades \in Seq([symbol : Held, pnl : PnLs])
    /\ keys \in KeysType /\ keyLock \in Learners \cup {"free"}
    /\ call \in [Learners -> CallType] /\ day \in Logger!Days
    /\ trouble \subseteq {"partial", "overlap", "failed", "crashed"}

LEMMA LedgerNumbers ==
    /\ PnLs \subseteq Int /\ "free" \notin Learners /\ "none" \notin Held /\ IsFiniteSet(Held)
    /\ MaxDay \in Nat /\ MaxTrades \in Nat /\ IsFiniteSet(Logger!Days)
<1>1. /\ PnLs \subseteq Int /\ "free" \notin Learners /\ "none" \notin Held /\ Logger!IsFiniteSet(Held)
      /\ MaxDay \in Nat /\ MaxTrades \in Nat
  BY DeskAssumption DEF Logger!LoggerAssumption
<1>2. IsFiniteSet(Held)
  BY <1>1 DEF Logger!IsFiniteSet, IsFiniteSet
<1>3. IsFiniteSet(0..MaxDay)
  BY <1>1, FS_Interval
<1>4. QED
  BY <1>1, <1>2, <1>3 DEF Logger!Days

\* What the commands do.
LEMMA CommandDoes ==
    ASSUME LedgerTyped, NEW s \in Held, NEW id \in DOMAIN trades, NEW k \in 1..6,
           NEW new, new = Logger!Performed(Logger!Commands[k], s, id),
           NEW pnl, pnl = trades[id].pnl
    PROVE  /\ new \in KeysType
           /\ k = 1 => /\ new.history = Logger!Listed(s, id)
                        /\ new.open = keys.open /\ new.daily_pnl = keys.daily_pnl /\ new.cumulative = keys.cumulative /\ new.count = keys.count /\ new.daily_stats = keys.daily_stats
           /\ k = 2 => /\ new.daily_pnl = Logger!Earned(pnl)
                        /\ new.open = keys.open /\ new.history = keys.history /\ new.cumulative = keys.cumulative /\ new.count = keys.count /\ new.daily_stats = keys.daily_stats
           /\ k = 3 => /\ new.cumulative = keys.cumulative + pnl
                        /\ new.open = keys.open /\ new.history = keys.history /\ new.daily_pnl = keys.daily_pnl /\ new.count = keys.count /\ new.daily_stats = keys.daily_stats
           /\ k = 4 => /\ new.count = keys.count + 1
                        /\ new.open = keys.open /\ new.history = keys.history /\ new.daily_pnl = keys.daily_pnl /\ new.cumulative = keys.cumulative /\ new.daily_stats = keys.daily_stats
           /\ k = 5 => /\ new.daily_stats = Logger!Tallied(pnl)
                        /\ new.open = keys.open /\ new.history = keys.history /\ new.daily_pnl = keys.daily_pnl /\ new.cumulative = keys.cumulative /\ new.count = keys.count
           /\ k = 6 => /\ new.open = keys.open \ {s}
                        /\ new.history = keys.history /\ new.daily_pnl = keys.daily_pnl /\ new.cumulative = keys.cumulative /\ new.count = keys.count /\ new.daily_stats = keys.daily_stats
<1>1. keys \in KeysType /\ day \in Logger!Days
  BY DEF LedgerTyped
<1>2. pnl \in Int /\ id \in Nat
  <2>1. trades \in Seq([symbol : Held, pnl : PnLs])
    BY DEF LedgerTyped
  <2>5. DOMAIN trades = 1..Len(trades) /\ Len(trades) \in Nat
    BY <2>1
  <2>6. id \in 1..Len(trades) /\ id \in Nat
    BY <2>5
  <2> DEFINE T == [symbol : Held, pnl : PnLs]
  <2>8. trades \in Seq(T)
    BY <2>1
  <2>7. \A i \in 1..Len(trades) : trades[i] \in T
    <3> HIDE DEF T
    <3>1. QED
      BY <2>8, ElementOfSeq
  <2>2. trades[id] \in [symbol : Held, pnl : PnLs] /\ id \in Nat
    BY <2>6, <2>7
  <2>3. pnl \in PnLs
    BY <2>2
  <2>4. QED
    BY <2>2, <2>3, LedgerNumbers
<1>3. /\ keys.open \in SUBSET Held /\ keys.history \in [Held -> Seq(Nat)]
      /\ keys.daily_pnl \in [Logger!Days -> Int] /\ keys.cumulative \in Int /\ keys.count \in Nat
      /\ keys.daily_stats \in [Logger!Days -> [count : Nat, wins : Nat, total : Int]]
  BY <1>1 DEF KeysType
<1>4. CASE k = 1
  <2> DEFINE v == Logger!Listed(s, id)
  <2>1. Logger!Commands[k] = "history"
    BY <1>4 DEF Logger!Commands
  <2>2. new = [keys EXCEPT !.history = v]
    BY <2>1 DEF Logger!Performed
  <2>4. v \in [Held -> Seq(Nat)]
    BY <1>1, <1>2, <1>3 DEF Logger!Listed, Logger!Earned
  <2> HIDE DEF v
  <2>5. /\ new \in KeysType /\ new.history = v
        /\ new.open = keys.open /\ new.daily_pnl = keys.daily_pnl /\ new.cumulative = keys.cumulative /\ new.count = keys.count /\ new.daily_stats = keys.daily_stats
    BY <1>1, <2>2, <2>4 DEF KeysType
  <2>6. k # 2 /\ k # 3 /\ k # 4 /\ k # 5 /\ k # 6
    BY <1>4
  <2>7. QED
    BY <2>5, <2>6, Zenon DEF v
<1>5. CASE k = 2
  <2> DEFINE v == Logger!Earned(pnl)
  <2>1. Logger!Commands[k] = "daily_pnl"
    BY <1>5 DEF Logger!Commands
  <2>2. new = [keys EXCEPT !.daily_pnl = v]
    BY <2>1 DEF Logger!Performed
  <2>4. v \in [Logger!Days -> Int]
    BY <1>1, <1>2, <1>3 DEF Logger!Listed, Logger!Earned
  <2> HIDE DEF v
  <2>5. /\ new \in KeysType /\ new.daily_pnl = v
        /\ new.open = keys.open /\ new.history = keys.history /\ new.cumulative = keys.cumulative /\ new.count = keys.count /\ new.daily_stats = keys.daily_stats
    BY <1>1, <2>2, <2>4 DEF KeysType
  <2>6. k # 1 /\ k # 3 /\ k # 4 /\ k # 5 /\ k # 6
    BY <1>5
  <2>7. QED
    BY <2>5, <2>6, Zenon DEF v
<1>6. CASE k = 3
  <2> DEFINE v == keys.cumulative + pnl
  <2>1. Logger!Commands[k] = "cumulative"
    BY <1>6 DEF Logger!Commands
  <2>2. new = [keys EXCEPT !.cumulative = v]
    BY <2>1 DEF Logger!Performed
  <2>4. v \in Int
    BY <1>1, <1>2, <1>3 DEF Logger!Listed, Logger!Earned
  <2> HIDE DEF v
  <2>5. /\ new \in KeysType /\ new.cumulative = v
        /\ new.open = keys.open /\ new.history = keys.history /\ new.daily_pnl = keys.daily_pnl /\ new.count = keys.count /\ new.daily_stats = keys.daily_stats
    BY <1>1, <2>2, <2>4 DEF KeysType
  <2>6. k # 1 /\ k # 2 /\ k # 4 /\ k # 5 /\ k # 6
    BY <1>6
  <2>7. QED
    BY <2>5, <2>6, Zenon DEF v
<1>7. CASE k = 4
  <2> DEFINE v == keys.count + 1
  <2>1. Logger!Commands[k] = "count"
    BY <1>7 DEF Logger!Commands
  <2>2. new = [keys EXCEPT !.count = v]
    BY <2>1 DEF Logger!Performed
  <2>4. v \in Nat
    BY <1>1, <1>2, <1>3 DEF Logger!Listed, Logger!Earned
  <2> HIDE DEF v
  <2>5. /\ new \in KeysType /\ new.count = v
        /\ new.open = keys.open /\ new.history = keys.history /\ new.daily_pnl = keys.daily_pnl /\ new.cumulative = keys.cumulative /\ new.daily_stats = keys.daily_stats
    BY <1>1, <2>2, <2>4 DEF KeysType
  <2>6. k # 1 /\ k # 2 /\ k # 3 /\ k # 5 /\ k # 6
    BY <1>7
  <2>7. QED
    BY <2>5, <2>6, Zenon DEF v
<1>8. CASE k = 5
  <2> DEFINE v == Logger!Tallied(pnl)
  <2>1. Logger!Commands[k] = "daily_stats"
    BY <1>8 DEF Logger!Commands
  <2>2. new = [keys EXCEPT !.daily_stats = v]
    BY <2>1 DEF Logger!Performed
  <2>3. Logger!Counted(keys.daily_stats[day], pnl) \in [count : Nat, wins : Nat, total : Int]
    <3>1. keys.daily_stats[day] \in [count : Nat, wins : Nat, total : Int]
      BY <1>1, <1>3
    <3>2. QED
      BY <1>2, <3>1 DEF Logger!Counted
  <2>4. v \in [Logger!Days -> [count : Nat, wins : Nat, total : Int]]
    BY <1>3, <2>3 DEF Logger!Tallied
  <2> HIDE DEF v
  <2>5. /\ new \in KeysType /\ new.daily_stats = v
        /\ new.open = keys.open /\ new.history = keys.history /\ new.daily_pnl = keys.daily_pnl /\ new.cumulative = keys.cumulative /\ new.count = keys.count
    BY <1>1, <2>2, <2>4 DEF KeysType
  <2>6. k # 1 /\ k # 2 /\ k # 3 /\ k # 4 /\ k # 6
    BY <1>8
  <2>7. QED
    BY <2>5, <2>6, Zenon DEF v
<1>9. CASE k = 6
  <2> DEFINE v == keys.open \ {s}
  <2>1. Logger!Commands[k] = "open"
    BY <1>9 DEF Logger!Commands
  <2>2. new = [keys EXCEPT !.open = v]
    BY <2>1 DEF Logger!Performed
  <2>4. v \in SUBSET Held
    BY <1>1, <1>2, <1>3 DEF Logger!Listed, Logger!Earned
  <2> HIDE DEF v
  <2>5. /\ new \in KeysType /\ new.open = v
        /\ new.history = keys.history /\ new.daily_pnl = keys.daily_pnl /\ new.cumulative = keys.cumulative /\ new.count = keys.count /\ new.daily_stats = keys.daily_stats
    BY <1>1, <2>2, <2>4 DEF KeysType
  <2>6. k # 1 /\ k # 2 /\ k # 3 /\ k # 4 /\ k # 5
    BY <1>9
  <2>7. QED
    BY <2>5, <2>6, Zenon DEF v
<1>10. QED
  BY <1>4, <1>5, <1>6, <1>7, <1>8, <1>9
\* Each thread's call: the lock is its own within a close, a close is of a trade that nobody else
\* is logging, and that the history has once its first command is carried out.
LedgerCalls ==
    /\ \A t \in Learners : keyLock = t <=> call[t].step > 0
    /\ \A t \in Learners : call[t].kind = "none" => call[t] = Logger!NoCall
    /\ \A t \in Learners : call[t].kind = "open" =>
         call[t].symbol \in Held /\ call[t].trade = 0 /\ call[t].step = 0
    /\ \A t \in Learners : call[t].kind = "close" =>
         /\ call[t].symbol \in Held /\ call[t].trade \in DOMAIN trades
         /\ call[t].trade \in Logger!AllLogged <=> call[t].step > 1
    /\ \A t \in Learners, u \in Learners :
         call[t].kind = "close" /\ call[u].kind = "close" /\ call[t].trade = call[u].trade => t = u

\* The history has every trade once.
LedgerHistory ==
    /\ Logger!AllLogged \subseteq DOMAIN trades
    /\ \A s \in Held : IsInjective(keys.history[s])
    /\ \A s \in Held, u \in Held : s # u => Logger!Logged(s) \cap Logger!Logged(u) = {}

\* What a close in its step still owes when it is to be carried out in the steps from first to last.
Owes(step, first, last, amount) == IF step \in first..last THEN amount ELSE 0
Win(pnl) == IF pnl > 0 THEN 1 ELSE 0

\* The counts and the totals, up to what the close being logged owes them.
Counts(step, logged, counted, booked) ==
    /\ counted + Owes(step, 2, 4, 1) <= logged
    /\ booked + Owes(step, 5, 5, 1) <= counted
Balance(step, pnl, logged, counted, booked, total, winners, cumulative, daily, stats, wins) ==
    /\ counted + Owes(step, 2, 4, 1) = logged
    /\ booked + Owes(step, 5, 5, 1) = counted
    /\ cumulative + Owes(step, 2, 3, pnl) = total
    /\ daily + Owes(step, 2, 2, pnl) = total
    /\ stats + Owes(step, 2, 5, pnl) = total
    /\ wins + Owes(step, 2, 5, Win(pnl)) = winners

HolderStep == IF keyLock = "free" THEN 0 ELSE call[keyLock].step
HolderPnl == IF HolderStep = 0 THEN 0 ELSE trades[call[keyLock].trade].pnl

Winners(ids) == {i \in ids : trades[i].pnl > 0}
DailyTotals == [d \in Logger!Days |-> keys.daily_stats[d].total]
DailyWins == [d \in Logger!Days |-> keys.daily_stats[d].wins]
Clean == trouble \cap {"failed", "crashed"} = {}

LedgerBooks ==
    /\ Counts(HolderStep, Cardinality(Logger!AllLogged), keys.count, Logger!LoggedCount)
    /\ Clean => Balance(HolderStep, HolderPnl, Cardinality(Logger!AllLogged), keys.count, Logger!LoggedCount,
                        Logger!Total(Logger!AllLogged), Cardinality(Winners(Logger!AllLogged)),
                        keys.cumulative, Logger!OverDays(keys.daily_pnl),
                        Logger!OverDays(DailyTotals), Logger!OverDays(DailyWins))

\* Without trouble, the open positions are those held, up to one call for each symbol.
LedgerOpen == trouble = {} =>
    /\ \A t \in Learners, u \in Learners :
         call[t].symbol = call[u].symbol /\ call[t].symbol # "none" => t = u
    /\ \A t \in Learners : call[t].kind = "open" =>
         held[call[t].symbol] > 0 /\ call[t].symbol \notin keys.open
    /\ \A t \in Learners : call[t].kind = "close" =>
         held[call[t].symbol] = 0 /\ call[t].symbol \in keys.open
    /\ \A s \in Held : (\A t \in Learners : call[t].symbol # s) => (s \in keys.open <=> held[s] > 0)

LedgerInv == LedgerTyped /\ LedgerCalls /\ LedgerHistory /\ LedgerBooks /\ LedgerOpen

\* The numbers that the books relate, in a history.
Entries(h) == UNION {Logger!ToSet(h[s]) : s \in Held}

LEMMA AllEntries ==
    /\ Logger!AllLogged = Entries(keys.history)
    /\ Logger!AllLogged' = Entries(keys'.history)
BY DEF Logger!AllLogged, Logger!Logged, Entries

\* Every trade once.
Once(h) ==
    /\ \A u \in Held : IsInjective(h[u])
    /\ \A u \in Held, v \in Held : u # v => Logger!ToSet(h[u]) \cap Logger!ToSet(h[v]) = {}

\* A trade that the history does not have is added at the end of its symbol's.
LEMMA EntryAdded ==
    ASSUME NEW h \in [Held -> Seq(Nat)], NEW s \in Held, NEW id \in Nat, id \notin Entries(h),
           Once(h), NEW g, g = [h EXCEPT ![s] = Append(@, id)]
    PROVE  g \in [Held -> Seq(Nat)] /\ Entries(g) = Entries(h) \cup {id} /\ Once(g)
<1>0. /\ \A u \in Held : IsInjective(h[u])
      /\ \A u \in Held, v \in Held : u # v => Logger!ToSet(h[u]) \cap Logger!ToSet(h[v]) = {}
  BY DEF Once
<1>1. g \in [Held -> Seq(Nat)] /\ g[s] = Append(h[s], id) /\ \A u \in Held : u # s => g[u] = h[u]
  OBVIOUS
<1> DEFINE n == Len(h[s])
<1>2. h[s] \in Seq(Nat)
  OBVIOUS
<1>3. /\ n \in Nat /\ DOMAIN h[s] = 1..n /\ DOMAIN g[s] = 1..(n + 1)
      /\ g[s][n + 1] = id /\ \A i \in 1..n : g[s][i] = h[s][i]
  <2> DEFINE q == h[s]
             r == g[s]
  <2>1. q \in Seq(Nat) /\ r = Append(q, id)
    BY <1>1, <1>2
  <2> HIDE DEF q, r
  <2>2. /\ Len(q) \in Nat /\ DOMAIN q = 1..Len(q) /\ DOMAIN r = 1..(Len(q) + 1)
        /\ r[Len(q) + 1] = id /\ \A i \in 1..Len(q) : r[i] = q[i]
    BY <2>1
  <2>3. QED
    BY <2>2 DEF q, r
<1>4. Logger!ToSet(g[s]) = Logger!ToSet(h[s]) \cup {id}
  <2> HIDE DEF n
  <2>1. Logger!ToSet(h[s]) = {h[s][i] : i \in 1..n} /\ Logger!ToSet(g[s]) = {g[s][i] : i \in 1..(n + 1)}
    BY <1>3 DEF Logger!ToSet
  <2>2. 1..(n + 1) = (1..n) \cup {n + 1}
    BY <1>3
  <2>3. QED
    BY <1>3, <2>1, <2>2
<1>5. \A u \in Held : id \notin Logger!ToSet(h[u])
  BY DEF Entries
<1>6. Entries(g) = Entries(h) \cup {id}
  <2>1. \A x : x \in Entries(g) <=> \E u \in Held : x \in Logger!ToSet(g[u])
    BY DEF Entries
  <2>2. \A x : x \in Entries(h) <=> \E u \in Held : x \in Logger!ToSet(h[u])
    BY DEF Entries
  <2>3. \A u \in Held : Logger!ToSet(h[u]) \subseteq Logger!ToSet(g[u])
    <3> SUFFICES ASSUME NEW u \in Held PROVE Logger!ToSet(h[u]) \subseteq Logger!ToSet(g[u])
      OBVIOUS
    <3>1. CASE u = s
      BY <1>4, <3>1
    <3>2. CASE u # s
      BY <1>1, <3>2
    <3>3. QED
      BY <3>1, <3>2
  <2>4. \A u \in Held : Logger!ToSet(g[u]) \subseteq Logger!ToSet(h[u]) \cup {id}
    <3> SUFFICES ASSUME NEW u \in Held PROVE Logger!ToSet(g[u]) \subseteq Logger!ToSet(h[u]) \cup {id}
      OBVIOUS
    <3>1. CASE u = s
      BY <1>4, <3>1
    <3>2. CASE u # s
      BY <1>1, <3>2
    <3>3. QED
      BY <3>1, <3>2
  <2>5. id \in Entries(g)
    BY <1>4, <2>1
  <2>6. ASSUME NEW x \in Entries(g) PROVE x \in Entries(h) \cup {id}
    <3>1. PICK u \in Held : x \in Logger!ToSet(g[u])
      BY <2>1
    <3>2. x \in Logger!ToSet(h[u]) \/ x = id
      BY <2>4, <3>1
    <3>3. QED
      BY <2>2, <3>2
  <2>7. ASSUME NEW x \in Entries(h) PROVE x \in Entries(g)
    BY <2>1, <2>2, <2>3
  <2>8. QED
    BY <2>5, <2>6, <2>7
<1>7. \A u \in Held : IsInjective(g[u])
  <2> SUFFICES ASSUME NEW u \in Held PROVE IsInjective(g[u])
    OBVIOUS
  <2>1. CASE u # s
    BY <1>0, <1>1, <2>1
  <2>2. CASE u = s
    <3> SUFFICES ASSUME NEW i \in DOMAIN g[s], NEW j \in DOMAIN g[s], g[s][i] = g[s][j] PROVE i = j
      BY <2>2 DEF IsInjective
    <3>1. \A k \in 1..n : g[s][k] # id
      BY <1>3, <1>5 DEF Logger!ToSet
    <3>2. \A k \in 1..n, l \in 1..n : h[s][k] = h[s][l] => k = l
      BY <1>0, <1>3 DEF IsInjective
    <3> HIDE DEF n
    <3>3. i \in 1..(n + 1) /\ j \in 1..(n + 1)
      BY <1>3
    <3>4. CASE i = n + 1 \/ j = n + 1
      BY <1>3, <3>1, <3>3, <3>4
    <3>5. CASE i # n + 1 /\ j # n + 1
      BY <1>3, <3>2, <3>3, <3>5
    <3>6. QED
      BY <3>4, <3>5
  <2>3. QED
    BY <2>1, <2>2
<1>8. ASSUME NEW u \in Held, NEW v \in Held, u # v PROVE Logger!ToSet(g[u]) \cap Logger!ToSet(g[v]) = {}
  <2>1. Logger!ToSet(h[u]) \cap Logger!ToSet(h[v]) = {}
    BY <1>0, <1>8
  <2>2. CASE u = s
    BY <1>1, <1>4, <1>5, <1>8, <2>1, <2>2
  <2>3. CASE v = s
    BY <1>1, <1>4, <1>5, <1>8, <2>1, <2>3
  <2>4. CASE u # s /\ v # s
    BY <1>1, <2>1, <2>4
  <2>5. QED
    BY <2>2, <2>3, <2>4
<1>9. QED
  BY <1>1, <1>6, <1>7, <1>8 DEF Once

\* What a step leaves of the numbers.
Figures == <<Cardinality(Logger!AllLogged), keys.count, Logger!LoggedCount,
             Logger!Total(Logger!AllLogged), Cardinality(Winners(Logger!AllLogged)),
             keys.cumulative, Logger!OverDays(keys.daily_pnl),
             Logger!OverDays(DailyTotals), Logger!OverDays(DailyWins)>>

Idle == {0, 1, 6}

LEMMA NothingOwed ==
    ASSUME NEW step \in Idle, NEW first \in 2..5, NEW last \in 2..5, NEW amount
    PROVE  Owes(step, first, last, amount) = 0
BY DEF Owes, Idle

LEMMA OwesType ==
    ASSUME NEW step, NEW first, NEW last, NEW amount \in Int
    PROVE  Owes(step, first, last, amount) \in Int /\ (amount >= 0 => Owes(step, first, last, amount) >= 0)
BY DEF Owes

\* The numbers are numbers.
FigureTypes ==
    /\ IsFiniteSet(Logger!AllLogged) /\ Cardinality(Logger!AllLogged) \in Nat
    /\ keys.count \in Int /\ Logger!LoggedCount \in Int
    /\ Logger!Total(Logger!AllLogged) \in Int
    /\ IsFiniteSet(Winners(Logger!AllLogged)) /\ Cardinality(Winners(Logger!AllLogged)) \in Nat
    /\ keys.cumulative \in Int /\ Logger!OverDays(keys.daily_pnl) \in Int
    /\ Logger!OverDays(DailyTotals) \in Int /\ Logger!OverDays(DailyWins) \in Int
    /\ \A i \in DOMAIN trades : trades[i].pnl \in Int

LEMMA OverDaysIs == ASSUME NEW f PROVE Logger!OverDays(f) = SumFunctionOnSet(f, Logger!Days)
BY DEF Logger!OverDays, Logger!SumFunctionOnSet, Logger!FoldFunctionOnSet, Logger!MapThenFoldSet,
       SumFunctionOnSet, FoldFunctionOnSet, MapThenFoldSet
LEMMA TradeNumbers ==
    ASSUME LedgerTyped
    PROVE  /\ DOMAIN trades = 1..Len(trades) /\ Len(trades) \in Nat /\ IsFiniteSet(DOMAIN trades)
           /\ \A i \in DOMAIN trades : trades[i].pnl \in Int
<1> DEFINE T == [symbol : Held, pnl : PnLs]
<1>1. trades \in Seq(T)
  BY DEF LedgerTyped
<1>2. \A r \in T : r.pnl \in Int
  BY LedgerNumbers
<1> HIDE DEF T
<1>3. DOMAIN trades = 1..Len(trades) /\ Len(trades) \in Nat /\ \A i \in 1..Len(trades) : trades[i] \in T
  BY <1>1, ElementOfSeq
<1>4. IsFiniteSet(1..Len(trades))
  BY <1>3, FS_Interval
<1>5. QED
  BY <1>2, <1>3, <1>4

\* The sum over some trades, whatever closes come after.
LEMMA TotalIs ==
    ASSUME NEW ids PROVE Logger!Total(ids) = SumFunctionOnSet([i \in DOMAIN trades |-> trades[i].pnl], ids)
BY DEF Logger!Total, Logger!SumFunctionOnSet, Logger!FoldFunctionOnSet, Logger!MapThenFoldSet,
       SumFunctionOnSet, FoldFunctionOnSet, MapThenFoldSet

LEMMA DayTypes ==
    ASSUME LedgerTyped
    PROVE  /\ \A d \in Logger!Days : keys.daily_pnl[d] \in Int /\ DailyTotals[d] \in Int /\ DailyWins[d] \in Int
           /\ \A d \in Logger!Days : [e \in Logger!Days |-> keys.daily_stats[e].count][d] \in Int
           /\ keys.count \in Int /\ keys.cumulative \in Int
<1>1. /\ keys.daily_pnl \in [Logger!Days -> Int] /\ keys.count \in Nat /\ keys.cumulative \in Int
      /\ keys.daily_stats \in [Logger!Days -> [count : Nat, wins : Nat, total : Int]]
  BY DEF LedgerTyped, KeysType
<1>2. ASSUME NEW d \in Logger!Days
      PROVE  keys.daily_stats[d].total \in Int /\ keys.daily_stats[d].wins \in Int
             /\ keys.daily_stats[d].count \in Int
  BY <1>1
<1>3. QED
  BY <1>1, <1>2 DEF DailyTotals, DailyWins

LEMMA FiguresTyped == ASSUME LedgerTyped, LedgerHistory PROVE FigureTypes
<1>1. Logger!AllLogged \subseteq DOMAIN trades
  BY DEF LedgerHistory
<1>2. /\ IsFiniteSet(Logger!AllLogged) /\ IsFiniteSet(Winners(Logger!AllLogged))
  <2>1. Winners(Logger!AllLogged) \subseteq DOMAIN trades
    BY <1>1 DEF Winners
  <2>2. QED
    BY <1>1, <2>1, TradeNumbers, FS_Subset
<1>3. Cardinality(Logger!AllLogged) \in Nat /\ Cardinality(Winners(Logger!AllLogged)) \in Nat
  BY <1>2, FS_CardinalityType
<1>4. Logger!Total(Logger!AllLogged) \in Int
  <2> DEFINE F == [i \in DOMAIN trades |-> trades[i].pnl]
             S == Logger!AllLogged
  <2>1. \A i \in S : F[i] \in Int
    BY <1>1, TradeNumbers
  <2>2. IsFiniteSet(S) /\ Logger!Total(S) = SumFunctionOnSet(F, S)
    BY <1>2, TotalIs
  <2> HIDE DEF F, S
  <2>3. Logger!Total(S) \in Int
    BY <2>1, <2>2, SumOnType
  <2>4. QED
    BY <2>3 DEF S
<1>5. /\ Logger!OverDays(keys.daily_pnl) \in Int /\ Logger!OverDays(DailyTotals) \in Int
      /\ Logger!OverDays(DailyWins) \in Int
  BY DayTypes, LedgerNumbers, OverDaysIs, SumOnType
<1>6. Logger!LoggedCount \in Int
  <2> DEFINE F == [d \in Logger!Days |-> keys.daily_stats[d].count]
  <2>1. Logger!LoggedCount = SumFunctionOnSet(F, Logger!Days) /\ \A d \in Logger!Days : F[d] \in Int
    BY DayTypes, OverDaysIs DEF Logger!LoggedCount
  <2> HIDE DEF F
  <2>2. QED
    BY <2>1, LedgerNumbers, SumOnType
<1>7. QED
  BY <1>2, <1>3, <1>4, <1>5, <1>6, DayTypes, TradeNumbers DEF FigureTypes

\* The books in numbers of their own.
LEMMA BooksAre ==
    LedgerBooks <=>
        /\ Counts(HolderStep, Figures[1], Figures[2], Figures[3])
        /\ Clean => Balance(HolderStep, HolderPnl, Figures[1], Figures[2], Figures[3], Figures[4],
                            Figures[5], Figures[6], Figures[7], Figures[8], Figures[9])
BY DEF LedgerBooks, Figures
LEMMA BooksKept ==
    ASSUME LedgerTyped, LedgerHistory, LedgerBooks, Figures' = Figures, trouble \subseteq trouble',
           \/ HolderStep' = HolderStep /\ HolderPnl' = HolderPnl
           \/ HolderStep \in Idle /\ HolderStep' \in Idle
           \/ HolderStep' = 0 /\ ~Clean'
    PROVE  LedgerBooks'
<1> DEFINE f == Figures
<1>1. /\ Counts(HolderStep, f[1], f[2], f[3])
      /\ Clean => Balance(HolderStep, HolderPnl, f[1], f[2], f[3], f[4], f[5], f[6], f[7], f[8], f[9])
  BY BooksAre
<1>2. LedgerBooks' <=>
        /\ Counts(HolderStep', f[1], f[2], f[3])
        /\ Clean' => Balance(HolderStep', HolderPnl', f[1], f[2], f[3], f[4], f[5], f[6], f[7], f[8], f[9])
  <2>1. LedgerBooks' <=>
        /\ Counts(HolderStep', Figures'[1], Figures'[2], Figures'[3])
        /\ Clean' => Balance(HolderStep', HolderPnl', Figures'[1], Figures'[2], Figures'[3], Figures'[4],
                             Figures'[5], Figures'[6], Figures'[7], Figures'[8], Figures'[9])
    BY DEF LedgerBooks, Figures
  <2>2. QED
    BY <2>1
<1>3. f[1] \in Int /\ f[2] \in Int /\ f[3] \in Int
  BY FiguresTyped DEF FigureTypes, Figures
<1>4. Clean' => Clean
  BY DEF Clean
<1> HIDE DEF f
<1>5. CASE HolderStep' = HolderStep /\ HolderPnl' = HolderPnl
  BY <1>1, <1>2, <1>4, <1>5
<1>6. CASE HolderStep \in Idle /\ HolderStep' \in Idle
  <2>1. Counts(HolderStep', f[1], f[2], f[3])
    <3>1. \A a : Owes(HolderStep, 2, 4, a) = 0 /\ Owes(HolderStep', 2, 4, a) = 0
                  /\ Owes(HolderStep, 5, 5, a) = 0 /\ Owes(HolderStep', 5, 5, a) = 0
      BY <1>6, NothingOwed
    <3>2. QED
      BY <1>1, <3>1 DEF Counts
  <2>2. ASSUME Clean'
        PROVE  Balance(HolderStep', HolderPnl', f[1], f[2], f[3], f[4], f[5], f[6], f[7], f[8], f[9])
    <3>1. \A a : /\ Owes(HolderStep, 2, 4, a) = 0 /\ Owes(HolderStep, 5, 5, a) = 0
                 /\ Owes(HolderStep, 2, 3, a) = 0 /\ Owes(HolderStep, 2, 2, a) = 0
                 /\ Owes(HolderStep, 2, 5, a) = 0
      BY <1>6, NothingOwed
    <3>2. \A a : /\ Owes(HolderStep', 2, 4, a) = 0 /\ Owes(HolderStep', 5, 5, a) = 0
                 /\ Owes(HolderStep', 2, 3, a) = 0 /\ Owes(HolderStep', 2, 2, a) = 0
                 /\ Owes(HolderStep', 2, 5, a) = 0
      BY <1>6, NothingOwed
    <3>3. Balance(HolderStep, HolderPnl, f[1], f[2], f[3], f[4], f[5], f[6], f[7], f[8], f[9])
      BY <1>1, <1>4, <2>2
    <3>4. QED
      BY <3>1, <3>2, <3>3 DEF Balance
  <2>3. QED
    BY <1>2, <2>1, <2>2
<1>7. CASE HolderStep' = 0 /\ ~Clean'
  <2>1. Owes(HolderStep, 2, 4, 1) \in Int /\ Owes(HolderStep, 2, 4, 1) >= 0
        /\ Owes(HolderStep, 5, 5, 1) \in Int /\ Owes(HolderStep, 5, 5, 1) >= 0
    BY OwesType
  <2>2. Owes(0, 2, 4, 1) = 0 /\ Owes(0, 5, 5, 1) = 0
    BY NothingOwed DEF Idle
  <2>3. Counts(0, f[1], f[2], f[3])
    BY <1>1, <1>3, <2>1, <2>2 DEF Counts
  <2>4. QED
    BY <1>2, <1>7, <2>3
<1>8. QED
  BY <1>5, <1>6, <1>7

\* Who holds the lock is within a close.
LEMMA Holder ==
    ASSUME LedgerTyped, LedgerCalls
    PROVE  /\ keyLock = "free" => /\ HolderStep = 0 /\ HolderPnl = 0
                                  /\ \A t \in Learners : call[t].step = 0
           /\ \A t \in Learners : call[t].step > 0 =>
                /\ keyLock = t /\ call[t].kind = "close" /\ call[t].trade \in DOMAIN trades
                /\ HolderStep = call[t].step /\ HolderPnl = trades[call[t].trade].pnl
<1>1. call \in [Learners -> CallType]
  BY DEF LedgerTyped
<1>2. ASSUME NEW t \in Learners
      PROVE  /\ call[t].step \in 0..6 /\ call[t].kind \in {"none", "open", "close"}
             /\ keyLock = t <=> call[t].step > 0
             /\ call[t].kind = "none" => call[t].step = 0
             /\ call[t].kind = "open" => call[t].step = 0
             /\ call[t].kind = "close" => call[t].trade \in DOMAIN trades
  <2>1. call[t].step \in 0..6 /\ call[t].kind \in {"none", "open", "close"}
    BY <1>1 DEF CallType
  <2>2. call[t].kind = "none" => call[t].step = 0
    <3>1. call[t].kind = "none" => call[t] = Logger!NoCall
      BY DEF LedgerCalls
    <3>2. Logger!NoCall.step = 0
      BY DEF Logger!NoCall
    <3>3. QED
      BY <3>1, <3>2
  <2>3. QED
    BY <2>1, <2>2 DEF LedgerCalls
<1>3. ASSUME keyLock = "free"
      PROVE  HolderStep = 0 /\ HolderPnl = 0 /\ \A t \in Learners : call[t].step = 0
  <2>1. HolderStep = 0
    BY <1>3 DEF HolderStep
  <2>2. ASSUME NEW t \in Learners PROVE call[t].step = 0
    <3>1. t # "free"
      BY LedgerNumbers
    <3>2. QED
      BY <1>2, <1>3, <3>1
  <2>3. QED
    BY <2>1, <2>2 DEF HolderPnl
<1>4. ASSUME NEW t \in Learners, call[t].step > 0
      PROVE  /\ keyLock = t /\ call[t].kind = "close" /\ call[t].trade \in DOMAIN trades
             /\ HolderStep = call[t].step /\ HolderPnl = trades[call[t].trade].pnl
  <2>1. keyLock = t /\ call[t].kind = "close" /\ call[t].trade \in DOMAIN trades
    BY <1>2, <1>4
  <2>2. t # "free"
    BY LedgerNumbers
  <2>3. HolderStep = call[t].step
    BY <2>1, <2>2 DEF HolderStep
  <2>4. HolderStep # 0
    BY <1>2, <1>4, <2>3
  <2>5. HolderPnl = trades[call[t].trade].pnl
    BY <2>1, <2>4 DEF HolderPnl
  <2>6. QED
    BY <2>1, <2>3, <2>5
<1>5. QED
  BY <1>3, <1>4

\* One thread's call changes.
LEMMA CallChanges ==
    ASSUME LedgerTyped, LedgerCalls, NEW t \in Learners, NEW c \in CallType,
           call' = [call EXCEPT ![t] = c],
           \A u \in Learners : u # t => (keyLock' = u <=> keyLock = u),
           keyLock' = t <=> c.step > 0,
           DOMAIN trades \subseteq DOMAIN trades',
           c.kind = "none" => c = Logger!NoCall,
           c.kind = "open" => c.symbol \in Held /\ c.trade = 0 /\ c.step = 0,
           c.kind = "close" => /\ c.symbol \in Held /\ c.trade \in DOMAIN trades'
                               /\ c.trade \in Logger!AllLogged' <=> c.step > 1,
           \A u \in Learners : u # t /\ call[u].kind = "close" =>
              /\ c.kind = "close" => call[u].trade # c.trade
              /\ call[u].trade \in Logger!AllLogged' <=> call[u].trade \in Logger!AllLogged
    PROVE  call' \in [Learners -> CallType] /\ LedgerCalls'
<1>1. call \in [Learners -> CallType]
  BY DEF LedgerTyped
<1>2. call' \in [Learners -> CallType] /\ call'[t] = c /\ \A u \in Learners : u # t => call'[u] = call[u]
  BY <1>1
<1>3. ASSUME NEW u \in Learners
      PROVE  /\ keyLock' = u <=> call'[u].step > 0
             /\ call'[u].kind = "none" => call'[u] = Logger!NoCall
             /\ call'[u].kind = "open" => call'[u].symbol \in Held /\ call'[u].trade = 0 /\ call'[u].step = 0
             /\ call'[u].kind = "close" =>
                  /\ call'[u].symbol \in Held /\ call'[u].trade \in DOMAIN trades'
                  /\ call'[u].trade \in Logger!AllLogged' <=> call'[u].step > 1
  <2>1. CASE u = t
    BY <1>2, <2>1
  <2>2. CASE u # t
    <3>1. call'[u] = call[u] /\ (keyLock' = u <=> keyLock = u)
      BY <1>2, <2>2
    <3>2. /\ keyLock = u <=> call[u].step > 0
          /\ call[u].kind = "none" => call[u] = Logger!NoCall
          /\ call[u].kind = "open" => call[u].symbol \in Held /\ call[u].trade = 0 /\ call[u].step = 0
          /\ call[u].kind = "close" =>
               /\ call[u].symbol \in Held /\ call[u].trade \in DOMAIN trades
               /\ call[u].trade \in Logger!AllLogged <=> call[u].step > 1
      BY DEF LedgerCalls
    <3>3. QED
      BY <2>2, <3>1, <3>2
  <2>3. QED
    BY <2>1, <2>2
<1>4. ASSUME NEW u \in Learners, NEW v \in Learners, call'[u].kind = "close", call'[v].kind = "close",
             call'[u].trade = call'[v].trade
      PROVE  u = v
  <2>1. CASE u # t /\ v # t
    BY <1>2, <1>4, <2>1 DEF LedgerCalls
  <2>2. CASE u = t /\ v # t
    BY <1>2, <1>4, <2>2
  <2>3. CASE u # t /\ v = t
    BY <1>2, <1>4, <2>3
  <2>4. QED
    BY <2>1, <2>2, <2>3
<1>5. LedgerCalls'
  <2>1. Logger!NoCall' = Logger!NoCall
    BY DEF Logger!NoCall
  <2>2. QED
    BY <1>3, <1>4, <2>1 DEF LedgerCalls
<1>6. QED
  BY <1>2, <1>5

\* Nothing of the keys that the figures are made of changes, and no trade they count.
LEMMA FiguresStand ==
    ASSUME LedgerTyped, LedgerHistory, keys'.history = keys.history, keys'.daily_pnl = keys.daily_pnl,
           keys'.cumulative = keys.cumulative, keys'.count = keys.count,
           keys'.daily_stats = keys.daily_stats,
           \A i \in DOMAIN trades : i \in DOMAIN trades' /\ trades'[i] = trades[i]
    PROVE  Figures' = Figures /\ LedgerHistory' /\ Logger!AllLogged' = Logger!AllLogged
<1>1. Logger!AllLogged' = Logger!AllLogged /\ \A s \in Held : Logger!Logged(s)' = Logger!Logged(s)
  BY DEF Logger!AllLogged, Logger!Logged
<1>2. LedgerHistory'
  <2>1. Logger!AllLogged' \subseteq DOMAIN trades'
    BY <1>1 DEF LedgerHistory
  <2>2. QED
    BY <1>1, <2>1 DEF LedgerHistory
<1>3. Winners(Logger!AllLogged)' = Winners(Logger!AllLogged)
  <2>1. Winners(Logger!AllLogged)' = {i \in Logger!AllLogged' : trades'[i].pnl > 0}
    BY DEF Winners
  <2>2. \A i \in Logger!AllLogged : trades'[i] = trades[i]
    BY DEF LedgerHistory
  <2>3. QED
    BY <1>1, <2>1, <2>2 DEF Winners
<1>4. Logger!Total(Logger!AllLogged)' = Logger!Total(Logger!AllLogged)
  <2> DEFINE S == Logger!AllLogged
             F == [i \in DOMAIN trades |-> trades[i].pnl]
             G == [i \in DOMAIN trades' |-> trades'[i].pnl]
  <2>1. Logger!Total(Logger!AllLogged)' = SumFunctionOnSet(G, Logger!AllLogged')
    BY DEF Logger!Total, Logger!SumFunctionOnSet, Logger!FoldFunctionOnSet, Logger!MapThenFoldSet,
           SumFunctionOnSet, FoldFunctionOnSet, MapThenFoldSet
  <2>2. Logger!Total(S) = SumFunctionOnSet(F, S)
    BY TotalIs
  <2>3. IsFiniteSet(S) /\ S \subseteq DOMAIN trades /\ \A i \in DOMAIN trades : trades[i].pnl \in Int
    BY FiguresTyped DEF FigureTypes, LedgerHistory
  <2>4. ASSUME NEW i \in S PROVE F[i] \in Int /\ F[i] = G[i]
    BY <2>3
  <2> HIDE DEF S, F, G
  <2>5. SumFunctionOnSet(F, S) = SumFunctionOnSet(G, S)
    BY <2>3, <2>4, SumOnSame
  <2>6. QED
    BY <1>1, <2>1, <2>2, <2>5 DEF S
<1>5. /\ Logger!LoggedCount' = Logger!LoggedCount
      /\ Logger!OverDays(keys.daily_pnl)' = Logger!OverDays(keys.daily_pnl)
      /\ Logger!OverDays(DailyTotals)' = Logger!OverDays(DailyTotals)
      /\ Logger!OverDays(DailyWins)' = Logger!OverDays(DailyWins)
  BY DEF Logger!LoggedCount, DailyTotals, DailyWins
<1>6. Figures' = Figures
  BY <1>1, <1>3, <1>4, <1>5 DEF Figures
<1>7. QED
  BY <1>1, <1>2, <1>6
\* The calls of the others, when one thread's changes.
LEMMA OthersCalls ==
    ASSUME LedgerTyped, NEW t \in Learners, NEW c, call' = [call EXCEPT ![t] = c]
    PROVE  call'[t] = c /\ \A u \in Learners : u # t => call'[u] = call[u]
BY DEF LedgerTyped

LEMMA IdleCall ==
    ASSUME LedgerTyped, NEW t \in Learners
    PROVE  /\ Logger!NoCall \in CallType /\ Logger!NoCall.kind = "none" /\ Logger!NoCall.step = 0
           /\ Logger!NoCall.symbol = "none"
           /\ call[t] \in CallType /\ call[t].step \in 0..6 /\ call[t].kind \in {"none", "open", "close"}
BY DEF Logger!NoCall, CallType, LedgerTyped

\* A thread whose call is not the holder's: the books stand.
LEMMA HolderStands ==
    ASSUME LedgerTyped, LedgerCalls, NEW t \in Learners, NEW c, call' = [call EXCEPT ![t] = c],
           keyLock' = keyLock, keyLock # t,
           \A i \in DOMAIN trades : trades'[i] = trades[i]
    PROVE  HolderStep' = HolderStep /\ HolderPnl' = HolderPnl
<1>1. CASE keyLock = "free"
  <2>1. HolderStep = 0 /\ HolderStep' = 0
    BY <1>1 DEF HolderStep
  <2>2. QED
    BY <2>1 DEF HolderPnl
<1>2. CASE keyLock # "free"
  <2>1. keyLock \in Learners
    BY <1>2 DEF LedgerTyped
  <2>2. call'[keyLock] = call[keyLock]
    BY <2>1, OthersCalls
  <2>3. HolderStep' = HolderStep
    BY <1>2, <2>2 DEF HolderStep
  <2>4. CASE HolderStep = 0
    BY <2>3, <2>4 DEF HolderPnl
  <2>5. CASE HolderStep # 0
    <3>1. call[keyLock].step > 0
      BY <2>1 DEF LedgerCalls
    <3>2. call[keyLock].trade \in DOMAIN trades
      BY <2>1, <3>1, Holder
    <3>3. trades'[call[keyLock].trade] = trades[call[keyLock].trade]
      BY <3>2
    <3>4. QED
      BY <2>2, <2>3, <2>5, <3>3 DEF HolderPnl
  <2>6. QED
    BY <2>3, <2>4, <2>5
<1>3. QED
  BY <1>1, <1>2

\* One thread's call, and what is held and open of one symbol, change.
OpenFits(t, c, s) ==
    /\ trouble = {} /\ call' = [call EXCEPT ![t] = c]
    /\ \A v \in Held : v # s => held'[v] = held[v] /\ (v \in keys'.open <=> v \in keys.open)
    /\ call[t].symbol \in {"none", s} /\ c.symbol \in {"none", s}
    /\ \A u \in Learners : u # t => call[u].symbol # s
    /\ c.kind = "open" => c.symbol = s /\ held'[s] > 0 /\ s \notin keys'.open
    /\ c.kind = "close" => c.symbol = s /\ held'[s] = 0 /\ s \in keys'.open
    /\ c.symbol # s => (s \in keys'.open <=> held'[s] > 0)

LEMMA OpenKept ==
    ASSUME LedgerTyped, LedgerCalls, LedgerOpen,
           NEW t \in Learners, NEW c \in CallType, NEW s \in Held, OpenFits(t, c, s)
    PROVE  LedgerOpen'
<1>0. /\ call' = [call EXCEPT ![t] = c]
      /\ \A v \in Held : v # s => held'[v] = held[v] /\ (v \in keys'.open <=> v \in keys.open)
      /\ call[t].symbol \in {"none", s} /\ c.symbol \in {"none", s}
      /\ \A u \in Learners : u # t => call[u].symbol # s
      /\ c.kind = "open" => c.symbol = s /\ held'[s] > 0 /\ s \notin keys'.open
      /\ c.kind = "close" => c.symbol = s /\ held'[s] = 0 /\ s \in keys'.open
      /\ c.symbol # s => (s \in keys'.open <=> held'[s] > 0)
  BY DEF OpenFits
<1>1. /\ \A u \in Learners, v \in Learners :
            call[u].symbol = call[v].symbol /\ call[u].symbol # "none" => u = v
      /\ \A u \in Learners : call[u].kind = "open" =>
            held[call[u].symbol] > 0 /\ call[u].symbol \notin keys.open
      /\ \A u \in Learners : call[u].kind = "close" =>
            held[call[u].symbol] = 0 /\ call[u].symbol \in keys.open
      /\ \A v \in Held : (\A u \in Learners : call[u].symbol # v) => (v \in keys.open <=> held[v] > 0)
  BY DEF LedgerOpen, OpenFits
<1>2. call'[t] = c /\ \A u \in Learners : u # t => call'[u] = call[u]
  BY <1>0, OthersCalls
<1>3. \A u \in Learners : call[u].kind \in {"open", "close"} => call[u].symbol \in Held
  BY DEF LedgerCalls
<1>4. ASSUME NEW u \in Learners, NEW v \in Learners, call'[u].symbol = call'[v].symbol,
             call'[u].symbol # "none"
      PROVE  u = v
  BY <1>0, <1>1, <1>2, <1>4
<1>5. ASSUME NEW u \in Learners, call'[u].kind = "open"
      PROVE  held'[call'[u].symbol] > 0 /\ call'[u].symbol \notin keys'.open
  <2>1. CASE u = t
    BY <1>0, <1>2, <1>5, <2>1
  <2>2. CASE u # t
    BY <1>0, <1>1, <1>2, <1>3, <1>5, <2>2
  <2>3. QED
    BY <2>1, <2>2
<1>6. ASSUME NEW u \in Learners, call'[u].kind = "close"
      PROVE  held'[call'[u].symbol] = 0 /\ call'[u].symbol \in keys'.open
  <2>1. CASE u = t
    BY <1>0, <1>2, <1>6, <2>1
  <2>2. CASE u # t
    BY <1>0, <1>1, <1>2, <1>3, <1>6, <2>2
  <2>3. QED
    BY <2>1, <2>2
<1>7. ASSUME NEW v \in Held, \A u \in Learners : call'[u].symbol # v
      PROVE  v \in keys'.open <=> held'[v] > 0
  <2>1. CASE v = s
    BY <1>0, <1>2, <1>7, <2>1
  <2>2. CASE v # s
    <3>1. \A u \in Learners : call[u].symbol # v
      <4> SUFFICES ASSUME NEW u \in Learners PROVE call[u].symbol # v
        OBVIOUS
      <4>1. CASE u = t
        BY <1>0, <2>2, <4>1, LedgerNumbers
      <4>2. CASE u # t
        BY <1>2, <1>7, <4>2
      <4>3. QED
        BY <4>1, <4>2
    <3>2. QED
      BY <1>0, <1>1, <2>2, <3>1
  <2>3. QED
    BY <2>1, <2>2
<1>8. QED
  BY <1>4, <1>5, <1>6, <1>7 DEF LedgerOpen

LEMMA OpensStep ==
    ASSUME LedgerInv, NEW t \in Learners, NEW s \in Held, NEW size \in 1..2, Logger!Opens(t, s, size)
    PROVE  LedgerInv'
<1> DEFINE c == [kind |-> "open", symbol |-> s, trade |-> 0, step |-> 0]
<1>0. LedgerTyped /\ LedgerCalls /\ LedgerHistory /\ LedgerBooks /\ LedgerOpen
  BY DEF LedgerInv
<1>1. /\ call[t] = Logger!NoCall /\ held[s] = 0 /\ trouble' = trouble \cup Logger!Overlap(s)
      /\ held' = [held EXCEPT ![s] = size] /\ call' = [call EXCEPT ![t] = c]
      /\ trades' = trades /\ keys' = keys /\ keyLock' = keyLock /\ day' = day
  BY DEF Logger!Opens
<1>2. c \in CallType /\ c.kind = "open" /\ c.symbol = s /\ c.trade = 0 /\ c.step = 0
  BY DEF CallType
<1> HIDE DEF c
<1>3. keyLock # t
  <2>1. ~(call[t].step > 0)
    BY <1>0, <1>1, IdleCall
  <2>2. QED
    BY <1>0, <2>1 DEF LedgerCalls
<1>4. Figures' = Figures /\ LedgerHistory' /\ Logger!AllLogged' = Logger!AllLogged
  BY <1>0, <1>1, FiguresStand
<1>5. call' \in [Learners -> CallType] /\ LedgerCalls'
  <2>1. /\ \A u \in Learners : u # t => (keyLock' = u <=> keyLock = u)
        /\ keyLock' = t <=> c.step > 0
    BY <1>1, <1>2, <1>3
  <2>2. /\ DOMAIN trades \subseteq DOMAIN trades' /\ c.kind # "none" /\ c.kind # "close"
        /\ c.kind = "open" => c.symbol \in Held /\ c.trade = 0 /\ c.step = 0
    BY <1>1, <1>2
  <2>3. \A u \in Learners : u # t /\ call[u].kind = "close" =>
           /\ c.kind = "close" => call[u].trade # c.trade
           /\ call[u].trade \in Logger!AllLogged' <=> call[u].trade \in Logger!AllLogged
    BY <1>2, <1>4
  <2>4. QED
    BY <1>0, <1>1, <1>2, <2>1, <2>2, <2>3, CallChanges
<1>6. HolderStep' = HolderStep /\ HolderPnl' = HolderPnl
  BY <1>0, <1>1, <1>3, HolderStands
<1>7. LedgerBooks'
  BY <1>0, <1>1, <1>4, <1>6, BooksKept
<1>8. LedgerTyped'
  <2>1. held' \in [Held -> 0..2]
    BY <1>0, <1>1 DEF LedgerTyped
  <2>2. trouble' \subseteq {"partial", "overlap", "failed", "crashed"}
    BY <1>0, <1>1 DEF LedgerTyped, Logger!Overlap
  <2>3. QED
    BY <1>0, <1>1, <1>5, <2>1, <2>2 DEF LedgerTyped
<1>9. LedgerOpen'
  <2> SUFFICES ASSUME trouble' = {} PROVE LedgerOpen'
    BY DEF LedgerOpen
  <2>1. trouble = {} /\ \A u \in Learners : call[u].symbol # s
    BY <1>1 DEF Logger!Overlap
  <2>2. s \notin keys.open
    BY <1>0, <1>1, <2>1 DEF LedgerOpen
  <2>3. held'[s] > 0 /\ \A v \in Held : v # s => held'[v] = held[v]
    BY <1>0, <1>1 DEF LedgerTyped
  <2>4. call[t].symbol \in {"none", s}
    BY <1>0, <1>1, IdleCall
  <2>5. /\ \A v \in Held : v # s => held'[v] = held[v] /\ (v \in keys'.open <=> v \in keys.open)
        /\ c.symbol \in {"none", s} /\ c.symbol = s
    BY <1>1, <1>2, <2>3
  <2>6. c.kind # "close" /\ (c.kind = "open" => c.symbol = s /\ held'[s] > 0 /\ s \notin keys'.open)
    BY <1>1, <1>2, <2>2, <2>3
  <2>7. OpenFits(t, c, s)
    BY <1>1, <2>1, <2>4, <2>5, <2>6 DEF OpenFits
  <2>8. QED
    BY <1>0, <1>2, <2>7, OpenKept
<1>10. QED
  BY <1>4, <1>5, <1>7, <1>8, <1>9 DEF LedgerInv
LEMMA ClosesStep ==
    ASSUME LedgerInv, NEW t \in Learners, NEW s \in Held, NEW size \in 1..2, NEW pnl \in PnLs,
           Logger!Closes(t, s, size, pnl)
    PROVE  LedgerInv'
<1> DEFINE n == Len(trades) + 1
           c == [kind |-> "close", symbol |-> s, trade |-> n, step |-> 0]
           e == [symbol |-> s, pnl |-> pnl]
<1>0. LedgerTyped /\ LedgerCalls /\ LedgerHistory /\ LedgerBooks /\ LedgerOpen
  BY DEF LedgerInv
<1>1. /\ call[t] = Logger!NoCall /\ size <= held[s]
      /\ trouble' = (trouble \cup Logger!Overlap(s)) \cup (IF size < held[s] THEN {"partial"} ELSE {})
      /\ held' = [held EXCEPT ![s] = @ - size] /\ trades' = Append(trades, e)
      /\ call' = [call EXCEPT ![t] = c] /\ keys' = keys /\ keyLock' = keyLock /\ day' = day
  BY DEF Logger!Closes
<1>2. DOMAIN trades = 1..Len(trades) /\ Len(trades) \in Nat
  BY <1>0, TradeNumbers
<1>3. c \in CallType /\ c.kind = "close" /\ c.symbol = s /\ c.trade = n /\ c.step = 0
  BY <1>2 DEF CallType
<1>4. /\ trades' \in Seq([symbol : Held, pnl : PnLs]) /\ DOMAIN trades' = 1..n
      /\ \A i \in DOMAIN trades : i \in DOMAIN trades' /\ trades'[i] = trades[i]
  <2> DEFINE T == [symbol : Held, pnl : PnLs]
  <2>1. trades \in Seq(T) /\ e \in T
    BY <1>0 DEF LedgerTyped
  <2> HIDE DEF T, e
  <2>2. trades' \in Seq(T) /\ DOMAIN trades' = 1..n /\ \A i \in 1..Len(trades) : trades'[i] = trades[i]
    BY <1>1, <2>1
  <2>3. QED
    BY <1>2, <2>2 DEF T
<1> HIDE DEF c, e, n
<1>5. keyLock # t
  <2>1. ~(call[t].step > 0)
    BY <1>0, <1>1, IdleCall
  <2>2. QED
    BY <1>0, <2>1 DEF LedgerCalls
<1>6. Figures' = Figures /\ LedgerHistory' /\ Logger!AllLogged' = Logger!AllLogged
  BY <1>0, <1>1, <1>4, FiguresStand
<1>7. n \notin Logger!AllLogged /\ n \notin DOMAIN trades /\ n \in DOMAIN trades'
  BY <1>0, <1>2, <1>4 DEF LedgerHistory, n
<1>8. call' \in [Learners -> CallType] /\ LedgerCalls'
  <2>1. /\ \A u \in Learners : u # t => (keyLock' = u <=> keyLock = u)
        /\ keyLock' = t <=> c.step > 0
    BY <1>1, <1>3, <1>5
  <2>2. /\ DOMAIN trades \subseteq DOMAIN trades' /\ c.kind # "none" /\ c.kind # "open"
    BY <1>3, <1>4
  <2>3. c.kind = "close" => /\ c.symbol \in Held /\ c.trade \in DOMAIN trades'
                            /\ c.trade \in Logger!AllLogged' <=> c.step > 1
    BY <1>3, <1>6, <1>7
  <2>4. \A u \in Learners : u # t /\ call[u].kind = "close" =>
           /\ c.kind = "close" => call[u].trade # c.trade
           /\ call[u].trade \in Logger!AllLogged' <=> call[u].trade \in Logger!AllLogged
    BY <1>0, <1>3, <1>6, <1>7 DEF LedgerCalls
  <2>5. QED
    BY <1>0, <1>1, <1>3, <2>1, <2>2, <2>3, <2>4, CallChanges
<1>9. HolderStep' = HolderStep /\ HolderPnl' = HolderPnl
  BY <1>0, <1>1, <1>4, <1>5, HolderStands
<1>10. LedgerBooks'
  BY <1>0, <1>1, <1>6, <1>9, BooksKept
<1>11. held' \in [Held -> 0..2] /\ held'[s] = held[s] - size /\ \A v \in Held : v # s => held'[v] = held[v]
  <2>1. held \in [Held -> 0..2]
    BY <1>0 DEF LedgerTyped
  <2>2. held[s] - size \in 0..2
    BY <1>1, <2>1
  <2>3. QED
    BY <1>1, <2>1, <2>2
<1>12. LedgerTyped'
  <2>1. trouble' \subseteq {"partial", "overlap", "failed", "crashed"}
    BY <1>0, <1>1 DEF LedgerTyped, Logger!Overlap
  <2>2. QED
    BY <1>0, <1>1, <1>4, <1>8, <1>11, <2>1 DEF LedgerTyped
<1>13. LedgerOpen'
  <2> SUFFICES ASSUME trouble' = {} PROVE LedgerOpen'
    BY DEF LedgerOpen
  <2>1. trouble = {} /\ (\A u \in Learners : call[u].symbol # s) /\ ~(size < held[s])
    BY <1>1 DEF Logger!Overlap
  <2>2. held[s] \in 0..2 /\ size = held[s] /\ held[s] > 0
    BY <1>0, <1>1, <2>1 DEF LedgerTyped
  <2>3. held'[s] = 0
    BY <1>11, <2>2
  <2>4. s \in keys.open
    BY <1>0, <2>1, <2>2 DEF LedgerOpen
  <2>5. call[t].symbol \in {"none", s}
    BY <1>0, <1>1, IdleCall
  <2>6. /\ \A v \in Held : v # s => held'[v] = held[v] /\ (v \in keys'.open <=> v \in keys.open)
        /\ c.symbol \in {"none", s} /\ c.symbol = s
    BY <1>1, <1>3, <1>11
  <2>7. c.kind # "open" /\ (c.kind = "close" => c.symbol = s /\ held'[s] = 0 /\ s \in keys'.open)
    BY <1>1, <1>3, <2>3, <2>4
  <2>8. OpenFits(t, c, s)
    BY <1>1, <2>1, <2>5, <2>6, <2>7 DEF OpenFits
  <2>9. QED
    BY <1>0, <1>3, <2>8, OpenKept
<1>14. QED
  BY <1>6, <1>8, <1>10, <1>12, <1>13 DEF LedgerInv
\* A call ends that did not have the lock; the open positions may change with it.
LEMMA ReturnsStep ==
    ASSUME LedgerInv, NEW t \in Learners, keyLock # t, call' = [call EXCEPT ![t] = Logger!NoCall],
           UNCHANGED <<held, trades, keyLock, day>>, trouble' \in {trouble, trouble \cup {"failed"}},
           NEW left \in SUBSET Held, keys' = [keys EXCEPT !.open = left],
           trouble' = {} => \A s \in Held :
               IF s = call[t].symbol THEN s \in left <=> held[s] > 0 ELSE s \in left <=> s \in keys.open
    PROVE  LedgerInv'
<1> DEFINE c == Logger!NoCall
<1>0. LedgerTyped /\ LedgerCalls /\ LedgerHistory /\ LedgerBooks /\ LedgerOpen
  BY DEF LedgerInv
<1>1. c \in CallType /\ c.kind = "none" /\ c.step = 0 /\ c.symbol = "none" /\ c = Logger!NoCall
  BY <1>0, IdleCall
<1>2. call' = [call EXCEPT ![t] = c] /\ held' = held /\ trades' = trades /\ keyLock' = keyLock /\ day' = day
  OBVIOUS
<1>3. /\ keys' \in KeysType /\ keys'.open = left /\ keys'.history = keys.history
      /\ keys'.daily_pnl = keys.daily_pnl /\ keys'.cumulative = keys.cumulative
      /\ keys'.count = keys.count /\ keys'.daily_stats = keys.daily_stats
  <2>1. keys \in KeysType
    BY <1>0 DEF LedgerTyped
  <2>2. QED
    BY <2>1 DEF KeysType
<1> HIDE DEF c
<1>4. Figures' = Figures /\ LedgerHistory' /\ Logger!AllLogged' = Logger!AllLogged
  BY <1>0, <1>2, <1>3, FiguresStand
<1>5. call' \in [Learners -> CallType] /\ LedgerCalls'
  <2>1. /\ \A u \in Learners : u # t => (keyLock' = u <=> keyLock = u)
        /\ keyLock' = t <=> c.step > 0
    BY <1>1, <1>2
  <2>2. DOMAIN trades \subseteq DOMAIN trades' /\ c.kind # "close" /\ c.kind # "open"
    BY <1>1, <1>2
  <2>3. \A u \in Learners : u # t /\ call[u].kind = "close" =>
           /\ c.kind = "close" => call[u].trade # c.trade
           /\ call[u].trade \in Logger!AllLogged' <=> call[u].trade \in Logger!AllLogged
    BY <1>1, <1>4
  <2>4. QED
    BY <1>0, <1>1, <1>2, <2>1, <2>2, <2>3, CallChanges
<1>6. HolderStep' = HolderStep /\ HolderPnl' = HolderPnl
  BY <1>0, <1>2, HolderStands
<1>7. trouble \subseteq trouble'
  OBVIOUS
<1>8. LedgerBooks'
  BY <1>0, <1>4, <1>6, <1>7, BooksKept
<1>9. LedgerTyped'
  <2>1. trouble' \subseteq {"partial", "overlap", "failed", "crashed"}
    BY <1>0 DEF LedgerTyped
  <2>2. QED
    BY <1>0, <1>2, <1>3, <1>5, <2>1 DEF LedgerTyped
<1>10. LedgerOpen'
  <2> SUFFICES ASSUME trouble' = {} PROVE LedgerOpen'
    BY DEF LedgerOpen
  <2>1. trouble = {}
    BY <1>7
  <2>2. CASE call[t].symbol \in Held
    <3> DEFINE s == call[t].symbol
    <3>1. /\ \A v \in Held : v # s => held'[v] = held[v] /\ (v \in keys'.open <=> v \in keys.open)
          /\ s \in keys'.open <=> held'[s] > 0
      BY <1>2, <1>3, <2>2
    <3>2. \A u \in Learners : u # t => call[u].symbol # s
      <4>1. s # "none"
        BY <2>2, LedgerNumbers
      <4>2. QED
        BY <1>0, <2>1, <4>1 DEF LedgerOpen
    <3>3. s \in Held /\ call[t].symbol \in {"none", s}
      BY <2>2
    <3>4. c.symbol \in {"none", s} /\ c.kind # "open" /\ c.kind # "close"
      BY <1>1
    <3> HIDE DEF s
    <3>5. OpenFits(t, c, s)
      BY <1>2, <2>1, <3>1, <3>2, <3>3, <3>4 DEF OpenFits
    <3>6. QED
      BY <1>0, <1>1, <3>3, <3>5, OpenKept
  <2>3. CASE call[t].symbol \notin Held
    <3>1. keys'.open = keys.open /\ held' = held
      <4>1. \A s \in Held : s \in left <=> s \in keys.open
        BY <2>3
      <4>2. keys.open \in SUBSET Held
        BY <1>0 DEF LedgerTyped, KeysType
      <4>3. QED
        BY <1>2, <1>3, <4>1, <4>2
    <3>2. call[t].kind = "none"
      BY <1>0, <2>3, IdleCall DEF LedgerCalls
    <3>3. call[t] = c
      BY <1>0, <1>1, <3>2 DEF LedgerCalls
    <3>4. call' = call
      BY <1>0, <1>2, <3>3 DEF LedgerTyped
    <3>5. QED
      BY <1>0, <2>1, <3>1, <3>4 DEF LedgerOpen
  <2>4. QED
    BY <2>2, <2>3
<1>11. QED
  BY <1>4, <1>5, <1>8, <1>9, <1>10 DEF LedgerInv
LEMMA LogOpenStep ==
    ASSUME LedgerInv, NEW t \in Learners, Logger!LogOpen(t) \/ Logger!LogOpenFails(t)
    PROVE  LedgerInv'
<1> DEFINE left == IF Logger!LogOpen(t) THEN keys.open \cup {call[t].symbol} ELSE keys.open
<1>0. LedgerTyped /\ LedgerCalls /\ LedgerOpen
  BY DEF LedgerInv
<1>1. /\ call[t].kind = "open" /\ keyLock = "free" /\ call' = [call EXCEPT ![t] = Logger!NoCall]
      /\ held' = held /\ trades' = trades /\ keyLock' = keyLock /\ day' = day
  BY DEF Logger!LogOpen, Logger!LogOpenFails, Logger!Return, Logger!Free
<1>2. keyLock # t
  BY <1>1, LedgerNumbers
<1>3. call[t].symbol \in Held /\ keys \in KeysType /\ keys.open \in SUBSET Held
  BY <1>0, <1>1 DEF LedgerCalls, LedgerTyped, KeysType
<1>4. left \in SUBSET Held
  BY <1>3
<1>5. keys' = [keys EXCEPT !.open = left]
  <2>1. CASE Logger!LogOpen(t)
    BY <2>1 DEF Logger!LogOpen
  <2>2. CASE ~Logger!LogOpen(t)
    <3>1. keys' = keys /\ left = keys.open
      BY <2>2 DEF Logger!LogOpenFails
    <3>2. keys = [keys EXCEPT !.open = keys.open]
      BY <1>3 DEF KeysType
    <3>3. QED
      BY <3>1, <3>2
  <2>3. QED
    BY <2>1, <2>2
<1>6. trouble' \in {trouble, trouble \cup {"failed"}}
  BY DEF Logger!LogOpen, Logger!LogOpenFails
<1>7. trouble' = {} => \A s \in Held :
         IF s = call[t].symbol THEN s \in left <=> held[s] > 0 ELSE s \in left <=> s \in keys.open
  <2> SUFFICES ASSUME trouble' = {}, NEW s \in Held
               PROVE  IF s = call[t].symbol THEN s \in left <=> held[s] > 0 ELSE s \in left <=> s \in keys.open
    OBVIOUS
  <2>1. trouble = {} /\ Logger!LogOpen(t)
    BY <1>6 DEF Logger!LogOpenFails
  <2>2. held[call[t].symbol] > 0
    BY <1>0, <1>1, <2>1 DEF LedgerOpen
  <2>3. QED
    BY <2>1, <2>2
<1> HIDE DEF left
<1>8. QED
  BY <1>1, <1>2, <1>4, <1>5, <1>6, <1>7, ReturnsStep

\* A close enters its first command or its next one.
LEMMA StepOn ==
    ASSUME LedgerTyped, LedgerCalls, NEW t \in Learners, NEW step \in 1..6, call[t].kind = "close",
           call' = [call EXCEPT ![t].step = step], keyLock' = t, keyLock \in {t, "free"},
           trades' = trades, call[t].trade \in Logger!AllLogged' <=> step > 1,
           \A u \in Learners : u # t /\ call[u].kind = "close" =>
              (call[u].trade \in Logger!AllLogged' <=> call[u].trade \in Logger!AllLogged)
    PROVE  /\ call' \in [Learners -> CallType] /\ LedgerCalls'
           /\ HolderStep' = step /\ HolderPnl' = trades[call[t].trade].pnl
           /\ \A u \in Learners : call'[u].kind = call[u].kind /\ call'[u].symbol = call[u].symbol
<1> DEFINE c == [call[t] EXCEPT !.step = step]
<1>1. call[t] \in CallType /\ call \in [Learners -> CallType]
  BY DEF LedgerTyped
<1>2. c \in CallType /\ c.kind = call[t].kind /\ c.symbol = call[t].symbol /\ c.trade = call[t].trade
      /\ c.step = step
  BY <1>1 DEF CallType
<1>3. call' = [call EXCEPT ![t] = c]
  BY <1>1
<1> HIDE DEF c
<1>4. call'[t] = c /\ \A u \in Learners : u # t => call'[u] = call[u]
  BY <1>3, OthersCalls
<1>5. /\ \A u \in Learners : u # t => (keyLock' = u <=> keyLock = u)
      /\ keyLock' = t <=> c.step > 0
  BY <1>2, LedgerNumbers
<1>6. /\ DOMAIN trades \subseteq DOMAIN trades' /\ c.kind # "none" /\ c.kind # "open"
      /\ c.kind = "close" => /\ c.symbol \in Held /\ c.trade \in DOMAIN trades'
                             /\ c.trade \in Logger!AllLogged' <=> c.step > 1
  BY <1>2 DEF LedgerCalls
<1>7. \A u \in Learners : u # t /\ call[u].kind = "close" =>
         /\ c.kind = "close" => call[u].trade # c.trade
         /\ call[u].trade \in Logger!AllLogged' <=> call[u].trade \in Logger!AllLogged
  BY <1>2 DEF LedgerCalls
<1>8. call' \in [Learners -> CallType] /\ LedgerCalls'
  BY <1>2, <1>3, <1>5, <1>6, <1>7, CallChanges
<1>9. HolderStep' = step /\ HolderPnl' = trades[call[t].trade].pnl
  <2>1. t # "free" /\ step # 0
    BY LedgerNumbers
  <2>2. HolderStep' = call'[t].step
    BY <2>1 DEF HolderStep
  <2>3. HolderStep' = step
    BY <1>2, <1>4, <2>2
  <2>4. HolderPnl' = trades'[call'[t].trade].pnl
    BY <2>1, <2>3 DEF HolderPnl
  <2>5. QED
    BY <1>2, <1>4, <2>3, <2>4
<1>10. \A u \in Learners : call'[u].kind = call[u].kind /\ call'[u].symbol = call[u].symbol
  BY <1>2, <1>4
<1>11. QED
  BY <1>8, <1>9, <1>10

LEMMA OpenStands ==
    ASSUME LedgerOpen, keys'.open = keys.open, held' = held, trouble' = trouble,
           \A u \in Learners : call'[u].kind = call[u].kind /\ call'[u].symbol = call[u].symbol
    PROVE  LedgerOpen'
<1> SUFFICES ASSUME trouble' = {} PROVE LedgerOpen'
  BY DEF LedgerOpen
<1>1. /\ \A u \in Learners, v \in Learners :
            call[u].symbol = call[v].symbol /\ call[u].symbol # "none" => u = v
      /\ \A u \in Learners : call[u].kind = "open" =>
            held[call[u].symbol] > 0 /\ call[u].symbol \notin keys.open
      /\ \A u \in Learners : call[u].kind = "close" =>
            held[call[u].symbol] = 0 /\ call[u].symbol \in keys.open
      /\ \A v \in Held : (\A u \in Learners : call[u].symbol # v) => (v \in keys.open <=> held[v] > 0)
  BY DEF LedgerOpen
<1>2. QED
  BY <1>1 DEF LedgerOpen

LEMMA LogCloseStep ==
    ASSUME LedgerInv, NEW t \in Learners, Logger!LogClose(t)
    PROVE  LedgerInv'
<1>0. LedgerTyped /\ LedgerCalls /\ LedgerHistory /\ LedgerBooks /\ LedgerOpen
  BY DEF LedgerInv
<1>1. /\ call[t].kind = "close" /\ call[t].step = 0 /\ keyLock = "free"
      /\ held' = held /\ trades' = trades /\ keys' = keys /\ day' = day /\ trouble' = trouble
  BY DEF Logger!LogClose, Logger!Free
<1>2. CASE call[t].symbol \in keys.open
  <2>1. keyLock' = t /\ call' = [call EXCEPT ![t].step = 1]
    BY <1>2 DEF Logger!LogClose
  <2>2. Figures' = Figures /\ LedgerHistory' /\ Logger!AllLogged' = Logger!AllLogged
    BY <1>0, <1>1, FiguresStand
  <2>3. call[t].trade \in Logger!AllLogged' <=> 1 > 1
    BY <1>0, <1>1, <2>2 DEF LedgerCalls
  <2>4. /\ call' \in [Learners -> CallType] /\ LedgerCalls' /\ HolderStep' = 1
        /\ \A u \in Learners : call'[u].kind = call[u].kind /\ call'[u].symbol = call[u].symbol
    <3>1. 1 \in 1..6 /\ keyLock \in {t, "free"}
      BY <1>1
    <3>2. \A u \in Learners : u # t /\ call[u].kind = "close" =>
            (call[u].trade \in Logger!AllLogged' <=> call[u].trade \in Logger!AllLogged)
      BY <2>2
    <3>3. QED
      BY <1>0, <1>1, <2>1, <2>3, <3>1, <3>2, StepOn
  <2>5. HolderStep \in Idle /\ HolderStep' \in Idle
    BY <1>1, <2>4 DEF HolderStep, Idle
  <2>6. LedgerBooks'
    BY <1>0, <1>1, <2>2, <2>5, BooksKept
  <2>7. LedgerOpen'
    BY <1>0, <1>1, <2>4, OpenStands
  <2>8. LedgerTyped'
    BY <1>0, <1>1, <2>1, <2>4 DEF LedgerTyped
  <2>9. QED
    BY <2>2, <2>4, <2>6, <2>7, <2>8 DEF LedgerInv
<1>3. CASE call[t].symbol \notin keys.open
  <2>1. call' = [call EXCEPT ![t] = Logger!NoCall] /\ keyLock' = keyLock /\ keyLock # t
    BY <1>1, <1>3, LedgerNumbers DEF Logger!LogClose, Logger!Return
  <2>2. keys.open \in SUBSET Held /\ keys' = [keys EXCEPT !.open = keys.open]
    BY <1>0, <1>1 DEF LedgerTyped, KeysType
  <2>3. trouble # {}
    BY <1>0, <1>1, <1>3 DEF LedgerOpen
  <2>4. trouble' \in {trouble, trouble \cup {"failed"}} /\ trouble' # {}
    BY <1>1, <2>3
  <2>5. trouble' = {} => \A s \in Held :
         IF s = call[t].symbol THEN s \in keys.open <=> held[s] > 0
         ELSE s \in keys.open <=> s \in keys.open
    BY <2>4
  <2>6. QED
    BY <1>1, <2>1, <2>2, <2>4, <2>5, ReturnsStep
<1>4. QED
  BY <1>2, <1>3

LEMMA CommandFailsStep ==
    ASSUME LedgerInv, NEW t \in Learners, Logger!CommandFails(t)
    PROVE  LedgerInv'
<1> DEFINE c == Logger!NoCall
<1>0. LedgerTyped /\ LedgerCalls /\ LedgerHistory /\ LedgerBooks
  BY DEF LedgerInv
<1>1. /\ trouble' = trouble \cup {"failed"} /\ call[t].step > 0 /\ keyLock' = "free"
      /\ call' = [call EXCEPT ![t] = c]
      /\ held' = held /\ trades' = trades /\ keys' = keys /\ day' = day
  BY DEF Logger!CommandFails, Logger!Return, Logger!Free
<1>2. c \in CallType /\ c.kind = "none" /\ c.step = 0 /\ c = Logger!NoCall
  BY <1>0, IdleCall
<1> HIDE DEF c
<1>3. keyLock = t
  BY <1>0, <1>1, Holder
<1>4. Figures' = Figures /\ LedgerHistory' /\ Logger!AllLogged' = Logger!AllLogged
  BY <1>0, <1>1, FiguresStand
<1>5. call' \in [Learners -> CallType] /\ LedgerCalls'
  <2>1. /\ \A u \in Learners : u # t => (keyLock' = u <=> keyLock = u)
        /\ keyLock' = t <=> c.step > 0
    BY <1>1, <1>2, <1>3, LedgerNumbers
  <2>2. DOMAIN trades \subseteq DOMAIN trades' /\ c.kind # "close" /\ c.kind # "open"
    BY <1>1, <1>2
  <2>3. \A u \in Learners : u # t /\ call[u].kind = "close" =>
           /\ c.kind = "close" => call[u].trade # c.trade
           /\ call[u].trade \in Logger!AllLogged' <=> call[u].trade \in Logger!AllLogged
    BY <1>2, <1>4
  <2>4. QED
    BY <1>0, <1>1, <1>2, <2>1, <2>2, <2>3, CallChanges
<1>6. HolderStep' = 0 /\ ~Clean' /\ trouble \subseteq trouble' /\ trouble' # {}
  BY <1>1 DEF HolderStep, Clean
<1>7. LedgerBooks'
  BY <1>0, <1>4, <1>6, BooksKept
<1>8. LedgerTyped'
  BY <1>0, <1>1, <1>5 DEF LedgerTyped
<1>9. LedgerOpen'
  BY <1>6 DEF LedgerOpen
<1>10. QED
  BY <1>4, <1>5, <1>7, <1>8, <1>9 DEF LedgerInv

LEMMA LoggerCrashes == LedgerInv /\ Logger!Crash => LedgerInv'
<1> SUFFICES ASSUME LedgerInv, Logger!Crash PROVE LedgerInv'
  OBVIOUS
<1>0. LedgerTyped /\ LedgerCalls /\ LedgerHistory /\ LedgerBooks
  BY DEF LedgerInv
<1>1. /\ trouble' = trouble \cup {"crashed"} /\ keyLock' = "free"
      /\ held' = [s \in Held |-> 0] /\ call' = [t \in Learners |-> Logger!NoCall]
      /\ trades' = trades /\ keys' = keys /\ day' = day
  BY DEF Logger!Crash, Logger!Free
<1>2. Logger!NoCall \in CallType /\ Logger!NoCall.kind = "none" /\ Logger!NoCall.step = 0
  BY DEF Logger!NoCall, CallType
<1>3. Figures' = Figures /\ LedgerHistory' /\ Logger!AllLogged' = Logger!AllLogged
  BY <1>0, <1>1, FiguresStand
<1>4. \A t \in Learners : call'[t] = Logger!NoCall
  BY <1>1
<1>5. LedgerCalls'
  <2>1. \A t \in Learners : ~(keyLock' = t) /\ ~(call'[t].step > 0)
    BY <1>1, <1>2, <1>4, LedgerNumbers
  <2>2. \A t \in Learners : call'[t].kind # "open" /\ call'[t].kind # "close"
    BY <1>2, <1>4
  <2>3. \A t \in Learners : call'[t] = Logger!NoCall'
    BY <1>4 DEF Logger!NoCall
  <2>4. QED
    BY <2>1, <2>2, <2>3 DEF LedgerCalls
<1>6. HolderStep' = 0 /\ ~Clean' /\ trouble \subseteq trouble' /\ trouble' # {}
  BY <1>1 DEF HolderStep, Clean
<1>7. LedgerBooks'
  BY <1>0, <1>3, <1>6, BooksKept
<1>8. LedgerTyped'
  BY <1>0, <1>1, <1>2 DEF LedgerTyped
<1>9. LedgerOpen'
  BY <1>6 DEF LedgerOpen
<1>10. QED
  BY <1>3, <1>5, <1>7, <1>8, <1>9 DEF LedgerInv

LEMMA LoggerMidnight ==
    ASSUME LedgerInv, UNCHANGED <<held, trades, keys, keyLock, call, trouble>>, day' \in Logger!Days
    PROVE  LedgerInv'
<1>0. LedgerTyped /\ LedgerCalls /\ LedgerHistory /\ LedgerBooks /\ LedgerOpen
  BY DEF LedgerInv
<1>1. Figures' = Figures /\ LedgerHistory' /\ Logger!AllLogged' = Logger!AllLogged
  BY <1>0, FiguresStand
<1>2. HolderStep' = HolderStep /\ HolderPnl' = HolderPnl
  <2>1. HolderStep' = HolderStep
    BY DEF HolderStep
  <2>2. QED
    BY <2>1 DEF HolderPnl
<1>3. LedgerBooks'
  BY <1>0, <1>1, <1>2, BooksKept
<1>4. LedgerTyped'
  BY <1>0 DEF LedgerTyped
<1>5. LedgerCalls'
  <2>1. Logger!NoCall' = Logger!NoCall
    BY DEF Logger!NoCall
  <2>2. QED
    BY <1>0, <1>1, <2>1 DEF LedgerCalls
<1>6. LedgerOpen'
  BY <1>0 DEF LedgerOpen
<1>7. QED
  BY <1>1, <1>3, <1>4, <1>5, <1>6 DEF LedgerInv
\* The first command: the history has one more trade.
LEMMA EntryFigures ==
    ASSUME LedgerTyped, LedgerHistory, NEW s \in Held, NEW id \in DOMAIN trades,
           id \notin Logger!AllLogged, keys'.history = Logger!Listed(s, id), trades' = trades,
           NEW pnl, pnl = trades[id].pnl
    PROVE  /\ LedgerHistory' /\ Logger!AllLogged' = Logger!AllLogged \cup {id}
           /\ Figures'[1] = Figures[1] + 1 /\ Figures'[4] = Figures[4] + pnl
           /\ Figures'[5] = Figures[5] + Win(pnl)
<1> DEFINE L == Logger!AllLogged
           W == Winners(Logger!AllLogged)
           F == [i \in DOMAIN trades |-> trades[i].pnl]
<1>1. keys.history \in [Held -> Seq(Nat)] /\ id \in Nat
  BY TradeNumbers DEF LedgerTyped, KeysType
<1>2. keys'.history = [keys.history EXCEPT ![s] = Append(@, id)]
  BY DEF Logger!Listed
<1>3. id \notin Entries(keys.history) /\ Once(keys.history)
  BY AllEntries DEF LedgerHistory, Logger!Logged, Once
<1>4. Entries(keys'.history) = Entries(keys.history) \cup {id} /\ Once(keys'.history)
  <2> DEFINE h == keys.history
             g == keys'.history
  <2>1. h \in [Held -> Seq(Nat)] /\ id \notin Entries(h) /\ Once(h)
    BY <1>1, <1>3
  <2>2. g = [h EXCEPT ![s] = Append(@, id)]
    BY <1>2
  <2> HIDE DEF h, g
  <2>3. Entries(g) = Entries(h) \cup {id} /\ Once(g)
    BY <1>1, <2>1, <2>2, EntryAdded
  <2>4. QED
    BY <2>3 DEF h, g
<1>5. Logger!AllLogged' = L \cup {id}
  BY <1>4, AllEntries
<1>6. LedgerHistory'
  <2>1. Logger!AllLogged' \subseteq DOMAIN trades'
    BY <1>5 DEF LedgerHistory
  <2>2. QED
    BY <1>4, <2>1 DEF LedgerHistory, Logger!Logged, Once
<1>7. /\ IsFiniteSet(L) /\ IsFiniteSet(W) /\ id \notin L /\ id \notin W /\ L \subseteq DOMAIN trades
      /\ \A i \in DOMAIN trades : trades[i].pnl \in Int
  BY FiguresTyped DEF FigureTypes, Winners, LedgerHistory
<1>8. Figures'[1] = Figures[1] + 1
  <2>1. Figures'[1] = Cardinality(Logger!AllLogged') /\ Figures[1] = Cardinality(L)
    BY DEF Figures
  <2> HIDE DEF L
  <2>2. Cardinality(L \cup {id}) = Cardinality(L) + 1
    BY <1>7, FS_AddElement
  <2>3. QED
    BY <1>5, <2>1, <2>2
<1>9. Figures'[4] = Figures[4] + pnl
  <2>1. Figures'[4] = SumFunctionOnSet(F, Logger!AllLogged')
    BY DEF Figures, Logger!Total, Logger!SumFunctionOnSet, Logger!FoldFunctionOnSet, Logger!MapThenFoldSet,
           SumFunctionOnSet, FoldFunctionOnSet, MapThenFoldSet
  <2>2. Figures[4] = SumFunctionOnSet(F, L)
    BY TotalIs DEF Figures
  <2>3. /\ \A i \in L \cup {id} : F[i] \in Int
        /\ F[id] = pnl
    BY <1>7
  <2> HIDE DEF L, F
  <2>4. IsFiniteSet(L \cup {id}) /\ (L \cup {id}) \ {id} = L
    BY <1>7, FS_AddElement
  <2>5. SumFunctionOnSet(F, L \cup {id}) = F[id] + SumFunctionOnSet(F, (L \cup {id}) \ {id})
    BY <2>3, <2>4, SumOnOne
  <2>6. SumFunctionOnSet(F, L) \in Int /\ F[id] \in Int
    BY <1>7, <2>3, SumOnType
  <2> DEFINE before == SumFunctionOnSet(F, L)
             after == SumFunctionOnSet(F, L \cup {id})
             new == Figures'[4]
             old == Figures[4]
  <2>7. before \in Int /\ pnl \in Int /\ after = pnl + before
    BY <2>3, <2>4, <2>5, <2>6
  <2>8. new = after /\ old = before
    BY <1>5, <2>1, <2>2
  <2> HIDE DEF before, after, new, old
  <2>9. new = old + pnl
    BY <2>7, <2>8
  <2>10. QED
    BY <2>9 DEF new, old
<1>10. Figures'[5] = Figures[5] + Win(pnl)
  <2> DEFINE V == {i \in Logger!AllLogged' : trades[i].pnl > 0}
  <2>1. Figures'[5] = Cardinality(V) /\ Figures[5] = Cardinality(W)
    BY DEF Figures, Winners
  <2>2. CASE pnl > 0
    <3>1. V = W \cup {id}
      BY <1>5, <2>2 DEF Winners
    <3> HIDE DEF V, W
    <3>2. Cardinality(W \cup {id}) = Cardinality(W) + 1
      BY <1>7, FS_AddElement
    <3>3. QED
      BY <2>1, <2>2, <3>1, <3>2 DEF Win
  <2>3. CASE ~(pnl > 0)
    <3>1. V = W
      BY <1>5, <2>3 DEF Winners
    <3>2. Cardinality(W) \in Nat
      BY <1>7, FS_CardinalityType
    <3> HIDE DEF V, W
    <3>3. QED
      BY <2>1, <2>3, <3>1, <3>2 DEF Win
  <2>4. QED
    BY <2>2, <2>3
<1>11. QED
  BY <1>5, <1>6, <1>8, <1>9, <1>10

\* The others leave the history.
LEMMA HistoryStands ==
    ASSUME LedgerHistory, keys'.history = keys.history, trades' = trades
    PROVE  /\ LedgerHistory' /\ Logger!AllLogged' = Logger!AllLogged
           /\ Figures'[1] = Figures[1] /\ Figures'[4] = Figures[4] /\ Figures'[5] = Figures[5]
<1>1. Logger!AllLogged' = Logger!AllLogged /\ \A s \in Held : Logger!Logged(s)' = Logger!Logged(s)
  BY DEF Logger!AllLogged, Logger!Logged
<1>2. LedgerHistory'
  BY <1>1 DEF LedgerHistory
<1>3. Winners(Logger!AllLogged)' = Winners(Logger!AllLogged)
  BY <1>1 DEF Winners
<1>4. Logger!Total(Logger!AllLogged)' = Logger!Total(Logger!AllLogged)
  BY <1>1 DEF Logger!Total
<1>5. QED
  BY <1>1, <1>2, <1>3, <1>4 DEF Figures

\* The totals of the days, with an amount added to one day.
LEMMA DayAdded ==
    ASSUME LedgerTyped, NEW F, NEW G, NEW amount \in Int, \A d \in Logger!Days : F[d] \in Int,
           G[day] = F[day] + amount, \A d \in Logger!Days : d # day => G[d] = F[d]
    PROVE  Logger!OverDays(G) = Logger!OverDays(F) + amount
<1>1. IsFiniteSet(Logger!Days) /\ day \in Logger!Days
  BY LedgerNumbers DEF LedgerTyped
<1>2. SumFunctionOnSet(G, Logger!Days) = SumFunctionOnSet(F, Logger!Days) + amount
  BY <1>1, SumOnAdded
<1>3. QED
  BY <1>2, OverDaysIs
\* What a command before the last does to the figures.
Moved(k, p) ==
    /\ Figures'[1] = Figures[1] + (IF k = 1 THEN 1 ELSE 0)
    /\ Figures'[2] = Figures[2] + (IF k = 4 THEN 1 ELSE 0)
    /\ Figures'[3] = Figures[3] + (IF k = 5 THEN 1 ELSE 0)
    /\ Figures'[4] = Figures[4] + (IF k = 1 THEN p ELSE 0)
    /\ Figures'[5] = Figures[5] + (IF k = 1 THEN Win(p) ELSE 0)
    /\ Figures'[6] = Figures[6] + (IF k = 3 THEN p ELSE 0)
    /\ Figures'[7] = Figures[7] + (IF k = 2 THEN p ELSE 0)
    /\ Figures'[8] = Figures[8] + (IF k = 5 THEN p ELSE 0)
    /\ Figures'[9] = Figures[9] + (IF k = 5 THEN Win(p) ELSE 0)

LEMMA FigureNumbers ==
    ASSUME LedgerTyped, LedgerHistory PROVE \A i \in 1..9 : Figures[i] \in Int
<1>1. FigureTypes
  BY FiguresTyped
<1>2. /\ Figures[1] \in Int /\ Figures[2] \in Int /\ Figures[3] \in Int /\ Figures[4] \in Int
      /\ Figures[5] \in Int /\ Figures[6] \in Int /\ Figures[7] \in Int /\ Figures[8] \in Int
      /\ Figures[9] \in Int
  BY <1>1 DEF FigureTypes, Figures
<1>3. QED
  BY <1>2

\* The days' figures stand as long as their keys do.
LEMMA DaysStand ==
    ASSUME TRUE
    PROVE  /\ keys'.daily_pnl = keys.daily_pnl => Figures'[7] = Figures[7]
           /\ keys'.daily_stats = keys.daily_stats =>
                Figures'[3] = Figures[3] /\ Figures'[8] = Figures[8] /\ Figures'[9] = Figures[9]
           /\ keys'.count = keys.count => Figures'[2] = Figures[2]
           /\ keys'.cumulative = keys.cumulative => Figures'[6] = Figures[6]
<1>1. ASSUME keys'.daily_pnl = keys.daily_pnl PROVE Figures'[7] = Figures[7]
  BY <1>1 DEF Figures
<1>2. ASSUME keys'.daily_stats = keys.daily_stats
      PROVE  Figures'[3] = Figures[3] /\ Figures'[8] = Figures[8] /\ Figures'[9] = Figures[9]
  <2>1. DailyTotals' = DailyTotals /\ DailyWins' = DailyWins /\ Logger!LoggedCount' = Logger!LoggedCount
    BY <1>2 DEF DailyTotals, DailyWins, Logger!LoggedCount
  <2>2. QED
    BY <2>1 DEF Figures
<1>3. keys'.count = keys.count => Figures'[2] = Figures[2]
  BY DEF Figures
<1>4. keys'.cumulative = keys.cumulative => Figures'[6] = Figures[6]
  BY DEF Figures
<1>5. QED
  BY <1>1, <1>2, <1>3, <1>4

\* The keys of a day, with the close in them.
LEMMA EarnedAdds ==
    ASSUME LedgerTyped, NEW p \in Int, keys'.daily_pnl = Logger!Earned(p)
    PROVE  Figures'[7] = Figures[7] + p
<1> DEFINE F == keys.daily_pnl
           G == keys'.daily_pnl
<1>1. F \in [Logger!Days -> Int] /\ day \in Logger!Days
  BY DEF LedgerTyped, KeysType
<1>2. G[day] = F[day] + p /\ \A d \in Logger!Days : d # day => G[d] = F[d]
  BY <1>1 DEF Logger!Earned
<1>3. Figures'[7] = Logger!OverDays(G) /\ Figures[7] = Logger!OverDays(F)
  BY DEF Figures
<1> HIDE DEF F, G
<1>4. Logger!OverDays(G) = Logger!OverDays(F) + p
  BY <1>1, <1>2, DayAdded
<1>5. QED
  BY <1>3, <1>4

LEMMA TalliedAdds ==
    ASSUME LedgerTyped, NEW p \in Int, keys'.daily_stats = Logger!Tallied(p)
    PROVE  /\ Figures'[3] = Figures[3] + 1 /\ Figures'[8] = Figures[8] + p
           /\ Figures'[9] = Figures[9] + Win(p)
<1> DEFINE old == keys.daily_stats
           new == keys'.daily_stats
<1>1. /\ old \in [Logger!Days -> [count : Nat, wins : Nat, total : Int]]
      /\ day \in Logger!Days
  BY DEF LedgerTyped, KeysType
<1>2. /\ new[day] = Logger!Counted(old[day], p)
      /\ \A d \in Logger!Days : d # day => new[d] = old[d]
  BY <1>1 DEF Logger!Tallied
<1>3. ASSUME NEW d \in Logger!Days
      PROVE  old[d].count \in Int /\ old[d].wins \in Int /\ old[d].total \in Int
  BY <1>1
<1>4. /\ new[day].count = old[day].count + 1 /\ new[day].wins = old[day].wins + Win(p)
      /\ new[day].total = old[day].total + p
  BY <1>2 DEF Logger!Counted, Win
<1>5. Win(p) \in Int
  BY DEF Win
<1> DEFINE C == [d \in Logger!Days |-> old[d].count]
           D == [d \in Logger!Days |-> new[d].count]
           T == [d \in Logger!Days |-> old[d].total]
           U == [d \in Logger!Days |-> new[d].total]
           W == [d \in Logger!Days |-> old[d].wins]
           X == [d \in Logger!Days |-> new[d].wins]
<1>6. /\ Figures'[3] = Logger!OverDays(D) /\ Figures[3] = Logger!OverDays(C)
      /\ Figures'[8] = Logger!OverDays(U) /\ Figures[8] = Logger!OverDays(T)
      /\ Figures'[9] = Logger!OverDays(X) /\ Figures[9] = Logger!OverDays(W)
  BY DEF Figures, Logger!LoggedCount, DailyTotals, DailyWins
<1> HIDE DEF old, new
<1>7. \A d \in Logger!Days : C[d] \in Int /\ T[d] \in Int /\ W[d] \in Int
  BY <1>3
<1>8. /\ D[day] = C[day] + 1 /\ U[day] = T[day] + p /\ X[day] = W[day] + Win(p)
  BY <1>1, <1>4
<1>9. \A d \in Logger!Days : d # day => D[d] = C[d] /\ U[d] = T[d] /\ X[d] = W[d]
  BY <1>2
<1> HIDE DEF C, D, T, U, W, X
<1>10. Logger!OverDays(D) = Logger!OverDays(C) + 1
  BY <1>7, <1>8, <1>9, DayAdded
<1>11. Logger!OverDays(U) = Logger!OverDays(T) + p
  BY <1>7, <1>8, <1>9, DayAdded
<1>12. Logger!OverDays(X) = Logger!OverDays(W) + Win(p)
  BY <1>5, <1>7, <1>8, <1>9, DayAdded
<1>13. QED
  BY <1>6, <1>10, <1>11, <1>12

LEMMA CommandMoves ==
    ASSUME LedgerTyped, LedgerHistory, NEW s \in Held, NEW id \in DOMAIN trades, NEW k \in 1..5,
           keys' = Logger!Performed(Logger!Commands[k], s, id), trades' = trades,
           k = 1 => id \notin Logger!AllLogged
    PROVE  /\ Moved(k, trades[id].pnl) /\ LedgerHistory' /\ keys' \in KeysType /\ keys'.open = keys.open
           /\ Logger!AllLogged' = IF k = 1 THEN Logger!AllLogged \cup {id} ELSE Logger!AllLogged
<1> DEFINE new == keys'
           p == trades[id].pnl
<1>1. k \in 1..6 /\ p \in Int /\ Win(p) \in Int
  BY TradeNumbers DEF Win
<1>2. new = Logger!Performed(Logger!Commands[k], s, id)
  OBVIOUS
<1> HIDE DEF new
<1>3. /\ new \in KeysType
      /\ k = 1 => /\ new.history = Logger!Listed(s, id)
                  /\ new.open = keys.open /\ new.daily_pnl = keys.daily_pnl /\ new.cumulative = keys.cumulative
                  /\ new.count = keys.count /\ new.daily_stats = keys.daily_stats
      /\ k = 2 => /\ new.daily_pnl = Logger!Earned(p)
                  /\ new.open = keys.open /\ new.history = keys.history /\ new.cumulative = keys.cumulative
                  /\ new.count = keys.count /\ new.daily_stats = keys.daily_stats
      /\ k = 3 => /\ new.cumulative = keys.cumulative + p
                  /\ new.open = keys.open /\ new.history = keys.history /\ new.daily_pnl = keys.daily_pnl
                  /\ new.count = keys.count /\ new.daily_stats = keys.daily_stats
      /\ k = 4 => /\ new.count = keys.count + 1
                  /\ new.open = keys.open /\ new.history = keys.history /\ new.daily_pnl = keys.daily_pnl
                  /\ new.cumulative = keys.cumulative /\ new.daily_stats = keys.daily_stats
      /\ k = 5 => /\ new.daily_stats = Logger!Tallied(p)
                  /\ new.open = keys.open /\ new.history = keys.history /\ new.daily_pnl = keys.daily_pnl
                  /\ new.cumulative = keys.cumulative /\ new.count = keys.count
  BY <1>1, <1>2, CommandDoes
<1>4. \A i \in 1..9 : Figures[i] + 0 = Figures[i]
  BY FigureNumbers
<1>5. CASE k = 1
  <2>1. /\ keys'.history = Logger!Listed(s, id) /\ keys'.daily_pnl = keys.daily_pnl
        /\ keys'.cumulative = keys.cumulative /\ keys'.count = keys.count
        /\ keys'.daily_stats = keys.daily_stats /\ keys'.open = keys.open /\ id \notin Logger!AllLogged
    BY <1>3, <1>5 DEF new
  <2>2. /\ LedgerHistory' /\ Logger!AllLogged' = Logger!AllLogged \cup {id}
        /\ Figures'[1] = Figures[1] + 1 /\ Figures'[4] = Figures[4] + p
        /\ Figures'[5] = Figures[5] + Win(p)
    BY <2>1, EntryFigures
  <2>3. /\ Figures'[2] = Figures[2] /\ Figures'[3] = Figures[3] /\ Figures'[6] = Figures[6]
        /\ Figures'[7] = Figures[7] /\ Figures'[8] = Figures[8] /\ Figures'[9] = Figures[9]
    BY <2>1, DaysStand
  <2>4. Moved(1, p)
    BY <1>4, <2>2, <2>3 DEF Moved
  <2>5. QED
    BY <1>3, <1>5, <2>1, <2>2, <2>4 DEF new
<1>6. CASE k = 2
  <2>1. /\ keys'.history = keys.history /\ keys'.daily_pnl = Logger!Earned(p)
        /\ keys'.cumulative = keys.cumulative /\ keys'.count = keys.count
        /\ keys'.daily_stats = keys.daily_stats /\ keys'.open = keys.open
    BY <1>3, <1>6 DEF new
  <2>2. /\ LedgerHistory' /\ Logger!AllLogged' = Logger!AllLogged
        /\ Figures'[1] = Figures[1] /\ Figures'[4] = Figures[4] /\ Figures'[5] = Figures[5]
    BY <2>1, HistoryStands
  <2>3. /\ Figures'[2] = Figures[2] /\ Figures'[3] = Figures[3] /\ Figures'[6] = Figures[6]
        /\ Figures'[8] = Figures[8] /\ Figures'[9] = Figures[9] /\ Figures'[7] = Figures[7] + p
    BY <1>1, <2>1, DaysStand, EarnedAdds
  <2>4. Moved(2, p)
    BY <1>4, <2>2, <2>3 DEF Moved
  <2>5. QED
    BY <1>3, <1>6, <2>1, <2>2, <2>4 DEF new
<1>7. CASE k = 3
  <2>1. /\ keys'.history = keys.history /\ keys'.daily_pnl = keys.daily_pnl
        /\ keys'.cumulative = keys.cumulative + p /\ keys'.count = keys.count
        /\ keys'.daily_stats = keys.daily_stats /\ keys'.open = keys.open
    BY <1>3, <1>7 DEF new
  <2>2. /\ LedgerHistory' /\ Logger!AllLogged' = Logger!AllLogged
        /\ Figures'[1] = Figures[1] /\ Figures'[4] = Figures[4] /\ Figures'[5] = Figures[5]
    BY <2>1, HistoryStands
  <2>3. /\ Figures'[2] = Figures[2] /\ Figures'[3] = Figures[3] /\ Figures'[7] = Figures[7]
        /\ Figures'[8] = Figures[8] /\ Figures'[9] = Figures[9]
    BY <2>1, DaysStand
  <2>4. Figures'[6] = Figures[6] + p
    BY <2>1 DEF Figures
  <2>5. Moved(3, p)
    BY <1>4, <2>2, <2>3, <2>4 DEF Moved
  <2>6. QED
    BY <1>3, <1>7, <2>1, <2>2, <2>5 DEF new
<1>8. CASE k = 4
  <2>1. /\ keys'.history = keys.history /\ keys'.daily_pnl = keys.daily_pnl
        /\ keys'.cumulative = keys.cumulative /\ keys'.count = keys.count + 1
        /\ keys'.daily_stats = keys.daily_stats /\ keys'.open = keys.open
    BY <1>3, <1>8 DEF new
  <2>2. /\ LedgerHistory' /\ Logger!AllLogged' = Logger!AllLogged
        /\ Figures'[1] = Figures[1] /\ Figures'[4] = Figures[4] /\ Figures'[5] = Figures[5]
    BY <2>1, HistoryStands
  <2>3. /\ Figures'[6] = Figures[6] /\ Figures'[3] = Figures[3] /\ Figures'[7] = Figures[7]
        /\ Figures'[8] = Figures[8] /\ Figures'[9] = Figures[9]
    BY <2>1, DaysStand
  <2>4. Figures'[2] = Figures[2] + 1
    BY <2>1 DEF Figures
  <2>5. Moved(4, p)
    BY <1>4, <2>2, <2>3, <2>4 DEF Moved
  <2>6. QED
    BY <1>3, <1>8, <2>1, <2>2, <2>5 DEF new
<1>9. CASE k = 5
  <2>1. /\ keys'.history = keys.history /\ keys'.daily_pnl = keys.daily_pnl
        /\ keys'.cumulative = keys.cumulative /\ keys'.count = keys.count
        /\ keys'.daily_stats = Logger!Tallied(p) /\ keys'.open = keys.open
    BY <1>3, <1>9 DEF new
  <2>2. /\ LedgerHistory' /\ Logger!AllLogged' = Logger!AllLogged
        /\ Figures'[1] = Figures[1] /\ Figures'[4] = Figures[4] /\ Figures'[5] = Figures[5]
    BY <2>1, HistoryStands
  <2>3. /\ Figures'[2] = Figures[2] /\ Figures'[6] = Figures[6] /\ Figures'[7] = Figures[7]
    BY <2>1, DaysStand
  <2>4. /\ Figures'[3] = Figures[3] + 1 /\ Figures'[8] = Figures[8] + p
        /\ Figures'[9] = Figures[9] + Win(p)
    BY <1>1, <2>1, TalliedAdds
  <2>5. Moved(5, p)
    BY <1>4, <2>2, <2>3, <2>4 DEF Moved
  <2>6. QED
    BY <1>3, <1>9, <2>1, <2>2, <2>5 DEF new
<1>10. QED
  BY <1>5, <1>6, <1>7, <1>8, <1>9
LEMMA CommandBooks ==
    ASSUME LedgerTyped, LedgerHistory, LedgerBooks, NEW k \in 1..5, NEW p \in Int, Moved(k, p),
           HolderStep = k, HolderStep' = k + 1, HolderPnl = p, HolderPnl' = p, trouble' = trouble
    PROVE  LedgerBooks'
<1> DEFINE f == Figures
           g == Figures'
           Kept == /\ Counts(k + 1, g[1], g[2], g[3])
                   /\ Clean => Balance(k + 1, p, g[1], g[2], g[3], g[4], g[5], g[6], g[7], g[8], g[9])
<1>1. /\ Counts(k, f[1], f[2], f[3])
      /\ Clean => Balance(k, p, f[1], f[2], f[3], f[4], f[5], f[6], f[7], f[8], f[9])
  BY BooksAre
<1>2. Kept => LedgerBooks'
  <2>1. LedgerBooks' <=>
        /\ Counts(HolderStep', g[1], g[2], g[3])
        /\ Clean' => Balance(HolderStep', HolderPnl', g[1], g[2], g[3], g[4], g[5], g[6], g[7], g[8], g[9])
    BY DEF LedgerBooks, Figures
  <2>2. Clean' => Clean
    BY DEF Clean
  <2> HIDE DEF g
  <2>3. QED
    BY <2>1, <2>2
<1>3. /\ f[1] \in Int /\ f[2] \in Int /\ f[3] \in Int /\ f[4] \in Int /\ f[5] \in Int
      /\ f[6] \in Int /\ f[7] \in Int /\ f[8] \in Int /\ f[9] \in Int /\ Win(p) \in Int
  BY FigureNumbers DEF Win
<1>4. /\ g[1] = f[1] + (IF k = 1 THEN 1 ELSE 0) /\ g[2] = f[2] + (IF k = 4 THEN 1 ELSE 0)
      /\ g[3] = f[3] + (IF k = 5 THEN 1 ELSE 0) /\ g[4] = f[4] + (IF k = 1 THEN p ELSE 0)
      /\ g[5] = f[5] + (IF k = 1 THEN Win(p) ELSE 0) /\ g[6] = f[6] + (IF k = 3 THEN p ELSE 0)
      /\ g[7] = f[7] + (IF k = 2 THEN p ELSE 0) /\ g[8] = f[8] + (IF k = 5 THEN p ELSE 0)
      /\ g[9] = f[9] + (IF k = 5 THEN Win(p) ELSE 0)
  BY DEF Moved
<1> HIDE DEF f, g
<1>5. k = 1 => Kept
  BY <1>1, <1>3, <1>4 DEF Counts, Balance, Owes
<1>6. k = 2 => Kept
  BY <1>1, <1>3, <1>4 DEF Counts, Balance, Owes
<1>7. k = 3 => Kept
  BY <1>1, <1>3, <1>4 DEF Counts, Balance, Owes
<1>8. k = 4 => Kept
  BY <1>1, <1>3, <1>4 DEF Counts, Balance, Owes
<1>9. k = 5 => Kept
  BY <1>1, <1>3, <1>4 DEF Counts, Balance, Owes
<1>10. QED
  BY <1>2, <1>5, <1>6, <1>7, <1>8, <1>9

LEMMA CommandStep ==
    ASSUME LedgerInv, NEW t \in Learners, Logger!Command(t)
    PROVE  LedgerInv'
<1> DEFINE k == call[t].step
           id == call[t].trade
           s == call[t].symbol
           p == trades[call[t].trade].pnl
<1>0. LedgerTyped /\ LedgerCalls /\ LedgerHistory /\ LedgerBooks /\ LedgerOpen
  BY DEF LedgerInv
<1>1. /\ k > 0 /\ keys' = Logger!Performed(Logger!Commands[k], s, id)
      /\ held' = held /\ trades' = trades /\ day' = day /\ trouble' = trouble
  BY DEF Logger!Command
<1>2. Len(Logger!Commands) = 6
  BY DEF Logger!Commands
<1>3. k \in 1..6
  BY <1>0, <1>1, IdleCall
<1>4. /\ keyLock = t /\ call[t].kind = "close" /\ id \in DOMAIN trades
      /\ HolderStep = k /\ HolderPnl = p
  BY <1>0, <1>1, Holder
<1>5. s \in Held /\ (id \in Logger!AllLogged <=> k > 1)
  BY <1>0, <1>4 DEF LedgerCalls
<1>6. \A u \in Learners : u # t /\ call[u].kind = "close" => call[u].trade # id
  BY <1>0, <1>4 DEF LedgerCalls
<1>7. p \in Int
  BY <1>0, <1>4, TradeNumbers
<1>8. CASE k # 6
  <2> DEFINE next == k + 1
  <2>1. k \in 1..5 /\ next \in 1..6 /\ next > 1
    BY <1>3, <1>8
  <2>2. keyLock' = keyLock /\ call' = [call EXCEPT ![t].step = next]
    <3>1. k # Len(Logger!Commands)
      BY <1>2, <1>8
    <3>2. QED
      BY <3>1 DEF Logger!Command
  <2> HIDE DEF k, s, next
  <2>3. /\ Moved(k, p) /\ LedgerHistory' /\ keys' \in KeysType /\ keys'.open = keys.open
        /\ Logger!AllLogged' = IF k = 1 THEN Logger!AllLogged \cup {id} ELSE Logger!AllLogged
    <3>1. k = 1 => id \notin Logger!AllLogged
      BY <1>5
    <3> HIDE DEF id
    <3>2. /\ Moved(k, trades[id].pnl) /\ LedgerHistory' /\ keys' \in KeysType /\ keys'.open = keys.open
          /\ Logger!AllLogged' = IF k = 1 THEN Logger!AllLogged \cup {id} ELSE Logger!AllLogged
      BY <1>0, <1>1, <1>4, <1>5, <2>1, <3>1, CommandMoves
    <3>3. p = trades[id].pnl
      BY DEF id
    <3>4. QED
      BY <3>2, <3>3
  <2>4. id \in Logger!AllLogged'
    BY <1>5, <2>1, <2>3
  <2>5. \A u \in Learners : u # t /\ call[u].kind = "close" =>
          (call[u].trade \in Logger!AllLogged' <=> call[u].trade \in Logger!AllLogged)
    BY <1>6, <2>3
  <2>6. /\ call' \in [Learners -> CallType] /\ LedgerCalls'
        /\ HolderStep' = next /\ HolderPnl' = p
        /\ \A u \in Learners : call'[u].kind = call[u].kind /\ call'[u].symbol = call[u].symbol
    <3>1. call[t].trade \in Logger!AllLogged' <=> next > 1
      BY <2>1, <2>4
    <3>2. keyLock' = t /\ keyLock \in {t, "free"}
      BY <1>4, <2>2
    <3>3. QED
      BY <1>0, <1>1, <1>4, <2>1, <2>2, <2>5, <3>1, <3>2, StepOn
  <2>7. LedgerBooks'
    <3>1. HolderStep' = k + 1
      BY <2>6 DEF next
    <3> HIDE DEF p
    <3>2. QED
      BY <1>0, <1>1, <1>4, <1>7, <2>1, <2>3, <2>6, <3>1, CommandBooks
  <2>8. LedgerOpen'
    BY <1>0, <1>1, <2>3, <2>6, OpenStands
  <2>9. LedgerTyped'
    BY <1>0, <1>1, <2>2, <2>3, <2>6 DEF LedgerTyped
  <2>10. QED
    BY <2>3, <2>6, <2>7, <2>8, <2>9 DEF LedgerInv
<1>9. CASE k = 6
  <2> DEFINE c == Logger!NoCall
             new == keys'
  <2>1. keyLock' = "free" /\ call' = [call EXCEPT ![t] = c]
    <3>1. k = Len(Logger!Commands)
      BY <1>2, <1>9
    <3>2. QED
      BY <3>1 DEF Logger!Command, Logger!Return, Logger!Free
  <2>2. /\ new \in KeysType /\ new.open = keys.open \ {s}
        /\ new.history = keys.history /\ new.daily_pnl = keys.daily_pnl /\ new.cumulative = keys.cumulative
        /\ new.count = keys.count /\ new.daily_stats = keys.daily_stats
    <3>1. new = Logger!Performed(Logger!Commands[k], s, id)
      BY <1>1
    <3> HIDE DEF new, k, s, id
    <3>2. QED
      BY <1>0, <1>3, <1>4, <1>5, <1>9, <3>1, CommandDoes
  <2>3. c \in CallType /\ c.kind = "none" /\ c.step = 0 /\ c.symbol = "none" /\ c = Logger!NoCall
    BY <1>0, IdleCall
  <2> HIDE DEF c
  <2>4. Figures' = Figures /\ LedgerHistory' /\ Logger!AllLogged' = Logger!AllLogged
    BY <1>0, <1>1, <2>2, FiguresStand
  <2>5. call' \in [Learners -> CallType] /\ LedgerCalls'
    <3>1. /\ \A u \in Learners : u # t => (keyLock' = u <=> keyLock = u)
          /\ keyLock' = t <=> c.step > 0
      BY <1>4, <2>1, <2>3, LedgerNumbers
    <3>2. DOMAIN trades \subseteq DOMAIN trades' /\ c.kind # "close" /\ c.kind # "open"
      BY <1>1, <2>3
    <3>3. \A u \in Learners : u # t /\ call[u].kind = "close" =>
             /\ c.kind = "close" => call[u].trade # c.trade
             /\ call[u].trade \in Logger!AllLogged' <=> call[u].trade \in Logger!AllLogged
      BY <2>3, <2>4
    <3>4. QED
      BY <1>0, <2>1, <2>3, <3>1, <3>2, <3>3, CallChanges
  <2>6. HolderStep \in Idle /\ HolderStep' \in Idle
    BY <1>4, <1>9, <2>1 DEF HolderStep, Idle
  <2>7. LedgerBooks'
    BY <1>0, <1>1, <2>4, <2>6, BooksKept
  <2>8. LedgerTyped'
    BY <1>0, <1>1, <2>1, <2>2, <2>5 DEF LedgerTyped
  <2>9. LedgerOpen'
    <3> SUFFICES ASSUME trouble' = {} PROVE LedgerOpen'
      BY DEF LedgerOpen
    <3>1. trouble = {} /\ held[s] = 0
      BY <1>0, <1>1, <1>4 DEF LedgerOpen
    <3>2. \A u \in Learners : u # t => call[u].symbol # s
      <4>1. s # "none"
        BY <1>5, LedgerNumbers
      <4>2. QED
        BY <1>0, <3>1, <4>1 DEF LedgerOpen
    <3>3. /\ \A v \in Held : v # s => held'[v] = held[v] /\ (v \in keys'.open <=> v \in keys.open)
          /\ s \notin keys'.open /\ ~(held'[s] > 0)
      BY <1>1, <2>2, <3>1
    <3>4. call[t].symbol \in {"none", s} /\ c.symbol \in {"none", s} /\ c.kind # "open" /\ c.kind # "close"
      BY <2>3
    <3> HIDE DEF s
    <3>5. OpenFits(t, c, s)
      BY <2>1, <3>1, <3>2, <3>3, <3>4 DEF OpenFits
    <3>6. QED
      BY <1>0, <1>5, <2>3, <3>5, OpenKept
  <2>10. QED
    BY <2>4, <2>5, <2>7, <2>8, <2>9 DEF LedgerInv
<1>10. QED
  BY <1>8, <1>9

LEMMA LedgerStep == LedgerInv /\ Logger!Next => LedgerInv'
<1> SUFFICES ASSUME LedgerInv, Logger!Next PROVE LedgerInv'
  OBVIOUS
<1>1. ASSUME NEW t \in Learners, Logger!Log(t) PROVE LedgerInv'
  BY <1>1, LogOpenStep, LogCloseStep, CommandStep, CommandFailsStep DEF Logger!Log
<1>2. ASSUME NEW t \in Learners, Logger!Trade(t) PROVE LedgerInv'
  BY <1>2, OpensStep, ClosesStep DEF Logger!Trade
<1>3. CASE Logger!Crash
  BY <1>3, LoggerCrashes
<1>4. CASE Logger!Midnight
  <2>1. day \in Logger!Days
    BY DEF LedgerInv, LedgerTyped
  <2>2. day' \in Logger!Days
    BY <1>4, <2>1, LedgerNumbers DEF Logger!Midnight, Logger!Days
  <2>3. UNCHANGED <<held, trades, keys, keyLock, call, trouble>>
    BY <1>4 DEF Logger!Midnight
  <2>4. QED
    BY <2>2, <2>3, LoggerMidnight
<1>5. QED
  BY <1>1, <1>2, <1>3, <1>4 DEF Logger!Next
\* Days on which nothing was earned.
LEMMA NothingEarned ==
    ASSUME NEW F, \A d \in Logger!Days : F[d] = 0
    PROVE  Logger!OverDays(F) = 0
<1>1. IsFiniteSet(Logger!Days) /\ \A d \in Logger!Days : F[d] \in Int /\ F[d] = 0 * F[d]
  BY LedgerNumbers
<1>2. SumFunctionOnSet(F, Logger!Days) \in Int
  BY <1>1, SumOnType
<1>3. SumFunctionOnSet(F, Logger!Days) = 0 * SumFunctionOnSet(F, Logger!Days)
  BY <1>1, SumOnTimes
<1>4. Logger!OverDays(F) = SumFunctionOnSet(F, Logger!Days)
  BY OverDaysIs
<1> DEFINE sum == SumFunctionOnSet(F, Logger!Days)
<1>5. sum \in Int /\ sum = 0 * sum
  BY <1>2, <1>3
<1> HIDE DEF sum
<1>6. sum = 0
  BY <1>5
<1>7. QED
  BY <1>4, <1>6 DEF sum

LEMMA LedgerStarts == Logger!Init => LedgerInv
<1> SUFFICES ASSUME Logger!Init PROVE LedgerInv
  OBVIOUS
<1>1. /\ held = [s \in Held |-> 0] /\ trades = <<>> /\ keyLock = "free"
      /\ keys = [open |-> {}, history |-> [s \in Held |-> <<>>],
                 daily_pnl |-> [d \in Logger!Days |-> 0], cumulative |-> 0, count |-> 0,
                 daily_stats |-> [d \in Logger!Days |-> Logger!NoStats]]
      /\ call = [t \in Learners |-> Logger!NoCall] /\ day = 0 /\ trouble = {}
  BY DEF Logger!Init, Logger!Free
<1>2. /\ keys.open = {} /\ keys.history = [s \in Held |-> <<>>] /\ keys.cumulative = 0 /\ keys.count = 0
      /\ keys.daily_pnl = [d \in Logger!Days |-> 0]
      /\ keys.daily_stats = [d \in Logger!Days |-> Logger!NoStats]
  BY <1>1
<1>3. /\ Logger!NoCall \in CallType /\ Logger!NoCall.kind = "none" /\ Logger!NoCall.step = 0
      /\ Logger!NoCall.symbol = "none"
  BY DEF Logger!NoCall, CallType
<1>4. \A t \in Learners : call[t] = Logger!NoCall
  BY <1>1
<1>5. LedgerTyped
  <2>1. Logger!NoStats \in [count : Nat, wins : Nat, total : Int]
    BY DEF Logger!NoStats
  <2>2. <<>> \in Seq(Nat) /\ <<>> \in Seq([symbol : Held, pnl : PnLs])
    OBVIOUS
  <2> DEFINE H == [s \in Held |-> <<>>]
             P == [d \in Logger!Days |-> 0]
             T == [d \in Logger!Days |-> Logger!NoStats]
  <2>3. /\ H \in [Held -> Seq(Nat)] /\ P \in [Logger!Days -> Int]
        /\ T \in [Logger!Days -> [count : Nat, wins : Nat, total : Int]]
    BY <2>1, <2>2
  <2>4. keys = [open |-> {}, history |-> H, daily_pnl |-> P, cumulative |-> 0, count |-> 0, daily_stats |-> T]
    BY <1>1
  <2> HIDE DEF H, P, T
  <2>5. keys \in KeysType
    BY <2>3, <2>4 DEF KeysType
  <2>6. day \in Logger!Days
    BY <1>1, LedgerNumbers DEF Logger!Days
  <2>7. QED
    BY <1>1, <1>3, <2>2, <2>5, <2>6 DEF LedgerTyped
<1>6. Logger!AllLogged = {} /\ \A s \in Held : Logger!Logged(s) = {}
  <2>1. \A s \in Held : Logger!Logged(s) = {}
    BY <1>2 DEF Logger!Logged, Logger!ToSet
  <2>2. QED
    BY <2>1 DEF Logger!AllLogged
<1>7. LedgerHistory
  <2>1. \A s \in Held : IsInjective(keys.history[s])
    BY <1>2 DEF IsInjective
  <2>2. QED
    BY <1>6, <2>1 DEF LedgerHistory
<1>8. LedgerCalls
  <2>1. \A t \in Learners : ~(keyLock = t) /\ ~(call[t].step > 0)
    BY <1>1, <1>3, <1>4, LedgerNumbers
  <2>2. \A t \in Learners : call[t].kind # "open" /\ call[t].kind # "close"
    BY <1>3, <1>4
  <2>3. QED
    BY <1>4, <2>1, <2>2 DEF LedgerCalls
<1>9. LedgerBooks
  <2>1. Cardinality({}) = 0
    BY FS_EmptySet
  <2>2. /\ Cardinality(Logger!AllLogged) = 0 /\ Winners(Logger!AllLogged) = {}
        /\ Cardinality(Winners(Logger!AllLogged)) = 0
    BY <1>6, <2>1 DEF Winners
  <2>3. Logger!Total(Logger!AllLogged) = 0
    BY <1>6, TotalIs, SumOnEmpty
  <2>4. \A d \in Logger!Days : /\ keys.daily_pnl[d] = 0 /\ keys.daily_stats[d].count = 0
                               /\ keys.daily_stats[d].total = 0 /\ keys.daily_stats[d].wins = 0
    BY <1>2 DEF Logger!NoStats
  <2>5. /\ Logger!OverDays(keys.daily_pnl) = 0 /\ Logger!LoggedCount = 0
        /\ Logger!OverDays(DailyTotals) = 0 /\ Logger!OverDays(DailyWins) = 0
    BY <2>4, NothingEarned DEF Logger!LoggedCount, DailyTotals, DailyWins
  <2>6. HolderStep = 0
    BY <1>1 DEF HolderStep
  <2>7. \A a : Owes(0, 2, 4, a) = 0 /\ Owes(0, 5, 5, a) = 0 /\ Owes(0, 2, 3, a) = 0
               /\ Owes(0, 2, 2, a) = 0 /\ Owes(0, 2, 5, a) = 0
    BY NothingOwed DEF Idle
  <2>8. QED
    BY <1>2, <2>2, <2>3, <2>5, <2>6, <2>7 DEF LedgerBooks, Counts, Balance
<1>10. LedgerOpen
  <2>1. \A t \in Learners : call[t].symbol = "none"
    BY <1>3, <1>4
  <2>2. \A t \in Learners : call[t].kind # "open" /\ call[t].kind # "close"
    BY <1>3, <1>4
  <2>3. \A s \in Held : s \notin keys.open /\ ~(held[s] > 0)
    BY <1>1, <1>2
  <2>4. QED
    BY <2>1, <2>2, <2>3 DEF LedgerOpen
<1>11. QED
  BY <1>5, <1>7, <1>8, <1>9, <1>10 DEF LedgerInv

\* What the logger promises of its keys.
LEMMA LedgerKeeps ==
    LedgerInv => Logger!TypeOK /\ Logger!NeverAhead /\ Logger!TotalsAgree /\ Logger!OpenMatchesHeld
<1> SUFFICES ASSUME LedgerInv
             PROVE  Logger!TypeOK /\ Logger!NeverAhead /\ Logger!TotalsAgree /\ Logger!OpenMatchesHeld
  OBVIOUS
<1>0. LedgerTyped /\ LedgerCalls /\ LedgerHistory /\ LedgerBooks /\ LedgerOpen
  BY DEF LedgerInv
<1>1. FigureTypes
  BY <1>0, FiguresTyped
<1>2. Logger!TypeOK
  <2>1. /\ keys.open \subseteq Held /\ keys.cumulative \in Int /\ keys.count \in Nat
        /\ keys.daily_pnl \in [Logger!Days -> Int]
        /\ keys.daily_stats \in [Logger!Days -> [count : Nat, wins : Nat, total : Int]]
    BY <1>0 DEF LedgerTyped, KeysType
  <2>2. \A t \in Learners : (keyLock = t) = (call[t].step > 0)
    <3> SUFFICES ASSUME NEW t \in Learners PROVE (keyLock = t) = (call[t].step > 0)
      OBVIOUS
    <3> DEFINE a == keyLock = t
               b == call[t].step > 0
    <3>1. a <=> b
      BY <1>0 DEF LedgerCalls
    <3>2. a \in BOOLEAN /\ b \in BOOLEAN
      BY <1>0, IdleCall
    <3> HIDE DEF a, b
    <3>3. a = b
      BY <3>1, <3>2, Zenon
    <3>4. QED
      BY <3>3 DEF a, b
  <2>3. /\ held \in [Held -> 0..2] /\ trades \in Seq([symbol : Held, pnl : PnLs])
        /\ Logger!AllLogged \subseteq DOMAIN trades /\ keyLock \in Learners \cup {Logger!Free}
        /\ trouble \subseteq {"partial", "overlap", "failed", "crashed"}
    BY <1>0 DEF LedgerTyped, LedgerHistory, Logger!Free
  <2>4. QED
    BY <2>1, <2>2, <2>3, Zenon DEF Logger!TypeOK
<1>3. Logger!NeverAhead
  <2>1. \A a \in Int : a >= 0 => Owes(HolderStep, 2, 4, a) \in Int /\ Owes(HolderStep, 2, 4, a) >= 0
                                 /\ Owes(HolderStep, 5, 5, a) \in Int /\ Owes(HolderStep, 5, 5, a) >= 0
    BY OwesType
  <2>2. keys.count <= Cardinality(Logger!AllLogged) /\ Logger!LoggedCount <= keys.count
    BY <1>0, <1>1, <2>1 DEF LedgerBooks, Counts, FigureTypes
  <2>3. \A s \in Held : Logger!IsInjective(keys.history[s])
    BY <1>0 DEF LedgerHistory, IsInjective, Logger!IsInjective
  <2>4. Logger!Cardinality(Logger!AllLogged) = Cardinality(Logger!AllLogged)
    BY DEF Logger!Cardinality, Cardinality
  <2>5. QED
    BY <2>2, <2>3, <2>4 DEF Logger!NeverAhead
<1>4. Logger!TotalsAgree
  <2> SUFFICES ASSUME Clean, keyLock = "free"
               PROVE  /\ keys.cumulative = Logger!Total(Logger!AllLogged)
                      /\ keys.cumulative = Logger!OverDays(keys.daily_pnl)
                      /\ keys.cumulative = Logger!OverDays(DailyTotals)
                      /\ keys.count = Cardinality(Logger!AllLogged)
                      /\ keys.count = Logger!LoggedCount
    BY DEF Logger!TotalsAgree, Logger!Free, Clean, DailyTotals, Logger!Cardinality, Cardinality
  <2>1. HolderStep = 0
    BY DEF HolderStep
  <2>2. \A a : Owes(0, 2, 4, a) = 0 /\ Owes(0, 5, 5, a) = 0 /\ Owes(0, 2, 3, a) = 0
               /\ Owes(0, 2, 2, a) = 0 /\ Owes(0, 2, 5, a) = 0
    BY NothingOwed DEF Idle
  <2>3. QED
    BY <1>0, <1>1, <2>1, <2>2 DEF LedgerBooks, Balance, FigureTypes
<1>5. Logger!OpenMatchesHeld
  <2> SUFFICES ASSUME trouble = {}, \A t \in Learners : call[t] = Logger!NoCall
               PROVE  keys.open = {s \in Held : held[s] > 0}
    BY DEF Logger!OpenMatchesHeld
  <2>1. \A t \in Learners, s \in Held : call[t].symbol # s
    BY LedgerNumbers DEF Logger!NoCall
  <2>2. \A s \in Held : s \in keys.open <=> held[s] > 0
    BY <1>0, <2>1 DEF LedgerOpen
  <2>3. keys.open \subseteq Held
    BY <1>0 DEF LedgerTyped, KeysType
  <2>4. QED
    BY <2>2, <2>3
<1>6. QED
  BY <1>2, <1>3, <1>4, <1>5
-----------------------------------------------------------------------------
(* The desk together. *)

DeskTyped ==
    /\ IType /\ LearnTyped /\ Signal!TypeOK /\ Risk!TypeOK /\ CtaTyped /\ RegimesTyped

LEMMA DeskTypes == DeskTyped /\ LedgerInv => DeskTypeOK
<1> SUFFICES ASSUME DeskTyped, LedgerInv PROVE DeskTypeOK
  OBVIOUS
<1>1. TypeOK /\ Learn!TypeOK /\ Signal!TypeOK /\ Risk!TypeOK /\ RegimesTypeOK
  BY DEF DeskTyped, IType, LearnTyped, RegimesTyped
<1>2. CtaTypeOK
  <2>1. OneAtATime /\ trading \in BOOLEAN /\ ctaOrders \in 0..MaxCtaOrders
    BY DEF DeskTyped, CtaTyped
  <2>2. class \in Classes /\ stacked \in BOOLEAN /\ pos \in Int /\ open \in Seq(Int)
    BY <2>1 DEF OneAtATime
  <2>3. {trading, stacked} \subseteq BOOLEAN
    BY <2>1, <2>2, Zenon
  <2>4. QED
    BY <2>1, <2>2, <2>3, Zenon DEF CtaTypeOK
<1>3. QED
  BY <1>1, <1>2, LedgerKeeps DEF DeskTypeOK

LEMMA DeskStarts == DeskInit => DeskTyped /\ LedgerInv
<1> SUFFICES ASSUME DeskInit PROVE DeskTyped /\ LedgerInv
  OBVIOUS
<1>1. Learn!Init /\ Signal!Init /\ Risk!Init /\ CtaInit /\ Init /\ Logger!Init /\ RegimesInit
  BY DEF DeskInit
<1>2. Signal!TypeOK
  <2>1. fed = <<>> /\ action = [s \in Symbols |-> "none"]
    BY <1>1 DEF Signal!Init
  <2>2. MaxPrices \in Nat
    BY DeskAssumption DEF Signal!SignalsAssumption
  <2>3. fed \in Seq(Symbols \X Prices) /\ Len(fed) <= MaxPrices
    BY <2>1, <2>2
  <2>4. action \in [Symbols -> Signal!Actions]
    BY <2>1 DEF Signal!Actions
  <2>5. QED
    BY <2>3, <2>4 DEF Signal!TypeOK
<1>3. Risk!TypeOK
  <2>1. Known \in Nat /\ Patience \in Nat
    BY DeskAssumption DEF Risk!DefenceAssumption
  <2>2. /\ phase = "prices" /\ samples = 0 /\ z = "calm" /\ vol = "low" /\ degraded = 0
        /\ opened = [size |-> 0, spiked |-> FALSE]
    BY <1>1 DEF Risk!Init
  <2>3. corr = FALSE /\ deep = FALSE /\ poor = FALSE /\ defensive = FALSE /\ frozen = FALSE
    BY <1>1 DEF Risk!Init
  <2>4. {corr, deep, poor, defensive, frozen} \subseteq BOOLEAN
    BY <2>3, Zenon
  <2>5. samples \in 0..Known /\ degraded \in 0..Patience /\ z \in Risk!ZBands /\ vol \in Risk!VolBands
    BY <2>1, <2>2 DEF Risk!ZBands, Risk!VolBands
  <2>6. opened \in [size : {0, 1, Risk!FullSize}, spiked : BOOLEAN] /\ phase \in {"prices", "signals", "checks"}
    BY <2>2
  <2>7. QED
    BY <2>4, <2>5, <2>6, Zenon DEF Risk!TypeOK
<1>4. QED
  BY <1>1, <1>2, <1>3, InitType, LearnStarts, CtaStarts, RegimeStarts, LedgerStarts DEF DeskTyped

LEMMA LedgerIdles == LedgerInv /\ UNCHANGED loggerAll => LedgerInv'
<1> SUFFICES ASSUME LedgerInv, UNCHANGED loggerAll PROVE LedgerInv'
  OBVIOUS
<1>1. UNCHANGED <<held, trades, keys, keyLock, call, trouble, day>>
  BY DEF loggerAll
<1>2. day' \in Logger!Days
  BY <1>1 DEF LedgerInv, LedgerTyped
<1>3. QED
  BY <1>1, <1>2, LoggerMidnight

LEMMA DeskStep == DeskTyped /\ LedgerInv /\ [DeskNext]_deskVars => DeskTyped' /\ LedgerInv'
<1> SUFFICES ASSUME DeskTyped, LedgerInv, [DeskNext]_deskVars PROVE DeskTyped' /\ LedgerInv'
  OBVIOUS
<1>1. LedgerInv'
  BY DeskSteps, LedgerStep, LedgerIdles
<1>2. IType' /\ CtaTyped' /\ RegimesTyped'
  BY DeskSteps, TypeStep, CtaStep, RegimeStep DEF DeskTyped
<1>3. LearnTyped'
  <2>1. CASE Learn!Next
    BY <2>1, LearnStep DEF DeskTyped
  <2>2. CASE UNCHANGED learnAll
    <3>1. Learn!TypeOK'
      BY <2>2 DEF DeskTyped, LearnTyped, Learn!TypeOK, learnAll
    <3>2. QED
      BY <2>2, <3>1 DEF DeskTyped, LearnTyped, Telling, learnAll
  <2>3. QED
    BY <2>1, <2>2, DeskSteps
<1>4. Signal!TypeOK'
  <2>1. CASE Signal!Next
    BY <2>1, SignalStep DEF DeskTyped
  <2>2. CASE UNCHANGED signalAll
    BY <2>2 DEF DeskTyped, Signal!TypeOK, signalAll
  <2>3. QED
    BY <2>1, <2>2, DeskSteps
<1>5. Risk!TypeOK'
  <2>1. CASE Risk!Next
    BY <2>1, DefenceStep DEF DeskTyped
  <2>2. CASE UNCHANGED riskAll
    BY <2>2 DEF DeskTyped, Risk!TypeOK, riskAll
  <2>3. QED
    BY <2>1, <2>2, DeskSteps
<1>6. QED
  BY <1>1, <1>2, <1>3, <1>4, <1>5 DEF DeskTyped

\* Every part of the desk keeps its types, whichever parts take their turns.
THEOREM DeskKeepsTypes == DeskSpec => []DeskTypeOK
<1>1. DeskInit => DeskTyped /\ LedgerInv
  BY DeskStarts
<1>2. (DeskTyped /\ LedgerInv) /\ [DeskNext]_deskVars => (DeskTyped /\ LedgerInv)'
  BY DeskStep
<1>3. DeskTyped /\ LedgerInv => DeskTypeOK
  BY DeskTypes
<1>4. QED
  BY <1>1, <1>2, <1>3, PTL DEF DeskSpec
\* Whatever command fails and wherever the process dies, no total of the logger is ahead of its
\* history and no trade is in it twice; without a failure the history and the four totals are one
\* account once no close is being logged, and the open positions those held (trade_logger.py).
THEOREM LedgerIsOneAccount ==
    DeskSpec => [](Logger!NeverAhead /\ Logger!TotalsAgree /\ Logger!OpenMatchesHeld)
<1>1. DeskInit => DeskTyped /\ LedgerInv
  BY DeskStarts
<1>2. (DeskTyped /\ LedgerInv) /\ [DeskNext]_deskVars => (DeskTyped /\ LedgerInv)'
  BY DeskStep
<1>3. DeskTyped /\ LedgerInv => Logger!NeverAhead /\ Logger!TotalsAgree /\ Logger!OpenMatchesHeld
  BY LedgerKeeps
<1>4. QED
  BY <1>1, <1>2, <1>3, PTL DEF DeskSpec
=============================================================================
