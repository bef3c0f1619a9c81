------------------------------ MODULE Regimes -------------------------------
(***************************************************************************)
(* The market regime (layer4_intelligence: hmm.py, ensemble.py,             *)
(* meta_learner.py, with engine._detect_regime): the update thread feeds    *)
(* each price to the hidden Markov model twice, for detection and for       *)
(* validation, and tells a change to the event bus; the self-awareness       *)
(* thread resets or retrains the same model; the bus's listener thread hears  *)
(* every change again, late.                                                   *)
(*   Which regime the prices make is free.  Under the shipped configuration     *)
(* _switch_strategy finds no strategy (the map holds class names, the engine's   *)
(* strategies are keyed by other names) and is left out.                         *)
(***************************************************************************)
EXTENDS Integers, Sequences

CONSTANTS Names,          \* REGIME_NAMES
          First,          \* the price that the ensemble feeds to the model first (the 20th)
          Short,          \* bars _estimate_regime_simple asks for
          Lookback,       \* lookback_bars
          RetrainEvery,   \* retrain_interval, in bars
          Cap,            \* entries regime_transitions may hold
          MaxBars,      \* bound: prices
          MaxLag          \* bound: events the listener is behind

\* What the constants are assumed to be.
RegimesAssumption ==
    /\ "sideways" \in Names /\ {"unknown", "none"} \cap Names = {}
    /\ {First, Short, Lookback, RetrainEvery, MaxLag} \subseteq Nat \ {0}
    /\ Short <= Lookback /\ Cap \in {2 * n : n \in 1..100} /\ MaxBars \in Nat

VARIABLES turn,           \* the update thread's next call
          bars,       \* the ensemble's price_history, counted
          seen,         \* ensemble.current_regime
          trained,      \* model_trained
          stampedBar,      \* _last_train_bar
          fitted,       \* the bars the model in use was fitted on; 0: none
          healing,      \* the bars the self-awareness thread is fitting on; 0: it is not
          regime,       \* engine.current_regime
          known,        \* MetaLearner.current_regime
          transitions,  \* regime_transitions
          wire,         \* regimes in the events that the listener has yet to deliver
          age,          \* history: bars since the fit of the model that answered last
          outrun        \* history: bars arrived while the self-awareness thread was fitting

hmmVars == <<trained, stampedBar, fitted>>
told == <<known, transitions>>
regimeVars == <<turn, bars, seen, hmmVars, healing, regime, told, wire, age, outrun>>

Nothing == "none"
HmmBars == IF bars < First THEN 0 ELSE bars - First + 1
FitDue == ~trained \/ HmmBars - stampedBar >= RetrainEvery

RegimesTypeOK ==
    /\ turn \in {"detect", "hmm", "compare", "publish", "validate", "hmm again"}
    /\ bars \in 0..MaxBars /\ seen \in Names /\ regime \in Names
    /\ trained \in BOOLEAN /\ {stampedBar, fitted, healing, age} \subseteq 0..MaxBars
    /\ known \in Names \cup {"unknown"} /\ outrun \in BOOLEAN
    /\ transitions \in Seq((Names \cup {"unknown"}) \X Names) /\ Len(transitions) <= Cap
    /\ wire \in Seq(Names \cup {Nothing}) /\ Len(wire) <= MaxLag

RegimesInit ==
    /\ turn = "detect" /\ bars = 0 /\ seen = "sideways" /\ regime = "sideways"
    /\ trained = FALSE /\ stampedBar = 0 /\ fitted = 0 /\ healing = 0
    /\ known = "unknown" /\ transitions = <<>> /\ wire = <<>> /\ age = 0 /\ outrun = FALSE

-----------------------------------------------------------------------------
(* The ensemble and its hidden Markov model. *)

\* ensemble.update: the first prices do not reach the model.
Feed(from, hmm, to) ==
    /\ turn = from /\ bars < MaxBars /\ bars' = bars + 1
    /\ turn' = IF bars + 1 < First THEN to ELSE hmm
    /\ UNCHANGED <<seen, hmmVars, healing, regime, told, wire, age, outrun>>

\* _train_on_features, which may raise before it changes anything.
Train ==
    \/ trained' = TRUE /\ stampedBar' = HmmBars /\ fitted' = HmmBars
    \/ UNCHANGED hmmVars

\* _predict_regime: train when it is due, then ask the model; anything raised on the way, by
\* a model the other thread is fitting too, leaves it to the simple estimate.
Predict == IF FitDue THEN Train ELSE UNCHANGED hmmVars

\* hmm.update.
HmmUpdate(from, to) ==
    /\ turn = from /\ turn' = to
    /\ seen' \in IF HmmBars < Short THEN {"sideways"} ELSE Names
    /\ IF HmmBars < Lookback THEN UNCHANGED <<hmmVars, age>>
       ELSE /\ Predict
            /\ age' \in {0} \cup (IF FitDue /\ stampedBar' # HmmBars THEN {} ELSE {HmmBars - fitted'})
    /\ UNCHANGED <<bars, healing, regime, told, wire, outrun>>

\* _healing_restart_layer for layer 4.
HealingRestart ==
    /\ trained' = FALSE /\ stampedBar' = 0
    /\ UNCHANGED <<turn, bars, seen, fitted, healing, regime, told, wire, age, outrun>>

\* _healing_retrain_model: hmm.train with the model's own bars.
HealingRetrain ==
    /\ healing = 0 /\ HmmBars >= Lookback /\ healing' = HmmBars
    /\ UNCHANGED <<turn, bars, seen, hmmVars, regime, told, wire, age, outrun>>

\* The model is stamped with the bars there are when the fit is done; a fit that raises is
\* only logged.
HealingRetrained ==
    /\ healing # 0 /\ healing' = 0
    /\ \/ /\ trained' = TRUE /\ stampedBar' = HmmBars /\ fitted' = healing
          /\ outrun' = (outrun \/ healing < HmmBars)
       \/ UNCHANGED <<hmmVars, outrun>>
    /\ UNCHANGED <<turn, bars, seen, regime, told, wire, age>>

-----------------------------------------------------------------------------
(* The engine and the meta-learner. *)

\* _detect_regime sets the engine's regime first and publishes then, so that the engine's own
\* handler of the event finds nothing to do.
DetectRegime ==
    /\ turn = "compare"
    /\ regime' = seen /\ turn' = IF seen # regime THEN "publish" ELSE "validate"
    /\ UNCHANGED <<bars, seen, hmmVars, healing, told, wire, age, outrun>>

\* No data of the primary symbol; and validate runs for each symbol that has data.
NoPrimaryPrice ==
    /\ turn = "detect" /\ turn' = "compare"
    /\ UNCHANGED <<bars, seen, hmmVars, healing, regime, told, wire, age, outrun>>

Validated ==
    /\ turn = "validate" /\ turn' = "detect"
    /\ UNCHANGED <<bars, seen, hmmVars, healing, regime, told, wire, age, outrun>>

Cut(history) == IF Len(history) > Cap THEN SubSeq(history, Len(history) - Cap \div 2 + 1, Len(history))
                ELSE history
Recorded(history, from, to) == Cut(Append(history, <<from, to>>))

\* transition_to_regime records the change, and _on_regime_change records it again.
OnRegimeChange(r) ==
    IF r \notin {Nothing, known}
    THEN /\ known' = r
         /\ transitions' = Recorded(Recorded(transitions, known, r), known, r)
    ELSE UNCHANGED told

\* A variant whose rebuilt event keeps its own fields.
RebuiltWhole(r) == r

\* from_dict: the event rebuilt from Redis has the base fields only.
Rebuilt(r) == Nothing

\* publish_regime_detected of the regime found: through Redis, then the learner's handler and
\* the engine's.
PublishRegime ==
    /\ turn = "publish" /\ turn' = "validate" /\ regime' = seen
    /\ wire' \in {wire} \cup (IF Len(wire) < MaxLag THEN {Append(wire, Rebuilt(seen))} ELSE {})
    /\ OnRegimeChange(seen)
    /\ UNCHANGED <<bars, seen, hmmVars, healing, age, outrun>>

\* The listener thread: the learner's handler, then the engine's, which makes the learner
\* follow once more.
ListenerDelivers ==
    LET r == Head(wire)
    IN  /\ wire # <<>> /\ wire' = Tail(wire)
        /\ OnRegimeChange(r)
        /\ regime' = IF r = Nothing THEN regime ELSE r
        /\ UNCHANGED <<turn, bars, seen, hmmVars, healing, age, outrun>>

RegimesNext ==
    \/ Feed("detect", "hmm", "compare") \/ HmmUpdate("hmm", "compare")
    \/ DetectRegime \/ PublishRegime
    \/ Feed("validate", "hmm again", "validate") \/ HmmUpdate("hmm again", "validate")
    \/ NoPrimaryPrice \/ Validated
    \/ HealingRestart \/ HealingRetrain \/ HealingRetrained \/ ListenerDelivers

RegimesSpec == RegimesInit /\ [][RegimesNext]_regimeVars

-----------------------------------------------------------------------------
\* The engine publishes the regime it is in, and once a change is published the meta-learner
\* is in it too, whatever the listener thread delivers late.
InRegime ==
    IF turn = "publish" THEN regime = seen ELSE known = regime \/ (known = "unknown" /\ regime = "sideways")

\* The recorded transitions are a walk through the regimes, also where the history was cut:
\* each is its predecessor again or starts where that ended.
TransitionsChain ==
    \A i \in 1 .. Len(transitions) - 1 :
        /\ transitions[i][1] # transitions[i][2]
        /\ transitions[i + 1] = transitions[i] \/ transitions[i + 1][1] = transitions[i][2]

\* The meta-learner follows: it is in the engine's regime once a change is published, and the
\* changes it recorded lead from one regime to the next.
LearnerFollows == InRegime /\ TransitionsChain

\* A model that answers was fitted less than the interval ago, unless the self-awareness
\* thread stamped a fit that prices had outrun.
ModelFresh == age < RetrainEvery \/ outrun
=============================================================================
