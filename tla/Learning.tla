------------------------------ MODULE Learning ------------------------------
(***************************************************************************)
(* The intelligence layer (paper_trading/layers/layer4_intelligence):       *)
(* SelfLearningEngine and DecisionTreeAgent under IntelligenceEnsemble, and  *)
(* the gate on their disagreement.                                           *)
(*   validate runs in the update thread; record_trade_outcome in the thread    *)
(* whose fill closed the position, the update thread or the dashboard's.  When   *)
(* it raises, what engine._on_order_filled does after it - the goals and the      *)
(* fail-safe - is left out, and the order manager only logs it.  A model is known  *)
(* by the labels it was fitted on: what a fitted classifier answers is one of them. *)
(***************************************************************************)
EXTENDS Integers, FiniteSetsExt, SequencesExt

CONSTANTS Update,          \* the update thread
          Threads,         \* the threads that fills arrive in
          Interval,        \* retrain_interval, in ticks
          MinSamples,      \* min_samples
          BufferSize,      \* maxlen of experience_buffer
          MaxOutcomes,     \* bound: trade outcomes
          MaxNow           \* bound: the clock

\* What the constants are assumed to be.
LearningAssumption ==
    /\ Update \in Threads /\ IsFiniteSet(Threads)
    /\ {Interval, MinSamples, BufferSize} \subseteq Nat \ {0}
    /\ MinSamples <= BufferSize /\ {MaxOutcomes, MaxNow} \subseteq Nat

VARIABLES now,
          buffer,     \* experience_buffer: the labels, oldest first
          stamped,    \* last_retrain_time
          retrains,   \* [thread -> retrains it counted]
          training,   \* is_training
          model,      \* the labels the self-learning model is fitted on, or Unfitted; {} is none
          tree,       \* the decision tree's labels; {} while it is not trained
          pc,         \* [thread -> where it is]
          outcome,    \* [thread -> it is recording an outcome, not validating]
          sample,     \* [thread -> the labels it fits]
          looked,     \* ticks the update loop has validated in
          outcomes,   \* outcomes recorded
          untold,     \* outcomes that never reached the fail-safe
          overlapped  \* history: a thread refitted the model while another was at it

learningVars == <<now, buffer, stamped, retrains, training, model, tree, pc, outcome, sample,
                  looked, outcomes, untold, overlapped>>
clock == <<now, looked>>
counts == <<outcomes, untold, overlapped>>

Labels == {"buy", "sell"}
Steps == {"idle", "due", "check", "enter", "assign", "fit", "leave", "grow", "score"}
Unfitted == {"unfitted"}

TypeOK ==
    /\ now \in 0..MaxNow /\ stamped \in 0..now /\ looked \in 0..now
    /\ buffer \in Seq(Labels) /\ Len(buffer) <= BufferSize
    /\ retrains \in [Threads -> Nat] /\ training \in BOOLEAN
    /\ model \in (SUBSET Labels) \cup {Unfitted} /\ tree \subseteq Labels
    /\ pc \in [Threads -> Steps] /\ outcome \in [Threads -> BOOLEAN]
    /\ sample \in [Threads -> SUBSET Labels]
    /\ outcomes \in 0..MaxOutcomes /\ untold \in 0..outcomes /\ overlapped \in BOOLEAN

Init ==
    /\ now = 0 /\ buffer = <<>> /\ stamped = 0 /\ retrains = [t \in Threads |-> 0]
    /\ training = FALSE /\ model = {} /\ tree = {}
    /\ pc = [t \in Threads |-> "idle"] /\ outcome = [t \in Threads |-> FALSE]
    /\ sample = [t \in Threads |-> {}] /\ looked = 0
    /\ outcomes = 0 /\ untold = 0 /\ overlapped = FALSE

At(t, from, to) == pc[t] = from /\ pc' = [pc EXCEPT ![t] = to]

-----------------------------------------------------------------------------
(* The gate: calculate_model_uncertainty. *)

\* What the trained models may answer; an unfitted one raises and is passed over.
Answers(m) == IF m \in {{}, Unfitted} THEN {<<>>} ELSE {<<label>> : label \in m}
VotesNow == {t \o m : t \in Answers(tree), m \in Answers(model)}

\* The HMM's probabilities are counted among the predictions and never among the votes.  More
\* than 20 percent without the most frequent vote is too much.
UncertaintyAllows(votes) ==
    LET predictions == Len(votes) + 1
        most == Max({0} \cup {Quantify(DOMAIN votes, LAMBDA i : votes[i] = v) : v \in ToSet(votes)})
    IN  predictions < 2 \/ 100 * (predictions - most) <= 20 * predictions

-----------------------------------------------------------------------------
(* Experiences and outcomes. *)

AddExperience(label) ==
    buffer' = IF Len(buffer) < BufferSize THEN Append(buffer, label) ELSE Append(Tail(buffer), label)

\* validate: an action of the aggregator is an experience labelled with it, whatever the
\* models voted.
Validate(action) ==
    /\ looked < now /\ looked' = now
    /\ IF action = "none"
       THEN pc[Update] = "idle" /\ UNCHANGED <<buffer, pc, outcome>>
       ELSE /\ At(Update, "idle", "due") /\ AddExperience(action)
            /\ outcome' = [outcome EXCEPT ![Update] = FALSE]
    /\ UNCHANGED <<now, stamped, retrains, training, model, tree, sample, counts>>

\* record_trade_outcome: a trade that lost is an experience of the same label as one that won.
RecordTradeOutcome(t, label) ==
    /\ outcomes < MaxOutcomes /\ outcomes' = outcomes + 1
    /\ At(t, "idle", "due") /\ AddExperience(label)
    /\ outcome' = [outcome EXCEPT ![t] = TRUE]
    /\ UNCHANGED <<clock, stamped, retrains, training, model, tree, sample, untold, overlapped>>

ShouldRetrain == Len(buffer) >= MinSamples /\ now - stamped >= Interval

Due(t) ==
    /\ At(t, "due", IF ShouldRetrain THEN "check" ELSE "idle")
    /\ UNCHANGED <<clock, buffer, stamped, retrains, training, model, tree, outcome, sample, counts>>

-----------------------------------------------------------------------------
(* retrain: is_training is read and set in two steps. *)

Check(t) ==
    /\ At(t, "check", IF training THEN "idle" ELSE "enter")
    /\ UNCHANGED <<clock, buffer, stamped, retrains, training, model, tree, outcome, sample, counts>>

Enter(t) ==
    /\ At(t, "enter", "assign")
    /\ training' = TRUE /\ sample' = [sample EXCEPT ![t] = ToSet(buffer)]
    /\ UNCHANGED <<clock, buffer, stamped, retrains, model, tree, outcome, counts>>

\* The new classifier replaces the old one before it is fitted.
Assign(t) ==
    /\ At(t, "assign", "fit")
    /\ model' = Unfitted
    /\ overlapped' = (overlapped \/ \E u \in Threads \ {t} : pc[u] # "idle")
    /\ UNCHANGED <<clock, buffer, stamped, retrains, training, tree, outcome, sample, outcomes, untold>>

\* A variant that does not stamp the time.
FitUnstamped(t) ==
    /\ At(t, "fit", "leave")
    /\ model' = sample[t] /\ UNCHANGED stamped
    /\ retrains' = [retrains EXCEPT ![t] = @ + 1]
    /\ UNCHANGED <<clock, buffer, training, tree, outcome, sample, counts>>

\* self.model is read again: of two threads at it, both fit the newer object.
Fit(t) ==
    /\ At(t, "fit", "leave")
    /\ model' = sample[t] /\ stamped' = now
    /\ retrains' = [retrains EXCEPT ![t] = @ + 1]
    /\ UNCHANGED <<clock, buffer, training, tree, outcome, sample, counts>>

\* A variant whose flag is not taken back.
LeaveTraining(t) ==
    /\ At(t, "leave", IF outcome[t] THEN "grow" ELSE "idle")
    /\ UNCHANGED <<clock, buffer, stamped, retrains, training, model, tree, outcome, sample, counts>>

Leave(t) ==
    /\ At(t, "leave", IF outcome[t] THEN "grow" ELSE "idle")
    /\ training' = FALSE
    /\ UNCHANGED <<clock, buffer, stamped, retrains, model, tree, outcome, sample, counts>>

-----------------------------------------------------------------------------
(* The rest of an outcome that retrained. *)

\* _retrain_decision_tree, from the buffer as it is by now.
RetrainDecisionTree(t) ==
    /\ At(t, "grow", "score")
    /\ tree' = ToSet(buffer)
    /\ UNCHANGED <<clock, buffer, stamped, retrains, training, model, outcome, sample, counts>>

\* _estimate_model_accuracy asks the model with no guard: an unfitted one raises.
Score(t) ==
    /\ At(t, "score", "idle")
    /\ untold' = untold + (IF model = Unfitted THEN 1 ELSE 0)
    /\ UNCHANGED <<clock, buffer, stamped, retrains, training, model, tree, outcome, sample,
                   outcomes, overlapped>>

Tick ==
    /\ now < MaxNow /\ now' = now + 1
    /\ UNCHANGED <<buffer, stamped, retrains, training, model, tree, pc, outcome, sample, looked, counts>>

Retrain(t) ==
    \/ Due(t) \/ Check(t) \/ Enter(t) \/ Assign(t) \/ Fit(t) \/ Leave(t)
    \/ RetrainDecisionTree(t) \/ Score(t)

Next ==
    \/ \E action \in Labels \cup {"none"} : Validate(action)
    \/ \E t \in Threads, label \in Labels : RecordTradeOutcome(t, label)
    \/ \E t \in Threads : Retrain(t)
    \/ Tick

\* A thread that has begun goes on.
Fairness == \A t \in Threads : WF_learningVars(Retrain(t))

Spec == Init /\ [][Next]_learningVars

-----------------------------------------------------------------------------
\* Two threads that find a retraining due at once both do it, and no more than that: each
\* retrains at most once per interval.
RetrainsBounded == \A t \in Threads : retrains[t] * Interval <= now

\* An outcome is kept from the fail-safe only when two threads refit the model together.
LostOnlyToOverlap == untold > 0 => overlapped

\* A thread that trains gives the flag back.
TrainingEnds == training ~> ~training

\* Models of one opinion let the trade through.
AgreeingModelsAllowed ==
    \A votes \in VotesNow : Cardinality(ToSet(votes)) <= 1 => UncertaintyAllows(votes)
=============================================================================
