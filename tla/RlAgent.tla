------------------------------ MODULE RlAgent -------------------------------
(***************************************************************************)
(* vnpy_local/rl_module.py: the policy that the processes with a trading     *)
(* engine load from one checkpoint file when they start and write back when    *)
(* they stop, and the environment it is trained in.                            *)
(*   A policy is known by the training steps in it.  Only tests call train in    *)
(* the repository; here an operator may.  How the policy answers is free.         *)
(***************************************************************************)
EXTENDS Integers, FiniteSetsExt

CONSTANTS Agents,        \* processes with an agent
          Assets,        \* symbols
          EpisodeSteps,  \* steps after which an episode is truncated (1000)
          SaveEvery,     \* CHECKPOINT_INTERVAL, in training steps
          MaxTraining,   \* bound: training steps in a policy
          MaxStarts      \* bound: starts of agents

\* What the constants are assumed to be.  (With 500 symbols waiting alone would earn the clip of
\* the reward; the repository's configurations name two.)
RlAgentAssumption ==
    /\ IsFiniteSet(Agents) /\ IsFiniteSet(Assets) /\ Cardinality(Assets) \in 1..499
    /\ {EpisodeSteps, SaveEvery, MaxTraining, MaxStarts} \subseteq Nat \ {0}

VARIABLES agent,       \* [process -> "off", "on", "training" or "saving"]
          policy,      \* [process -> training in its policy]
          total_steps, \* [process -> total_steps]
          unsaved,     \* [process -> steps since last_checkpoint_time]
          episode,     \* [process -> current_step of its environment]
          then,        \* [process -> what it goes on with after saving]
          checkpoint,  \* external: the training in the checkpoint file, Torn, or Missing
          meta,        \* external: the steps in the file beside it
          born,        \* starts
          saved,       \* history: the most training ever saved whole
          misread,     \* history: a load failed
          together     \* history: two agents lived at once

agentVars == <<agent, policy, total_steps, unsaved, episode, then, checkpoint, meta, born,
               saved, misread, together>>
files == <<checkpoint, meta, saved>>
lives == <<born, misread, together>>

Torn == -1
Missing == -2

TypeOK ==
    /\ agent \in [Agents -> {"off", "on", "training", "saving", "metadata"}]
    /\ policy \in [Agents -> 0..MaxTraining] /\ total_steps \in [Agents -> 0..MaxTraining]
    /\ unsaved \in [Agents -> 0..SaveEvery] /\ episode \in [Agents -> 0..EpisodeSteps - 1]
    /\ then \in [Agents -> {"off", "on", "training"}]
    /\ checkpoint \in Missing..MaxTraining /\ meta \in 0..MaxTraining /\ saved \in 0..MaxTraining
    /\ born \in 0..MaxStarts /\ misread \in BOOLEAN /\ together \in BOOLEAN

Init ==
    /\ agent = [p \in Agents |-> "off"] /\ policy = [p \in Agents |-> 0]
    /\ total_steps = [p \in Agents |-> 0] /\ unsaved = [p \in Agents |-> 0]
    /\ episode = [p \in Agents |-> 0] /\ then = [p \in Agents |-> "off"]
    /\ checkpoint = Missing /\ meta = 0
    /\ born = 0 /\ saved = 0 /\ misread = FALSE /\ together = FALSE

-----------------------------------------------------------------------------
(* The reward, in thousandths, with the trend in twentieths and the change of the price in *)
(* thousandths.                                                                            *)

Actions == {"hold", "buy", "sell", "close"}
Trends == -2..2
Moves == -2..2
Size(n) == IF n < 0 THEN -n ELSE n

\* Nothing sets a side in _position_side, so that a close only costs.
SymbolReward(action, trend, change) ==
    CASE action = "buy"   -> 100 * trend + (IF change > 0 THEN 100 ELSE 50) * change - 10
      [] action = "sell"  -> -100 * trend - (IF change < 0 THEN 100 ELSE 50) * change - 10
      [] action = "close" -> -5
      [] action = "hold"  -> IF Size(trend) < 2 THEN 10 ELSE 0

Clip(reward) == IF reward > 5000 THEN 5000 ELSE IF reward < -5000 THEN -5000 ELSE reward

\* _calculate_reward over [symbol -> <<trend, change>>].
CalculateReward(action, market) ==
    Clip(MapThenSumSet(LAMBDA s : SymbolReward(action, market[s][1], market[s][2]), Assets))

-----------------------------------------------------------------------------
(* A process. *)

\* RLAgent.__init__ and load_checkpoint: a file that cannot be read, torn or not, leaves the
\* fresh policy.  total_steps starts at 0 whatever was loaded.
Start(p) ==
    /\ agent[p] = "off" /\ born < MaxStarts /\ born' = born + 1
    /\ agent' = [agent EXCEPT ![p] = "on"]
    /\ \E fails \in BOOLEAN :
          /\ checkpoint = Torn => fails
          /\ checkpoint = Missing => ~fails
          /\ policy' = [policy EXCEPT ![p] = IF fails \/ checkpoint = Missing THEN 0 ELSE checkpoint]
          /\ misread' = (misread \/ fails)
    /\ total_steps' = [total_steps EXCEPT ![p] = 0] /\ unsaved' = [unsaved EXCEPT ![p] = 0]
    /\ episode' = [episode EXCEPT ![p] = 0]
    /\ together' = (together \/ \E q \in Agents : agent[q] # "off")
    /\ UNCHANGED <<then, files>>

\* policy.save has opened the file.
Save(p, next) ==
    /\ agent' = [agent EXCEPT ![p] = "saving"] /\ then' = [then EXCEPT ![p] = next]
    /\ checkpoint' = Torn
    /\ UNCHANGED <<meta, saved>>

Train(p) ==
    /\ agent[p] = "on" /\ agent' = [agent EXCEPT ![p] = "training"]
    /\ UNCHANGED <<policy, total_steps, unsaved, episode, then, files, lives>>

\* One step of the environment and the callback: the episode ends by truncation only, since
\* nothing changes current_balance.
TrainingStep(p) ==
    /\ agent[p] = "training" /\ policy[p] < MaxTraining
    /\ policy' = [policy EXCEPT ![p] = @ + 1]
    /\ total_steps' = [total_steps EXCEPT ![p] = @ + 1]
    /\ episode' = [episode EXCEPT ![p] = (@ + 1) % EpisodeSteps]
    /\ IF unsaved[p] + 1 >= SaveEvery
       THEN unsaved' = [unsaved EXCEPT ![p] = 0] /\ Save(p, "training")
       ELSE unsaved' = [unsaved EXCEPT ![p] = @ + 1] /\ UNCHANGED <<agent, then, files>>
    /\ UNCHANGED lives

\* train ends with a checkpoint.
Trained(p) ==
    /\ agent[p] = "training" /\ Save(p, "on")
    /\ UNCHANGED <<policy, total_steps, unsaved, episode, lives>>

\* TradingEngine.stop.
Stop(p) ==
    /\ agent[p] = "on" /\ Save(p, "off")
    /\ UNCHANGED <<policy, total_steps, unsaved, episode, lives>>

\* A variant that writes what was trained in this life only.
SavedOwn(p) ==
    /\ agent[p] = "saving" /\ agent' = [agent EXCEPT ![p] = "metadata"]
    /\ checkpoint' = total_steps[p] /\ saved' = Max({saved, total_steps[p]})
    /\ UNCHANGED <<policy, total_steps, unsaved, episode, then, meta, lives>>

\* The file is whole.
Saved(p) ==
    /\ agent[p] = "saving" /\ agent' = [agent EXCEPT ![p] = "metadata"]
    /\ checkpoint' = policy[p] /\ saved' = Max({saved, policy[p]})
    /\ UNCHANGED <<policy, total_steps, unsaved, episode, then, meta, lives>>

\* _save_metadata, whose failure is only logged.
SaveMetadata(p) ==
    /\ agent[p] = "metadata" /\ agent' = [agent EXCEPT ![p] = then[p]]
    /\ meta' \in {meta, total_steps[p]}
    /\ UNCHANGED <<policy, total_steps, unsaved, episode, then, checkpoint, saved, lives>>

Kill(p) ==
    /\ agent[p] # "off" /\ agent' = [agent EXCEPT ![p] = "off"]
    /\ UNCHANGED <<policy, total_steps, unsaved, episode, then, files, lives>>

Next == \E p \in Agents :
    \/ Start(p) \/ Train(p) \/ TrainingStep(p) \/ Trained(p) \/ Stop(p)
    \/ Saved(p) \/ SaveMetadata(p) \/ Kill(p)

-----------------------------------------------------------------------------
\* Saved training is lost only to a load that failed, after which the fresh policy is written
\* back, or to two agents that write one file.
TrainingKept == checkpoint >= 0 /\ ~misread /\ ~together => checkpoint = saved

\* What buying earns, selling earns in the mirrored market; and where trend and price agree,
\* following them earns more than waiting and going against them costs.
RewardsFollow == \A t \in Trends, c \in Moves :
    LET market == [s \in Assets |-> <<t, c>>]
        mirror == [s \in Assets |-> <<-t, -c>>]
    IN  /\ CalculateReward("buy", market) = CalculateReward("sell", mirror)
        /\ t > 0 /\ c > 0 => /\ CalculateReward("buy", market) > CalculateReward("hold", market)
                             /\ CalculateReward("sell", market) < 0
=============================================================================
