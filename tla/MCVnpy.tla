------------------------------- MODULE MCVnpy -------------------------------
(***************************************************************************)
(* The vnpy engine's process: the engine in paper mode, its live orders, the *)
(* order tracker, the shared state, the watchdog, the API gateway's own      *)
(* state and the RL agent of two processes.  As in MCControl, a behaviour    *)
(* picks one of them (focus) and the others stand still.                    *)
(***************************************************************************)
EXTENDS VnpyEngine, OrderTracker, SharedState

CONSTANTS Callers, Lots, MaxPosition, LossLimit, MaxRetries, MaxSent,
          MaxFailures, MaxFaults, Clients, MaxRequests, Window, MaxTime, Sockets,
          Agents, Assets, EpisodeSteps, SaveEvery, MaxTraining, MaxAgents

VARIABLES focus,
          mode, primary, spot, local, exchange, listed, pending, lost, job, sent,
          serving, engine, status, watching, failures, phase, faults,
          now, requests, let, socket, connections,
          agent, policy, total_steps, unsaved, episode, then, checkpoint, meta, born,
          savedSteps, misread, together

Live == INSTANCE LiveOrders WITH position <- local
Dog == INSTANCE Watchdog
Gateway == INSTANCE ApiGateway
Rl == INSTANCE RlAgent WITH MaxStarts <- MaxAgents, saved <- savedSteps

ASSUME VnpyAssumption ==
    /\ Live!LiveAssumption /\ Dog!WatchdogAssumption /\ StateAssumption /\ TrackerAssumption
    /\ Gateway!GatewayAssumption /\ Rl!RlAgentAssumption

-----------------------------------------------------------------------------
liveAll == <<mode, primary, spot, local, exchange, listed, pending, lost, job, sent>>
dogAll == <<serving, engine, status, watching, failures, phase, faults>>
gatewayAll == <<now, requests, let, socket, connections>>
rlAll == <<agent, policy, total_steps, unsaved, episode, then, checkpoint, meta, born,
           savedSteps, misread, together>>
mcVars == <<vnpyVars, focus, liveAll, dogAll, sharedVars, trackerVars, gatewayAll,
            rlAll>>

VnpyInit ==
    /\ focus \in {"engine", "live", "dog", "state", "tracker", "gateway", "rl"}
    /\ Init /\ Live!Init /\ Dog!Init /\ StateInit /\ TrackerInit /\ Gateway!Init
    /\ Rl!Init

EngineTurn ==
    focus = "engine" /\ UNCHANGED <<focus, liveAll, dogAll, sharedVars, trackerVars, gatewayAll, rlAll>>
LiveTurn ==
    focus = "live" /\ UNCHANGED <<focus, vnpyVars, dogAll, sharedVars, trackerVars, gatewayAll, rlAll>>
DogTurn ==
    focus = "dog" /\ UNCHANGED <<focus, vnpyVars, liveAll, sharedVars, trackerVars, gatewayAll, rlAll>>
SharedTurn ==
    focus = "state" /\ UNCHANGED <<focus, vnpyVars, liveAll, dogAll, trackerVars, gatewayAll, rlAll>>
TrackerTurn ==
    focus = "tracker" /\ UNCHANGED <<focus, vnpyVars, liveAll, dogAll, sharedVars, gatewayAll, rlAll>>
GatewayTurn ==
    focus = "gateway" /\ UNCHANGED <<focus, vnpyVars, liveAll, dogAll, sharedVars, trackerVars, rlAll>>
RlTurn ==
    focus = "rl" /\ UNCHANGED <<focus, vnpyVars, liveAll, dogAll, sharedVars, trackerVars, gatewayAll>>

VnpyNext ==
    \/ EngineTurn /\ Next
    \/ LiveTurn /\ Live!Next
    \/ DogTurn /\ Dog!Next
    \/ SharedTurn /\ StateNext
    \/ TrackerTurn /\ TrackerNext
    \/ GatewayTurn /\ Gateway!Next
    \/ RlTurn /\ Rl!Next

\* The fairness of every component; of one that stands still in its initial state no
\* fair action is enabled.
VnpySpec ==
    /\ VnpyInit /\ [][VnpyNext]_mcVars
    /\ Fairness /\ Live!Fairness /\ Dog!Fairness /\ TrackerFairness

-----------------------------------------------------------------------------
\* Every part is well formed.
VnpyTypeOK ==
    /\ TypeOK /\ Live!TypeOK /\ Dog!TypeOK /\ StateTypeOK /\ TrackerTypeOK /\ Gateway!TypeOK
    /\ Rl!TypeOK

\* The training in the checkpoint is lost only to a failed load or to a second agent, and
\* the reward of the training follows the market the same way up and down.
TrainingKept == VnpyTypeOK /\ Rl!TrainingKept /\ Rl!RewardsFollow

\* In live mode the local position meets the exchange's again and again; and while the
\* watchdog runs, an engine that was stopped is started again.
VnpyGoesOn == Live!Reconciles /\ Dog!Revived

\* No client is let in more than MaxRequests times within any window.
WindowKept == Gateway!WindowKept
=============================================================================
