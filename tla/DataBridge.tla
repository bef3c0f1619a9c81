----------------------------- MODULE DataBridge -----------------------------
(***************************************************************************)
(* VNPyDataBridge and the market data it sits on (the singleton             *)
(* MockMarketData, the default of PAPER_MODE).  connect and disconnect are  *)
(* called by the engine's start and stop, by the healing restart and by the *)
(* self-awareness restart, each in a thread of its own and without a lock.  *)
(*                                                                         *)
(* A generator is a thread that produces prices while a flag is set: those  *)
(* of the market data look at its running flag, those of the bridge's own   *)
(* mock loop at connected.                                                 *)
(***************************************************************************)
EXTENDS Integers

CONSTANTS
    Controllers,    \* threads that connect, disconnect and restart
    Feeds,          \* names for the market data's generator threads
    MockFeeds       \* names for the bridge's mock loops

VARIABLES
    connected,      \* VNPyDataBridge.connected
    generating,     \* MockMarketData._running
    feeding,        \* the generators alive
    latest,         \* whether latest_data holds a price that somebody delivered
    control         \* [Controllers -> where it is]

vars == <<connected, generating, feeding, latest, control>>

Goes(t, at) == control' = [control EXCEPT ![t] = at]

\* Its flag: what keeps a generator going.
Flag(f) == IF f \in Feeds THEN generating ELSE connected

Spawn(fs) == \E f \in fs \ feeding : feeding' = feeding \cup {f}

-----------------------------------------------------------------------------
\* disconnect, and the first half of a restart; then market_data.stop().
Disconnect(t) ==
    /\ control[t] = "idle"
    /\ connected' = FALSE
    /\ \E next \in {"stopping", "restarting"} : Goes(t, next)
    /\ UNCHANGED <<generating, feeding, latest>>

StopFeed(t) ==
    /\ control[t] \in {"stopping", "restarting"}
    /\ generating' = FALSE
    /\ Goes(t, IF control[t] = "stopping" THEN "idle" ELSE "connecting")
    /\ UNCHANGED <<connected, feeding, latest>>

Connect(t) ==
    /\ control[t] = "idle"
    /\ Goes(t, "connecting")
    /\ UNCHANGED <<connected, generating, feeding, latest>>

\* subscribe and market_data.start: nothing to do when it runs already.
StartFeed(t) ==
    /\ control[t] = "connecting"
    /\ generating' = TRUE
    /\ IF generating THEN UNCHANGED feeding ELSE Spawn(Feeds)
    /\ Goes(t, "started")
    /\ UNCHANGED <<connected, latest>>

\* The market data raises: the mock loop is started, and connected is set after it.
ConnectFails(t) ==
    /\ control[t] = "connecting"
    /\ Spawn(MockFeeds)
    /\ Goes(t, "started")
    /\ UNCHANGED <<connected, generating, latest>>

Connected(t) ==
    /\ control[t] = "started"
    /\ connected' = TRUE
    /\ Goes(t, "idle")
    /\ UNCHANGED <<generating, feeding, latest>>

\* _on_market_data: a price that is not positive is dropped.  Delivery does not look at
\* connected, and what was delivered is kept for ever.
OnMarketData == latest' = TRUE \/ UNCHANGED latest

\* A generator at the head of its loop: it delivers to _on_market_data, or ends.  One
\* that sleeps while its flag is cleared and set again goes on.
Generate(f) ==
    /\ f \in feeding
    /\ IF Flag(f)
       THEN OnMarketData /\ UNCHANGED feeding
       ELSE feeding' = feeding \ {f} /\ UNCHANGED latest
    /\ UNCHANGED <<connected, generating, control>>

Init ==
    /\ connected = FALSE /\ generating = FALSE
    /\ feeding = {} /\ latest = FALSE
    /\ control = [t \in Controllers |-> "idle"]

Controls(t) == StopFeed(t) \/ StartFeed(t) \/ ConnectFails(t) \/ Connected(t)

Next ==
    \/ \E t \in Controllers : Disconnect(t) \/ Connect(t) \/ Controls(t)
    \/ \E f \in Feeds \cup MockFeeds : Generate(f)

Fairness ==
    /\ \A t \in Controllers : WF_vars(Controls(t))
    /\ \A f \in Feeds \cup MockFeeds : WF_vars(Generate(f))

-----------------------------------------------------------------------------
TypeOK ==
    /\ connected \in BOOLEAN /\ generating \in BOOLEAN
    /\ feeding \subseteq Feeds \cup MockFeeds
    /\ latest \in BOOLEAN
    /\ control \in [Controllers -> {"idle", "stopping", "restarting", "connecting", "started"}]

AtRest == \A t \in Controllers : control[t] = "idle"

\* A bridge that is disconnected and left alone falls silent: neither the market data
\* nor a mock loop goes on feeding it, however the calls of its callers overlapped.
FallsSilent ==
    []<>(connected \/ ~AtRest \/ feeding = {})
=============================================================================
