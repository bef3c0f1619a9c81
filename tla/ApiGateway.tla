---------------------------- MODULE ApiGateway ----------------------------
(***************************************************************************)
(* api_gateway_enhanced.py: the state the gateway keeps for itself, which is *)
(* the rate limiter and the list of open WebSockets.  (What its handlers do  *)
(* to the engine is in VnpyEngine.)  Handlers run on one event loop, and     *)
(* none of these awaits, so each is a step.                                *)
(*                                                                         *)
(* Time is in ticks up to MaxTime, Window of which make the window.         *)
(***************************************************************************)
EXTENDS Integers, Sequences, FiniteSets

CONSTANTS Clients, MaxRequests, Window, MaxTime, Sockets

GatewayAssumption == {MaxRequests, Window, MaxTime} \subseteq Nat

VARIABLES now,
          let,         \* history: per client, the times of all requests that were let in
          requests,    \* per client: those of them whose times the limiter remembers
          socket,      \* a WebSocket: none, open or gone, seen from the client
          connections  \* websocket_connections

apiVars == <<now, requests, let, socket, connections>>
limiter == <<now, requests, let>>
sockets == <<socket, connections>>

TypeOK ==
    /\ now \in 0..MaxTime
    /\ \A c \in Clients : /\ \A i \in DOMAIN let[c] : let[c][i] \in 0..now
                          /\ requests[c] \subseteq DOMAIN let[c]
                          /\ Cardinality(requests[c]) <= MaxRequests
    /\ socket \in [Sockets -> {"none", "open", "gone"}] /\ connections \in SUBSET Sockets

Init ==
    /\ now = 0 /\ requests = [c \in Clients |-> {}] /\ let = [c \in Clients |-> <<>>]
    /\ socket = [s \in Sockets |-> "none"] /\ connections = {}

\* A limiter of fixed windows: the times are dropped together, once the first is old.
RecentWindow(c) == IF \E i \in requests[c] : let[c][i] <= now - Window THEN {} ELSE requests[c]

-----------------------------------------------------------------------------
\* What the limiter keeps of a client: the times later than a window ago.
Recent(c) == {i \in requests[c] : let[c][i] > now - Window}

\* RateLimiter.is_allowed, under rate_limit_middleware (the health, metrics and token
\* endpoints and the WebSockets do not come here).
Request(c) ==
    /\ IF Cardinality(Recent(c)) >= MaxRequests
       THEN requests' = [requests EXCEPT ![c] = Recent(c)] /\ UNCHANGED let
       ELSE /\ let' = [let EXCEPT ![c] = Append(@, now)]
            /\ requests' = [requests EXCEPT ![c] = Recent(c) \cup {Len(let[c]) + 1}]
    /\ UNCHANGED <<now, sockets>>

Pass == now < MaxTime /\ now' = now + 1 /\ UNCHANGED <<requests, let, sockets>>

-----------------------------------------------------------------------------
\* /ws/stream and /ws/events: accepted and listed.
Connect(s) ==
    /\ socket[s] = "none"
    /\ socket' = [socket EXCEPT ![s] = "open"] /\ connections' = connections \cup {s}
    /\ UNCHANGED limiter

\* The client goes away, and its handler unlists it.
Disconnect(s) ==
    /\ socket[s] = "open"
    /\ socket' = [socket EXCEPT ![s] = "gone"] /\ connections' = connections \ {s}
    /\ UNCHANGED limiter

\* A /ws/stream handler ends with another exception (of the engine, or of a message
\* that is no object): the socket is closed and stays in the list.
StreamFails(s) ==
    /\ socket[s] = "open" /\ socket' = [socket EXCEPT ![s] = "gone"]
    /\ UNCHANGED <<connections, limiter>>

Next ==
    \/ \E c \in Clients : Request(c)
    \/ Pass
    \/ \E s \in Sockets : Connect(s) \/ Disconnect(s) \/ StreamFails(s)

-----------------------------------------------------------------------------
\* No client is let in more than MaxRequests times within any window, wherever the
\* window begins.
WindowKept ==
    \A c \in Clients, start \in 0..MaxTime :
        Cardinality({i \in DOMAIN let[c] : let[c][i] \in start..(start + Window - 1)}) <= MaxRequests
=============================================================================
