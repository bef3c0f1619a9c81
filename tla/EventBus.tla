------------------------------ MODULE EventBus ------------------------------
(***************************************************************************)
(* paper_trading/layers/event_bus.py: publish stores an event, sends it    *)
(* through Redis and calls the local subscribers on the publisher's own    *)
(* thread; a listener thread hears the same channels from Redis and calls  *)
(* the same subscribers again, with an event rebuilt by from_dict.         *)
(*                                                                         *)
(* Publishers run in several threads, without a lock.  An event is its     *)
(* number, in the order in which the events are stored.                    *)
(***************************************************************************)
EXTENDS Integers, FiniteSets, SequencesExt

CONSTANTS
    Types,       \* event types, one channel each
    Callbacks,   \* subscribers; each subscribes once
    Publishers,  \* threads that publish
    Capacity,    \* events kept (1000 in the code)
    MaxEvents    \* bound on the events of a behaviour

\* What the constants are assumed to be.
BusAssumption ==
    /\ Capacity \in Nat \ {0} /\ MaxEvents \in Nat

VARIABLES
    redis_client, \* whether _connect succeeded
    subscribers,  \* _subscribers: the callbacks of each channel, in order
    running,      \* _running
    listener,     \* where the listener thread is
    channels,     \* external: channels the listener subscribed to in Redis
    wire,         \* external: messages Redis holds for the listener
    redis,        \* external: the history list, newest first
    memory,       \* _memory_store, oldest first
    kind,         \* the type of each event published
    cleared,      \* history: the last event published before the history was cleared
    dispatch,     \* for each publisher: its event, and the next callback to call
    owed,         \* history: who was subscribed when an event was published
    got           \* history: how often a callback got an event, whole or rebuilt

listenerVars == <<running, listener, channels>>
stores == <<redis, memory>>
vars == <<redis_client, subscribers, listenerVars, wire, stores, kind, cleared, dispatch, owed, got>>

Idle == [event |-> 0, next |-> 0]
Events == DOMAIN kind
Of(type) == ToSet(subscribers[type])
Latest(n) == {e \in Events : e > Len(kind) - n}

\* Callbacks are called with an event, as it was published or rebuilt.
Tell(e, callbacks, whole, rebuilt) ==
    got' = [got EXCEPT ![e] =
              [cb \in Callbacks |-> IF cb \in callbacks
                                    THEN [whole |-> @[cb].whole + whole, rebuilt |-> @[cb].rebuilt + rebuilt]
                                    ELSE @[cb]]]

-----------------------------------------------------------------------------
(* Subscribing and the listener thread. *)

\* subscribe: the first one, with Redis, starts the listener.
Subscribe(cb, types) ==
    /\ \A type \in Types : cb \notin Of(type)
    /\ subscribers' = [type \in Types |-> IF type \in types THEN Append(subscribers[type], cb)
                                          ELSE subscribers[type]]
    /\ IF redis_client /\ ~running
       THEN running' = TRUE /\ listener' = "starting"
       ELSE UNCHANGED <<running, listener>>
    /\ UNCHANGED <<channels, wire, stores, kind, cleared, dispatch, owed, got>>

\* _listen_loop, once: the channels that have callbacks now.
ListenerSubscribes ==
    /\ listener = "starting"
    /\ listener' = "listening"
    /\ channels' = {type \in Types : subscribers[type] # <<>>}
    /\ UNCHANGED <<subscribers, running, wire, stores, kind, cleared, dispatch, owed, got>>

\* The subscribe command failed: the thread returns and _running stays.
ListenerGivesUp ==
    /\ listener = "starting"
    /\ listener' = "ended"
    /\ UNCHANGED <<subscribers, running, channels, wire, stores, kind, cleared, dispatch, owed, got>>

\* One message: the rebuilt event for every callback of its channel.
ListenerDelivers ==
    /\ listener = "listening" /\ wire # <<>>
    /\ wire' = Tail(wire)
    /\ Tell(Head(wire), Of(kind[Head(wire)]), 0, 1)
    /\ UNCHANGED <<subscribers, listenerVars, stores, kind, cleared, dispatch, owed>>

\* disconnect, by reset_event_bus: the listener ends with what it had not read.
Disconnect ==
    /\ running' = FALSE
    /\ listener' = IF listener = "off" THEN "off" ELSE "ended"
    /\ channels' = {} /\ wire' = <<>>
    /\ UNCHANGED <<subscribers, stores, kind, cleared, dispatch, owed, got>>

-----------------------------------------------------------------------------
(* Publishing. *)

\* lpush and ltrim; append and cut.
Push(list, e) == SubSeq(<<e>> \o list, 1, IF Len(list) < Capacity THEN Len(list) + 1 ELSE Capacity)
Remember(list, e) == IF Len(list) < Capacity THEN Append(list, e) ELSE list

Stored(e) ==
    /\ redis_client
    /\ redis' = Push(redis, e)
    /\ UNCHANGED memory

\* No client, or an exception at lpush or after it: the memory store gets the event.
StoredInMemory(e) ==
    /\ memory' = Remember(memory, e)
    /\ redis' \in {redis} \cup (IF redis_client THEN {Push(redis, e)} ELSE {})

Publish(p, type) ==
    LET e == Len(kind) + 1
    IN  /\ dispatch[p] = Idle /\ e <= MaxEvents
        /\ kind' = Append(kind, type)
        /\ \/ Stored(e) /\ wire' = IF type \in channels THEN Append(wire, e) ELSE wire
           \/ StoredInMemory(e) /\ UNCHANGED wire
        /\ dispatch' = [dispatch EXCEPT ![p] = [event |-> e, next |-> 1]]
        /\ owed' = [owed EXCEPT ![e] = Of(type)]
        /\ UNCHANGED <<subscribers, listenerVars, cleared, got>>

\* A variant whose loop an exception of a callback leaves.
DispatchFirst(p) ==
    LET d == dispatch[p]
    IN  /\ d # Idle /\ d.next = 1 /\ d.next <= Len(subscribers[kind[d.event]])
        /\ Tell(d.event, {subscribers[kind[d.event]][d.next]}, 1, 0)
        /\ dispatch' = [dispatch EXCEPT ![p] = [event |-> d.event, next |-> Len(subscribers[kind[d.event]]) + 1]]
        /\ UNCHANGED <<subscribers, listenerVars, wire, stores, kind, cleared, owed>>

\* The next local callback; an exception it raises is caught.  The list grows
\* under the loop when another thread subscribes.
Dispatch(p) ==
    LET d == dispatch[p]
    IN  /\ d # Idle /\ d.next <= Len(subscribers[kind[d.event]])
        /\ Tell(d.event, {subscribers[kind[d.event]][d.next]}, 1, 0)
        /\ dispatch' = [dispatch EXCEPT ![p] = [event |-> d.event, next |-> d.next + 1]]
        /\ UNCHANGED <<subscribers, listenerVars, wire, stores, kind, cleared, owed>>

Published(p) ==
    LET d == dispatch[p]
    IN  /\ d # Idle /\ d.next > Len(subscribers[kind[d.event]])
        /\ dispatch' = [dispatch EXCEPT ![p] = Idle]
        /\ UNCHANGED <<subscribers, listenerVars, wire, stores, kind, cleared, owed, got>>

-----------------------------------------------------------------------------
(* The history *)

\* clear_history: of Redis, or without a client of the memory.
ClearHistory ==
    /\ cleared' = Len(kind)
    /\ IF redis_client THEN redis' = <<>> /\ UNCHANGED memory ELSE memory' = <<>> /\ UNCHANGED redis
    /\ UNCHANGED <<subscribers, listenerVars, wire, kind, dispatch, owed, got>>

\* The store the queries ask: with a client never the memory, what fell back to it or not.
Asked == IF redis_client THEN redis ELSE memory

\* get_event_by_trace_id, get_event_count
Found(e) == e \in ToSet(Asked)
EventCount == Len(Asked)

\* get_events_by_type: limit counts the events looked at, of whatever type.
ByType(type, limit) ==
    {e \in ToSet(SubSeq(Asked, 1, IF limit < Len(Asked) THEN limit ELSE Len(Asked))) : kind[e] = type}

-----------------------------------------------------------------------------
\* _connect reaches Redis, or not for the life of the bus.
Init ==
    /\ redis_client \in BOOLEAN
    /\ subscribers = [type \in Types |-> <<>>]
    /\ running = FALSE /\ listener = "off" /\ channels = {} /\ wire = <<>>
    /\ redis = <<>> /\ memory = <<>> /\ kind = <<>> /\ cleared = 0
    /\ dispatch = [p \in Publishers |-> Idle]
    /\ owed = [e \in 1..MaxEvents |-> {}]
    /\ got = [e \in 1..MaxEvents |-> [cb \in Callbacks |-> [whole |-> 0, rebuilt |-> 0]]]

Listen == ListenerSubscribes \/ ListenerGivesUp \/ ListenerDelivers

Calls(p) == Dispatch(p) \/ Published(p)

Run ==
    \/ \E cb \in Callbacks, types \in SUBSET Types \ {{}} : Subscribe(cb, types)
    \/ Listen \/ Disconnect \/ ClearHistory
    \/ \E p \in Publishers : Calls(p) \/ \E type \in Types : Publish(p, type)

Next == Run /\ UNCHANGED redis_client

Spec == Init /\ [][Next]_vars

\* The listener thread blocks only for the next message.
Fairness == WF_vars(Listen /\ UNCHANGED redis_client)
FairSpec == Spec /\ Fairness

-----------------------------------------------------------------------------
(* What the bus promises. *)

\* The variables keep their types; nothing waits on the wire for a listener
\* that is not listening.
TypeOK ==
    /\ subscribers \in [Types -> Seq(Callbacks)]
    /\ redis_client \in BOOLEAN
    /\ running \in BOOLEAN /\ listener \in {"off", "starting", "listening", "ended"}
    /\ channels \subseteq Types /\ (listener # "listening" => channels = {} /\ wire = <<>>)
    /\ \A s \in {redis, memory} : Len(s) <= Capacity /\ IsInjective(s)
    /\ kind \in Seq(Types) /\ cleared \in 0..Len(kind)
    /\ \A p \in Publishers : dispatch[p] = Idle \/ dispatch[p].event \in Events
    /\ \A e \in 1..MaxEvents : owed[e] \subseteq Callbacks
                               /\ got[e] \in [Callbacks -> [whole : Nat, rebuilt : Nat]]

\* publish returns only after every callback that was subscribed when it was
\* called has had the event once, whatever other threads publish or subscribe
\* in the meantime and whether or not Redis failed; the listener repeats it at
\* most once.
EachSubscriberOnce ==
    \A e \in Events, cb \in Callbacks :
        /\ got[e][cb].whole <= 1 /\ got[e][cb].rebuilt <= 1
        /\ cb \in owed[e] /\ (\A p \in Publishers : dispatch[p].event # e)
             => got[e][cb].whole = 1

\* Every one of the latest events since the history was cleared is still stored somewhere,
\* whichever Redis commands failed and wherever they did, as long as the fallback store has
\* not filled up.
LatestKept ==
    redis_client /\ Len(memory) < Capacity
      => Latest(Capacity) \ 1..cleared \subseteq ToSet(redis) \cup ToSet(memory)

\* While nothing fell back to the memory, the queries find each of the latest events, under
\* its trace id and its type, and nothing from before the history was cleared.
QueriesFind ==
    redis_client /\ memory = <<>> =>
        /\ \A e \in Events : Found(e) = (e \in Latest(Capacity) \ 1..cleared)
        /\ EventCount = Cardinality({e \in Events : Found(e)})
        /\ \A type \in Types, limit \in 1..Capacity :
              ByType(type, limit) = {e \in Latest(limit) \ 1..cleared : kind[e] = type}

\* What Redis holds for a running listener is called out to the subscribers.
WireDrains == \A e \in 1..MaxEvents : (e \in ToSet(wire)) ~> (e \notin ToSet(wire))
=============================================================================
