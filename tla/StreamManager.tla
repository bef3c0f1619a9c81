--------------------------- MODULE StreamManager ---------------------------
(***************************************************************************)
(* The data lab's event stream over Redis (src/data_lab/redis_stream_manager): *)
(* publishers append with an approximate cap, ask the backpressure controller  *)
(* about the length they read back, and drop old low-priority events when it    *)
(* is critical; a consumer group reads on.  Each Redis call is a step.         *)
(*   An event is its id; ids grow in the order of the appends.                 *)
(***************************************************************************)
EXTENDS Integers, SequencesExt

CONSTANTS Publishers,   \* threads that publish
          MaxLength,    \* max_length of the stream
          Critical,     \* critical_threshold (9500 of 10000 in the configuration)
          Slack,        \* the 500 of the drop count
          MaxDrop,      \* the 100 of the drop count
          Batch,        \* events read at a time (10)
          MaxPublished, \* bound: events published
          MaxOutages    \* bound: Redis outages

\* What the constants are assumed to be.
StreamAssumption ==
    /\ {MaxLength, Critical, Slack, MaxDrop, Batch, MaxPublished, MaxOutages} \subseteq Nat
    /\ Batch > 0 /\ Critical <= MaxLength

VARIABLES stream,    \* the stream in Redis, oldest first
          lows,      \* the events published with low priority
          last,      \* the id of the newest event
          redisUp, outages,
          connected, \* the manager's flag
          publisher, \* [Publishers -> [at, drop, batch]]: drop counts down to 0
          delivered  \* the consumer group's last delivered id

streamVars == <<stream, lows, last, redisUp, outages, connected, publisher, delivered>>

Idle == [at |-> "idle", drop |-> 0, batch |-> <<>>]
At(p, place) == publisher[p].at = place
Smaller(a, b) == IF a < b THEN a ELSE b

StreamTypeOK ==
    /\ stream \in Seq(1..last) /\ lows \subseteq 1..last /\ last \in 0..MaxPublished
    /\ redisUp \in BOOLEAN /\ connected \in BOOLEAN /\ outages \in 0..MaxOutages
    /\ \A p \in Publishers : publisher[p].at \in {"idle", "check", "read", "delete"}
                              /\ publisher[p].drop \in 0..MaxDrop
    /\ delivered \in 0..last
    /\ \A i, j \in DOMAIN stream : i < j => stream[i] < stream[j]

\* With no Redis at the start the manager would turn to its in-memory queues for good;
\* publishing to those always raises (an empty queue counts as no queue), so only a
\* start with Redis is of interest.
Init ==
    /\ stream = <<>> /\ lows = {} /\ last = 0 /\ redisUp = TRUE /\ outages = 0 /\ connected = TRUE
    /\ publisher = [p \in Publishers |-> Idle]
    /\ delivered = 0

-----------------------------------------------------------------------------
\* XADD with an approximate MAXLEN: Redis drops whole blocks of the oldest events, so
\* any number of them as long as MaxLength are left.
Trims(s) == {SubSeq(s, k + 1, Len(s)) : k \in 0..(IF Len(s) > MaxLength THEN Len(s) - MaxLength ELSE 0)}

\* Any error of Redis on the way takes the manager off line, for good: nothing sets the
\* flag again, and the publisher's call raises.
GoesOffline(p) ==
    /\ ~redisUp /\ connected' = FALSE /\ publisher' = [publisher EXCEPT ![p] = Idle]
    /\ UNCHANGED <<stream, lows, last, redisUp, outages, delivered>>

PublishEvent(p, low) ==
    /\ At(p, "idle") /\ connected /\ redisUp /\ last < MaxPublished
    /\ last' = last + 1
    /\ stream' \in Trims(Append(stream, last + 1))
    /\ lows' = IF low THEN lows \cup {last + 1} ELSE lows
    /\ publisher' = [publisher EXCEPT ![p].at = "check"]
    /\ UNCHANGED <<redisUp, outages, connected, delivered>>

\* The length read back, and what it calls for.
DropCount(n) == IF n < Critical THEN 0 ELSE Smaller(MaxDrop, n - MaxLength + Slack)

CheckBackpressure(p) ==
    /\ At(p, "check") /\ redisUp
    /\ LET n == DropCount(Len(stream)) IN
       publisher' = [publisher EXCEPT ![p] = IF n <= 0 THEN Idle ELSE [at |-> "read", drop |-> n, batch |-> <<>>]]
    /\ UNCHANGED <<stream, lows, last, redisUp, outages, connected, delivered>>

\* The dropping loop reads the oldest events of the stream, again and again.
ReadOldest(p) ==
    /\ At(p, "read") /\ redisUp
    /\ publisher' = [publisher EXCEPT ![p] =
           IF stream = <<>> THEN Idle
           ELSE [at |-> "delete", drop |-> @.drop, batch |-> SubSeq(stream, 1, Smaller(Batch, Len(stream)))]]
    /\ UNCHANGED <<stream, lows, last, redisUp, outages, connected, delivered>>

\* One event of the batch: deleted when its priority is low, and counted even if
\* another publisher deleted it first.
AnyPriority(e) == TRUE
LowPriority(e) == e \in lows
Dropped(p, e) == IF LowPriority(e) THEN publisher[p].drop - 1 ELSE publisher[p].drop

\* XDEL, of an event that may be gone already.
Without(s, e) ==
    IF e \in ToSet(s) THEN RemoveAt(s, CHOOSE i \in DOMAIN s : s[i] = e) ELSE s

DropEvent(p) ==
    LET e == Head(publisher[p].batch)
        rest == Tail(publisher[p].batch)
    IN  /\ At(p, "delete") /\ redisUp
        /\ stream' = IF LowPriority(e) THEN Without(stream, e) ELSE stream
        /\ publisher' = [publisher EXCEPT ![p] =
               IF Dropped(p, e) = 0 THEN Idle
               ELSE [at |-> IF rest = <<>> THEN "read" ELSE "delete", drop |-> Dropped(p, e), batch |-> rest]]
        /\ UNCHANGED <<lows, last, redisUp, outages, connected, delivered>>

\* An error while dropping is only logged; the event itself is already published.
DropFailsAgain(p) == \* variant: the loop tries again
    publisher[p].at \in {"read", "delete"} /\ ~redisUp /\ UNCHANGED streamVars
DropFails(p) ==
    /\ publisher[p].at \in {"read", "delete"} /\ ~redisUp
    /\ publisher' = [publisher EXCEPT ![p] = Idle]
    /\ UNCHANGED <<stream, lows, last, redisUp, outages, connected, delivered>>

PublishFails(p) == (At(p, "check") \/ (At(p, "idle") /\ connected)) /\ GoesOffline(p)

-----------------------------------------------------------------------------
\* A consumer asks for what the group was never given ('>'): what another consumer was
\* given and never acknowledged is not asked for by anyone.
FirstUndelivered(i) == stream[i] > delivered /\ \A j \in 1 .. i - 1 : stream[j] <= delivered

ConsumeEvents ==
    /\ connected /\ redisUp
    /\ \E i \in DOMAIN stream : /\ FirstUndelivered(i)
                              /\ delivered' = stream[Smaller(i + Batch - 1, Len(stream))]
    /\ UNCHANGED <<stream, lows, last, redisUp, outages, connected, publisher>>

RedisStops ==
    /\ redisUp /\ outages < MaxOutages /\ redisUp' = FALSE /\ outages' = outages + 1
    /\ UNCHANGED <<stream, lows, last, connected, publisher, delivered>>

RedisReturns ==
    /\ ~redisUp /\ redisUp' = TRUE
    /\ UNCHANGED <<stream, lows, last, outages, connected, publisher, delivered>>

-----------------------------------------------------------------------------
PublisherStep(p) == CheckBackpressure(p) \/ ReadOldest(p) \/ DropEvent(p) \/ DropFails(p) \/ PublishFails(p)

Next ==
    \/ \E p \in Publishers : PublisherStep(p) \/ \E low \in BOOLEAN : PublishEvent(p, low)
    \/ ConsumeEvents \/ RedisStops \/ RedisReturns

\* A thread in the middle of a call goes on.
Fairness == \A p \in Publishers : WF_streamVars(~At(p, "idle") /\ PublisherStep(p))

-----------------------------------------------------------------------------
\* Of the newest MaxLength events, only low ones are ever gone: however the appends,
\* the trims and the drops of several publishers interleave, pressure costs no event
\* of a higher priority that the cap alone would have kept.
KeepsNewest == \A i \in (last - MaxLength + 1)..last : i > 0 => i \in ToSet(stream) \cup lows

\* A publisher that drops gets out of the loop, unless no low event is left among the
\* oldest Batch: then it reads the same events for ever.
OnlyHigherInFront == lows \cap ToSet(SubSeq(stream, 1, Smaller(Batch, Len(stream)))) = {}
DropEnds == \A p \in Publishers : publisher[p].at \in {"read", "delete"} ~> (At(p, "idle") \/ OnlyHigherInFront)
=============================================================================
