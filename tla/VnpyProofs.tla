----------------------------- MODULE VnpyProofs -----------------------------
(* Theorems about the parts of MCVnpy, for every value of their constants. *)
EXTENDS MCVnpy, Recursion, SequenceTheorems

-----------------------------------------------------------------------------
(* The shared state. *)

Values == [Positions -> 0..MaxSets]

StateType ==
    /\ redis \in Values /\ sets \in 0..MaxSets
    /\ redisUp \in BOOLEAN /\ client \in [Processes -> BOOLEAN]
    /\ cache \in [Processes -> Values] /\ wrote \in [Processes -> Values]
    /\ up \in [Processes -> BOOLEAN]
    /\ backups \in SUBSET File
    /\ saving \in [Processes -> 0..MaxStamp] /\ stamp \in 1..MaxStamp

\* What a process has in its cache is no older than what it set, and a process that is down
\* has set nothing.
CacheCovers(p, k) == cache[p][k] >= wrote[p][k] /\ (~up[p] => wrote[p][k] = 0)
OwnInCache == \A p \in Processes, k \in Positions : CacheCovers(p, k)

StateInv == StateType /\ OwnInCache

LEMMA EmptyValues == ASSUME StateAssumption PROVE Empty \in Values /\ \A k \in Positions : Empty[k] = 0
BY DEF Empty, Values, StateAssumption

\* A directory with files has a newest one.
LEMMA NewestExists ==
    ASSUME StateAssumption, NEW files \in SUBSET File, files # {}
    PROVE  \E f \in files : \A g \in files : g.stamp <= f.stamp
<1> DEFINE Age(f) == MaxStamp - f.stamp
           ages == {Age(f) : f \in files}
<1>1. \A f \in files : f.stamp \in 1..MaxStamp
    BY DEF File
<1>2. ages \subseteq Nat /\ ages # {}
    BY <1>1 DEF StateAssumption
<1>3. PICK least \in ages : \A a \in ages : ~(<<a, least>> \in OpToRel(<, Nat))
    BY <1>2, NatLessThanWellFounded, WFMin
<1>4. \A a \in ages : ~(a < least)
    BY <1>2, <1>3 DEF OpToRel
<1>5. PICK f \in files : least = Age(f)
    OBVIOUS
<1>6. ASSUME NEW g \in files PROVE g.stamp <= f.stamp
  <2>1. ~(Age(g) < Age(f))
      BY <1>4, <1>5
  <2>2. g.stamp \in Nat /\ f.stamp \in Nat /\ MaxStamp \in Nat
      BY <1>1 DEF StateAssumption
  <2> QED
      BY <2>1, <2>2
<1> QED
    BY <1>6

LEMMA LoadedValues == ASSUME StateAssumption, StateType PROVE Loaded \in Values
<1>1. CASE backups = {}
    BY <1>1, EmptyValues DEF Loaded
<1>2. CASE backups # {}
  <2> DEFINE newest == CHOOSE f \in backups : \A g \in backups : g.stamp <= f.stamp
  <2>1. newest \in backups
      BY <1>2, NewestExists DEF StateType
  <2>2. newest.data \in Values
      BY <2>1 DEF StateType, File, Values
  <2>3. Loaded = IF newest.torn THEN Empty ELSE newest.data
      BY <1>2 DEF Loaded
  <2> HIDE DEF newest
  <2> QED
      BY <2>2, <2>3, EmptyValues
<1> QED
    BY <1>1, <1>2

\* What a read gives is a value, and no older than what the process set.
LEMMA GotCovers ==
    ASSUME StateAssumption, StateInv, NEW p \in Processes, NEW k \in Positions
    PROVE  Got(p, k) \in 0..MaxSets /\ (up[p] => Got(p, k) >= wrote[p][k])
<1>1. cache[p][k] \in 0..MaxSets /\ wrote[p][k] \in 0..MaxSets /\ redis[k] \in 0..MaxSets
    BY DEF StateInv, StateType, Values
<1>2. cache[p][k] >= wrote[p][k]
    BY DEF StateInv, OwnInCache, CacheCovers
<1> QED
    BY <1>1, <1>2 DEF Got, StateAssumption

\* A step that fills the cache of one running process with what reads give.
LEMMA ReadingKeepsInv ==
    ASSUME StateAssumption, StateInv, NEW p \in Processes, up[p], NEW read \in Values,
           cache' = [cache EXCEPT ![p] = read],
           \A k \in Positions : read[k] \in {Got(p, k), cache[p][k]},
           UNCHANGED <<redis, redisUp, client, wrote, up, backups, saving, stamp, sets>>
    PROVE  StateInv'
<1>1. StateType'
    BY DEF StateInv, StateType
<1>2. ASSUME NEW q \in Processes, NEW k \in Positions PROVE CacheCovers(q, k)'
  <2>1. CASE q = p
    <3>1. cache'[q][k] = read[k]
        BY <2>1 DEF StateInv, StateType
    <3>2. read[k] >= wrote[p][k]
        BY GotCovers DEF StateInv, OwnInCache, CacheCovers
    <3> QED
        BY <2>1, <3>1, <3>2 DEF CacheCovers
  <2>2. CASE q # p
    <3>1. cache'[q] = cache[q] /\ CacheCovers(q, k)
        BY <2>2 DEF StateInv, StateType, OwnInCache
    <3> QED
        BY <3>1 DEF CacheCovers
  <2> QED
      BY <2>1, <2>2
<1> QED
    BY <1>1, <1>2 DEF StateInv, OwnInCache

\* A step that leaves caches and writes alone.
LEMMA OthersKeepInv ==
    ASSUME StateInv, UNCHANGED <<redis, cache, wrote, up, sets>>,
           redisUp' \in BOOLEAN, client' \in [Processes -> BOOLEAN],
           backups' \in SUBSET File, saving' \in [Processes -> 0..MaxStamp], stamp' \in 1..MaxStamp
    PROVE  StateInv'
BY DEF StateInv, StateType, OwnInCache, CacheCovers

LEMMA StartKeepsInv ==
    ASSUME StateAssumption, StateInv, NEW p \in Processes, StartProcess(p)
    PROVE  StateInv'
<1>1. /\ ~up[p] /\ up' = [up EXCEPT ![p] = TRUE] /\ cache' = [cache EXCEPT ![p] = Loaded]
      /\ client' = [client EXCEPT ![p] = redisUp]
      /\ UNCHANGED <<redis, redisUp, wrote, backups, saving, stamp, sets>>
    BY DEF StartProcess
<1>2. Loaded \in Values
    BY LoadedValues DEF StateInv
<1>3. StateType'
    BY <1>1, <1>2 DEF StateInv, StateType
<1>4. ASSUME NEW q \in Processes, NEW k \in Positions PROVE CacheCovers(q, k)'
  <2>1. CASE q = p
    <3>1. cache'[q] = Loaded /\ Loaded[k] \in Nat
        BY <1>1, <1>2, <2>1 DEF StateInv, StateType, Values
    <3>2. wrote'[q][k] = 0
        BY <1>1, <2>1 DEF StateInv, OwnInCache, CacheCovers
    <3> QED
        BY <3>1, <3>2 DEF CacheCovers
  <2>2. CASE q # p
    <3>1. cache'[q] = cache[q] /\ up'[q] = up[q] /\ wrote'[q] = wrote[q] /\ CacheCovers(q, k)
        BY <1>1, <2>2 DEF StateInv, StateType, OwnInCache
    <3> QED
        BY <3>1 DEF CacheCovers
  <2> QED
      BY <2>1, <2>2
<1> QED
    BY <1>3, <1>4 DEF StateInv, OwnInCache

LEMMA CrashKeepsInv == ASSUME StateAssumption, StateInv, NEW p \in Processes, Crash(p) PROVE StateInv'
<1>1. /\ up' = [up EXCEPT ![p] = FALSE]
      /\ cache' = [cache EXCEPT ![p] = Empty] /\ wrote' = [wrote EXCEPT ![p] = Empty]
      /\ client' = [client EXCEPT ![p] = FALSE]
      /\ saving' = [saving EXCEPT ![p] = 0] /\ UNCHANGED <<redis, redisUp, backups, stamp, sets>>
    BY DEF Crash
<1>2. StateType'
  <2>1. 0 \in 0..MaxStamp
      BY DEF StateAssumption
  <2> QED
      BY <1>1, <2>1, EmptyValues DEF StateInv, StateType
<1>3. ASSUME NEW q \in Processes, NEW k \in Positions PROVE CacheCovers(q, k)'
  <2>1. CASE q = p
    <3>1. cache'[q][k] = 0 /\ wrote'[q][k] = 0
        BY <1>1, <2>1, EmptyValues DEF StateInv, StateType
    <3> QED
        BY <3>1 DEF CacheCovers
  <2>2. CASE q # p
    <3>1. cache'[q] = cache[q] /\ up'[q] = up[q] /\ wrote'[q] = wrote[q] /\ CacheCovers(q, k)
        BY <1>1, <2>2 DEF StateInv, StateType, OwnInCache
    <3> QED
        BY <3>1 DEF CacheCovers
  <2> QED
      BY <2>1, <2>2
<1> QED
    BY <1>2, <1>3 DEF StateInv, OwnInCache

LEMMA SetKeepsInv ==
    ASSUME StateAssumption, StateInv, NEW p \in Processes, NEW k \in Positions, Set(p, k)
    PROVE  StateInv'
<1>1. /\ up[p] /\ sets' = sets + 1 /\ redis' \in {redis, [redis EXCEPT ![k] = sets']}
      /\ cache' = [cache EXCEPT ![p][k] = sets'] /\ wrote' = [wrote EXCEPT ![p][k] = sets']
      /\ UNCHANGED <<redisUp, client, up, backups, saving, stamp>> /\ sets < MaxSets
    BY DEF Set
<1>2. sets' \in 0..MaxSets
    BY <1>1 DEF StateInv, StateType, StateAssumption
<1>3. StateType'
    BY <1>1, <1>2 DEF StateInv, StateType, Values
<1>4. ASSUME NEW q \in Processes, NEW j \in Positions PROVE CacheCovers(q, j)'
  <2>1. CASE q = p /\ j = k
    <3>1. cache'[q][j] = sets' /\ wrote'[q][j] = sets' /\ up'[q]
        BY <1>1, <2>1 DEF StateInv, StateType, Values
    <3> QED
        BY <1>2, <3>1 DEF CacheCovers
  <2>2. CASE ~(q = p /\ j = k)
    <3>1. cache'[q][j] = cache[q][j] /\ wrote'[q][j] = wrote[q][j] /\ up'[q] = up[q]
        BY <1>1, <2>2 DEF StateInv, StateType, Values
    <3> QED
        BY <3>1 DEF CacheCovers, StateInv, OwnInCache
  <2> QED
      BY <2>1, <2>2
<1> QED
    BY <1>3, <1>4 DEF StateInv, OwnInCache

LEMMA BackupsKeepInv ==
    ASSUME StateAssumption, StateInv, NEW p \in Processes, OpenBackup(p) \/ WriteBackup(p) \/ PruneBackups(p)
    PROVE  StateInv'
<1>1. CASE OpenBackup(p)
  <2>1. [stamp |-> stamp, torn |-> TRUE, data |-> Empty] \in File
      BY EmptyValues DEF StateInv, StateType, File, Values
  <2>2. Put([stamp |-> stamp, torn |-> TRUE, data |-> Empty]) \in SUBSET File
      BY <2>1 DEF Put, StateInv, StateType
  <2>3. saving' \in [Processes -> 0..MaxStamp]
      BY <1>1 DEF OpenBackup, StateInv, StateType
  <2> QED
      BY <1>1, <2>2, <2>3, OthersKeepInv DEF OpenBackup, StateInv, StateType
<1>2. CASE WriteBackup(p)
  <2>1. [stamp |-> saving[p], torn |-> FALSE, data |-> cache[p]] \in File
      BY <1>2 DEF WriteBackup, StateInv, StateType, File, Values
  <2>2. Put([stamp |-> saving[p], torn |-> FALSE, data |-> cache[p]]) \in SUBSET File
      BY <2>1 DEF Put, StateInv, StateType
  <2> QED
      BY <1>2, <2>2, OthersKeepInv DEF WriteBackup, StateInv, StateType
<1>3. CASE PruneBackups(p)
  <2>1. backups' \in SUBSET File
      BY <1>3 DEF PruneBackups, StateInv, StateType
  <2>2. saving' \in [Processes -> 0..MaxStamp]
    <3>1. saving' = [saving EXCEPT ![p] = 0] /\ 0 \in 0..MaxStamp
        BY <1>3 DEF PruneBackups, StateAssumption
    <3> QED
        BY <3>1 DEF StateInv, StateType
  <2> QED
      BY <1>3, <2>1, <2>2, OthersKeepInv DEF PruneBackups, StateInv, StateType
<1> QED
    BY <1>1, <1>2, <1>3

LEMMA InitState == ASSUME StateAssumption PROVE StateInit => StateInv
<1> SUFFICES ASSUME StateInit PROVE StateInv
    OBVIOUS
<1>1. StateType
    BY EmptyValues DEF StateInit, StateType, StateAssumption
<1>2. OwnInCache
    BY EmptyValues DEF StateInit, OwnInCache, CacheCovers
<1> QED
    BY <1>1, <1>2 DEF StateInv

LEMMA StepsKeepState == ASSUME StateAssumption PROVE StateInv /\ [StateNext]_sharedVars => StateInv'
<1> SUFFICES ASSUME StateInv, [StateNext]_sharedVars PROVE StateInv'
    OBVIOUS
<1>1. ASSUME NEW p \in Processes, NEW k \in Positions, Get(p, k) PROVE StateInv'
  <2> DEFINE read == [cache[p] EXCEPT ![k] = Got(p, k)]
  <2>1. read \in Values /\ \A j \in Positions : read[j] \in {Got(p, j), cache[p][j]}
      BY GotCovers DEF StateInv, StateType, Values
  <2>2. cache' = [cache EXCEPT ![p] = read]
      BY <1>1 DEF Get, StateInv, StateType
  <2> HIDE DEF read
  <2> QED
      BY <1>1, <2>1, <2>2, ReadingKeepsInv DEF Get
<1>2. ASSUME NEW p \in Processes, GetAllPositions(p) PROVE StateInv'
  <2> DEFINE read == [k \in Positions |-> IF k \in AllPositions(p) THEN Got(p, k) ELSE cache[p][k]]
  <2>1. read \in Values /\ \A j \in Positions : read[j] \in {Got(p, j), cache[p][j]}
      BY GotCovers DEF StateInv, StateType, Values
  <2>2. cache' = [cache EXCEPT ![p] = read]
      BY <1>2 DEF GetAllPositions
  <2> HIDE DEF read
  <2> QED
      BY <1>2, <2>1, <2>2, ReadingKeepsInv DEF GetAllPositions
<1>3. ASSUME NEW p \in Processes, Reconnect(p) PROVE StateInv'
    BY <1>3, OthersKeepInv DEF Reconnect, StateInv, StateType
<1>4. CASE RedisFails \/ RedisReturns
    BY <1>4, OthersKeepInv DEF RedisFails, RedisReturns, StateInv, StateType
<1>5. CASE Second
  <2>1. stamp' \in 1..MaxStamp
      BY <1>5 DEF Second, StateInv, StateType, StateAssumption
  <2> QED
      BY <1>5, <2>1, OthersKeepInv DEF Second, StateInv, StateType
<1>6. CASE UNCHANGED sharedVars
    BY <1>6, OthersKeepInv DEF sharedVars, StateInv, StateType
<1> QED
    BY <1>1, <1>2, <1>3, <1>4, <1>5, <1>6, StartKeepsInv, CrashKeepsInv, SetKeepsInv,
       BackupsKeepInv DEF StateNext

\* A process that set a key never reads an older value of it (_redis_set, _redis_get,
\* get_all_positions), however often Redis fails, processes die and backups are loaded.
THEOREM OwnWritesRead == ASSUME StateAssumption PROVE StateSpec => []ReadYourWrites
<1>1. StateInv => ReadYourWrites
    BY GotCovers DEF ReadYourWrites
<1> QED
    BY <1>1, InitState, StepsKeepState, PTL DEF StateSpec

-----------------------------------------------------------------------------
(* The order tracker. *)

Tracked == [status : Statuses \cup {"none"}, filled : Int, trades : Int]
Events == [order : Orders, kind : {"order", "trade"}, status : Statuses, traded : Int]

WellTyped ==
    /\ market \in [Orders -> [status : Statuses \cup {"unsent"}, traded : Int]]
    /\ tracked \in [Orders -> Tracked] /\ disk \in [Orders -> Tracked]
    /\ known \subseteq Orders /\ events \in Seq(Events)

\* Whoever says that an order has ended says how it ended.
EndedAs(at, o, end) == end \in Final => at[o].status = end

\* What an event on its way, the tracker and the file say of an order's end is true.
EndsAreTrue ==
    /\ WellTyped
    /\ \A o \in Orders : EndedAs(market, o, tracked[o].status) /\ EndedAs(market, o, disk[o].status)
    /\ \A i \in 1..Len(events) : EndedAs(market, events[i].order, events[i].status)

LEMMA InitEnds == TrackerInit => EndsAreTrue
BY DEF TrackerInit, EndsAreTrue, WellTyped, EndedAs, Unsent, None, Tracked, Events, Statuses, Open, Final

\* An order that has ended at the exchange stays as it ended, so what was true stays true.
Lasting == \A o \in Orders : market[o].status \in Final => market'[o].status = market[o].status

LEMMA TrueStaysTrue ==
    ASSUME Lasting, NEW o \in Orders, NEW end, EndedAs(market, o, end)
    PROVE  EndedAs(market', o, end)
BY DEF Lasting, EndedAs

\* A step of the exchange that adds events: they say what the exchange now says.
LEMMA ExchangeKeepsEnds ==
    ASSUME EndsAreTrue, Lasting, NEW new \in Seq(Events), events' = events \o new,
           market' \in [Orders -> [status : Statuses \cup {"unsent"}, traded : Int]],
           \A i \in 1..Len(new) : EndedAs(market', new[i].order, new[i].status),
           UNCHANGED <<tracked, disk, known>>
    PROVE  EndsAreTrue'
<1>1. events \in Seq(Events) /\ events' \in Seq(Events) /\ Len(events') = Len(events) + Len(new)
    BY DEF EndsAreTrue, WellTyped
<1>2. ASSUME NEW i \in 1..Len(events') PROVE EndedAs(market', events'[i].order, events'[i].status)
  <2>1. CASE i <= Len(events)
    <3>1. i \in 1..Len(events) /\ events'[i] = events[i] /\ events[i] \in Events
        BY <1>1, <2>1
    <3>2. events[i].order \in Orders
        BY <3>1 DEF Events
    <3>3. EndedAs(market, events[i].order, events[i].status)
        BY <3>1 DEF EndsAreTrue
    <3> QED
        BY <3>1, <3>2, <3>3, TrueStaysTrue
  <2>2. CASE i > Len(events)
    <3>1. i - Len(events) \in 1..Len(new) /\ events'[i] = new[i - Len(events)]
        BY <1>1, <2>2
    <3> QED
        BY <3>1
  <2> QED
    BY <1>1, <2>1, <2>2
<1>3. ASSUME NEW o \in Orders PROVE EndedAs(market', o, tracked'[o].status) /\ EndedAs(market', o, disk'[o].status)
    BY TrueStaysTrue DEF EndsAreTrue
<1> QED
    BY <1>1, <1>2, <1>3 DEF EndsAreTrue, WellTyped

\* A step of the process that leaves the exchange alone and makes up no ending.
LEMMA ProcessKeepsEnds ==
    ASSUME EndsAreTrue, UNCHANGED market,
           tracked' \in [Orders -> Tracked], disk' \in [Orders -> Tracked], known' \subseteq Orders,
           \A o \in Orders : EndedAs(market, o, tracked'[o].status) /\ EndedAs(market, o, disk'[o].status),
           events' \in {events, <<>>} \/ (events # <<>> /\ events' = Tail(events))
    PROVE  EndsAreTrue'
<1>1. events \in Seq(Events)
    BY DEF EndsAreTrue, WellTyped
<1>2. events' \in Seq(Events)
  <2>1. events # <<>> => Tail(events) \in Seq(Events)
      BY <1>1
  <2>2. <<>> \in Seq(Events)
      OBVIOUS
  <2> QED
      BY <1>1, <2>1, <2>2
<1>3. ASSUME NEW i \in 1..Len(events') PROVE EndedAs(market, events'[i].order, events'[i].status)
  <2>1. CASE events' = events
      BY <2>1 DEF EndsAreTrue
  <2>2. CASE events # <<>> /\ events' = Tail(events)
    <3>1. i + 1 \in 1..Len(events) /\ events'[i] = events[i + 1]
        BY <1>1, <2>2
    <3> QED
        BY <3>1 DEF EndsAreTrue
  <2>3. CASE events' = <<>>
      BY <2>3
  <2> QED
      BY <2>1, <2>2, <2>3
<1> QED
    BY <1>2, <1>3 DEF EndsAreTrue, WellTyped, EndedAs

LEMMA HandlingKeepsEnds == ASSUME EndsAreTrue, HandleEvent PROVE EndsAreTrue'
<1> DEFINE e == Head(events)
<1>1. events # <<>> /\ events' = Tail(events) /\ UNCHANGED <<market, known, disk>>
    BY DEF HandleEvent
<1>2. e \in Events /\ EndedAs(market, e.order, e.status)
  <2>1. events \in Seq(Events) /\ e = events[1] /\ 1 \in 1..Len(events)
      BY <1>1 DEF EndsAreTrue, WellTyped
  <2> QED
      BY <2>1 DEF EndsAreTrue
<1>3. e.order \in Orders /\ e.status \in Statuses /\ e.traded \in Int /\ tracked[e.order] \in Tracked
    BY <1>2 DEF Events, EndsAreTrue, WellTyped
<1>4. /\ tracked' \in [Orders -> Tracked]
      /\ \A o \in Orders : EndedAs(market, o, tracked'[o].status)
  <2>1. CASE UNCHANGED tracked
      BY <2>1 DEF EndsAreTrue, WellTyped
  <2>2. CASE OnOrderEvent(e)
    <3> DEFINE new == [status |-> e.status, trades |-> tracked[e.order].trades,
                filled |-> IF e.status = "partTradedNotQueueing" THEN e.traded ELSE tracked[e.order].filled]
    <3>1. new \in Tracked /\ new.status = e.status
        BY <1>3 DEF Tracked
    <3>2. tracked' = [tracked EXCEPT ![e.order] = new]
        BY <2>2 DEF OnOrderEvent
    <3> HIDE DEF new
    <3> QED
        BY <1>2, <1>3, <3>1, <3>2 DEF EndsAreTrue, WellTyped
  <2>3. CASE OnTradeEvent(e)
    <3> DEFINE new == [status |-> tracked[e.order].status, trades |-> tracked[e.order].trades + 1,
                       filled |-> tracked[e.order].filled + e.traded]
    <3>1. new \in Tracked /\ new.status = tracked[e.order].status
        BY <1>3 DEF Tracked
    <3>2. tracked' = [tracked EXCEPT ![e.order] = new]
        BY <2>3 DEF OnTradeEvent
    <3> HIDE DEF new
    <3> QED
        BY <1>3, <3>1, <3>2 DEF EndsAreTrue, WellTyped
  <2> QED
      BY <2>1, <2>2, <2>3 DEF HandleEvent
<1> QED
    BY <1>1, <1>4, ProcessKeepsEnds DEF EndsAreTrue, WellTyped

LEMMA SendKeepsEnds == ASSUME EndsAreTrue, NEW o \in Orders, Send(o) PROVE EndsAreTrue'
<1>1. /\ market[o].status = "unsent" /\ market' = [market EXCEPT ![o].status = "submitted"]
      /\ events' = events /\ UNCHANGED <<tracked, disk, known>>
    BY DEF Send, Unsent
<1>2. /\ market' \in [Orders -> [status : Statuses \cup {"unsent"}, traded : Int]]
      /\ Lasting
    BY <1>1 DEF EndsAreTrue, WellTyped, Lasting, Statuses, Open, Final
<1>3. events' = events \o <<>> /\ <<>> \in Seq(Events)
    BY <1>1 DEF EndsAreTrue, WellTyped
<1>4. \A i \in 1..Len(<<>>) : EndedAs(market', <<>>[i].order, <<>>[i].status)
    OBVIOUS
<1> QED
    BY <1>1, <1>2, <1>3, <1>4, ExchangeKeepsEnds

LEMMA AcknowledgeKeepsEnds == ASSUME EndsAreTrue, NEW o \in Orders, Acknowledge(o) PROVE EndsAreTrue'
<1> DEFINE new == <<OrderEvent(o, "not_traded", 0)>>
<1>1. /\ market[o].status = "submitted" /\ market' = [market EXCEPT ![o].status = "not_traded"]
      /\ events' = Append(events, OrderEvent(o, "not_traded", 0)) /\ UNCHANGED <<tracked, disk, known>>
    BY DEF Acknowledge
<1>2. /\ market' \in [Orders -> [status : Statuses \cup {"unsent"}, traded : Int]]
      /\ Lasting
    BY <1>1 DEF EndsAreTrue, WellTyped, Lasting, Statuses, Open, Final
<1>3. OrderEvent(o, "not_traded", 0) \in Events
    BY DEF Events, OrderEvent, Statuses, Open
<1>4. events' = events \o new /\ new \in Seq(Events)
    BY <1>1, <1>3 DEF EndsAreTrue, WellTyped
<1>5. \A i \in 1..Len(new) : EndedAs(market', new[i].order, new[i].status)
    BY DEF OrderEvent, EndedAs, Final
<1> QED
    BY <1>1, <1>2, <1>4, <1>5, ExchangeKeepsEnds

LEMMA FillKeepsEnds == ASSUME EndsAreTrue, NEW o \in Orders, Fill(o) PROVE EndsAreTrue'
<1> DEFINE traded == market[o].traded + 1
           end == IF traded = Volume THEN "filled" ELSE "partTradedNotQueueing"
           new == <<OrderEvent(o, end, traded), TradeEvent(o, end, 1)>>
<1>1. /\ market[o].status \in {"not_traded", "partTradedNotQueueing"}
      /\ market' = [market EXCEPT ![o] = [status |-> end, traded |-> traded]]
      /\ events' = events \o new /\ UNCHANGED <<tracked, disk, known>>
    BY DEF Fill
<1>2. traded \in Int /\ end \in Statuses
    BY DEF EndsAreTrue, WellTyped, Statuses, Open, Final
<1>3. OrderEvent(o, end, traded) \in Events /\ TradeEvent(o, end, 1) \in Events
    BY <1>2 DEF Events, OrderEvent, TradeEvent
<1>4. new \in Seq(Events) /\ Len(new) = 2
    BY <1>3
<1>5. market'[o].status = end
    BY <1>1 DEF EndsAreTrue, WellTyped
<1>6. \A i \in 1..Len(new) : new[i].order = o /\ new[i].status = end
    BY DEF OrderEvent, TradeEvent
<1>7. \A i \in 1..Len(new) : EndedAs(market', new[i].order, new[i].status)
    BY <1>5, <1>6 DEF EndedAs
<1> HIDE DEF end, traded
<1>8. market' \in [Orders -> [status : Statuses \cup {"unsent"}, traded : Int]]
    BY <1>1, <1>2 DEF EndsAreTrue, WellTyped
<1>9. Lasting
    BY <1>1 DEF Lasting, Final, EndsAreTrue, WellTyped
<1> QED
    BY <1>1, <1>4, <1>7, <1>8, <1>9, ExchangeKeepsEnds

\* End, and a cancel request that reaches the exchange in time.
LEMMA EndKeepsEnds ==
    ASSUME EndsAreTrue, NEW o \in Orders, NEW end \in Final, market[o].status \in Open,
           market' = [market EXCEPT ![o].status = end],
           events' = Append(events, OrderEvent(o, end, market[o].traded)),
           UNCHANGED <<tracked, disk, known>>
    PROVE  EndsAreTrue'
<1> DEFINE new == <<OrderEvent(o, end, market[o].traded)>>
<1>1. /\ market' \in [Orders -> [status : Statuses \cup {"unsent"}, traded : Int]]
      /\ market'[o].status = end
    BY DEF EndsAreTrue, WellTyped, Statuses
<1>2. Lasting
    BY DEF EndsAreTrue, WellTyped, Lasting, Open, Final
<1>3. OrderEvent(o, end, market[o].traded) \in Events
    BY DEF Events, OrderEvent, Statuses, EndsAreTrue, WellTyped
<1>4. events' = events \o new /\ new \in Seq(Events)
  <2>1. events \in Seq(Events)
      BY DEF EndsAreTrue, WellTyped
  <2> DEFINE e == OrderEvent(o, end, market[o].traded)
  <2>2. e \in Events /\ events' = Append(events, e)
      BY <1>3
  <2> HIDE DEF e
  <2>3. events' = events \o <<e>> /\ <<e>> \in Seq(Events)
      BY <2>1, <2>2
  <2> QED
      BY <2>3 DEF e
<1>5. \A i \in 1..Len(new) : EndedAs(market', new[i].order, new[i].status)
    BY <1>1 DEF OrderEvent, EndedAs
<1> QED
    BY <1>1, <1>2, <1>4, <1>5, ExchangeKeepsEnds

\* What the tracker (track_order, the event handlers, cancel_order, the files) calls ended has
\* ended that way, in whatever order events, restarts and requests come.
THEOREM TrackerTellsTheEnd == TrackerSpec => []FinalIsTrue
<1>1. EndsAreTrue /\ [TrackerNext]_trackerVars => EndsAreTrue'
  <2> SUFFICES ASSUME EndsAreTrue, [TrackerNext]_trackerVars PROVE EndsAreTrue'
      OBVIOUS
  <2> USE DEF EndsAreTrue, WellTyped
  <2>1. Submitted \in Tracked /\ \A o \in Orders : EndedAs(market, o, Submitted.status)
      BY DEF Submitted, Tracked, Statuses, Open, EndedAs, Final
  <2>2. ASSUME NEW o \in Orders, TrackOrder(o) PROVE EndsAreTrue'
      BY <2>1, <2>2, ProcessKeepsEnds DEF TrackOrder
  <2>3. ASSUME NEW o \in Orders, PersistOrder(o) PROVE EndsAreTrue'
      BY <2>1, <2>3, ProcessKeepsEnds DEF PersistOrder
  <2>4. ASSUME NEW o \in Orders, NEW end \in {"cancelled", "rejected"}, End(o, end) PROVE EndsAreTrue'
      BY <2>4, EndKeepsEnds DEF End, Final
  <2>5. ASSUME NEW o \in Orders, CancelOrder(o) PROVE EndsAreTrue'
    <3>1. CASE market[o].status \in Open
      <4>1. "cancelled" \in Final
          BY DEF Final
      <4> QED
          BY <2>5, <3>1, <4>1, EndKeepsEnds DEF CancelOrder
    <3>2. CASE market[o].status \notin Open
        BY <2>5, <3>2, ProcessKeepsEnds DEF CancelOrder
    <3> QED
        BY <3>1, <3>2
  <2>6. CASE FlushToDisk
      BY <2>6, ProcessKeepsEnds DEF FlushToDisk
  <2>7. CASE Restart
    <3>1. known' \subseteq Orders /\ events' = <<>> /\ tracked' = disk /\ UNCHANGED <<market, disk>>
        BY <2>7 DEF Restart
    <3> QED
        BY <3>1, ProcessKeepsEnds
  <2>8. CASE RegisterEventHandlers \/ UNCHANGED trackerVars
      BY <2>8, ProcessKeepsEnds DEF RegisterEventHandlers, trackerVars
  <2> QED
      BY <2>2, <2>3, <2>4, <2>5, <2>6, <2>7, <2>8, SendKeepsEnds, AcknowledgeKeepsEnds, FillKeepsEnds,
         HandlingKeepsEnds DEF TrackerNext
<1>2. EndsAreTrue => FinalIsTrue
    BY DEF EndsAreTrue, EndedAs, FinalIsTrue
<1> QED
    BY <1>1, <1>2, InitEnds, PTL DEF TrackerSpec

-----------------------------------------------------------------------------
(* The engine's position and the orders it recorded. *)

\* A thread is between reading the position and saving it, and the position it read.
Reading(t) == step[t] = "read"
InOrder(t) == step[t] \in {"read", "written"}

\* While orders do not overlap: the position is the ledger's; a thread that has read it is
\* alone and its order makes the difference; and outside of orders Redis has the position.
NothingPending == (\A t \in Threads : ~Reading(t)) => position = ledger
OneReads ==
    \A t \in Threads : Reading(t) =>
        /\ seen[t] = position /\ ledger = Applied(Head(plan[t]), position)
        /\ ~Reading(Other(t))
SavedInRedis == inRedis /\ (\A t \in Threads : ~InOrder(t)) => kept = position

Explained ==
    /\ DOMAIN step = Threads /\ step = [t \in Threads |-> step[t]]
    /\ DOMAIN plan = Threads /\ plan = [t \in Threads |-> plan[t]]
    /\ DOMAIN seen = Threads /\ seen = [t \in Threads |-> seen[t]]
    /\ excused \/ (NothingPending /\ OneReads /\ SavedInRedis)

LEMMA TwoThreadsOnly == /\ Feed \in Threads /\ Api \in Threads /\ Feed # Api
                        /\ \A t \in Threads : Other(t) \in Threads /\ Other(t) # t
                        /\ \A t, u \in Threads : u # t => u = Other(t)
BY TwoThreads DEF Threads, Other

\* What leaves the position and its records alone, and every order that is being executed,
\* leaves them explained.
LEMMA BetweenOrders ==
    ASSUME Explained, UNCHANGED <<position, ledger, excused, kept, inRedis, seen>>,
           NEW t \in Threads, ~InOrder(t),
           NEW s, s \notin {"read", "written"}, step' = [step EXCEPT ![t] = s],
           NEW os, plan' = [plan EXCEPT ![t] = os]
    PROVE  Explained'
<1>1. /\ \A u \in Threads : InOrder(u)' = InOrder(u) /\ Reading(u)' = Reading(u)
      /\ \A u \in Threads : Reading(u) => plan'[u] = plan[u]
  BY DEF Explained, InOrder, Reading
<1>2. /\ DOMAIN step' = Threads /\ step' = [u \in Threads |-> step'[u]]
      /\ DOMAIN plan' = Threads /\ plan' = [u \in Threads |-> plan'[u]]
  BY DEF Explained
<1>3. NothingPending /\ OneReads /\ SavedInRedis => (NothingPending /\ OneReads /\ SavedInRedis)'
  <2> SUFFICES ASSUME NothingPending, OneReads, SavedInRedis
               PROVE  (NothingPending /\ OneReads /\ SavedInRedis)'
    OBVIOUS
  <2>1. NothingPending' /\ SavedInRedis'
    BY <1>1 DEF NothingPending, SavedInRedis
  <2>2. OneReads'
    BY <1>1, TwoThreadsOnly DEF OneReads
  <2>3. QED
    BY <2>1, <2>2
<1>4. QED
  BY <1>2, <1>3 DEF Explained

LEMMA ReadKeepsExplained == ASSUME Explained, NEW t \in Threads, ReadPosition(t) PROVE Explained'
<1>1. /\ step[t] = "next" /\ step' = [step EXCEPT ![t] = "read"]
      /\ seen' = [seen EXCEPT ![t] = position] /\ ledger' = Applied(Head(plan[t]), ledger)
      /\ excused' = (excused \/ step[Other(t)] = "read")
      /\ UNCHANGED <<position, kept, inRedis, plan>>
  BY DEF ReadPosition, shared
<1>2. /\ DOMAIN step' = Threads /\ step' = [u \in Threads |-> step'[u]]
      /\ DOMAIN plan' = Threads /\ plan' = [u \in Threads |-> plan'[u]]
      /\ DOMAIN seen' = Threads /\ seen' = [u \in Threads |-> seen'[u]]
  BY <1>1 DEF Explained
<1>3. CASE excused'
  BY <1>2, <1>3 DEF Explained
<1>4. CASE ~excused'
  <2>1. ~excused /\ step[Other(t)] # "read" /\ NothingPending
    BY <1>1, <1>4 DEF Explained
  <2>2. position = ledger
    BY <1>1, <2>1, TwoThreadsOnly DEF NothingPending, Reading
  <2>3. Reading(t)' /\ seen'[t] = position /\ step'[Other(t)] = step[Other(t)]
    BY <1>1, TwoThreadsOnly DEF Explained, Reading
  <2>4. OneReads'
    BY <1>1, <2>1, <2>2, <2>3, TwoThreadsOnly DEF OneReads, Reading
  <2>5. NothingPending' /\ SavedInRedis'
    BY <2>3 DEF NothingPending, SavedInRedis, InOrder, Reading
  <2>6. QED
    BY <1>2, <2>4, <2>5 DEF Explained
<1>5. QED
  BY <1>3, <1>4

LEMMA WriteKeepsExplained == ASSUME Explained, NEW t \in Threads, WritePosition(t) PROVE Explained'
<1>1. /\ step[t] = "read" /\ step' = [step EXCEPT ![t] = "written"]
      /\ position' = Applied(Head(plan[t]), seen[t])
      /\ UNCHANGED <<ledger, excused, kept, inRedis, plan, seen>>
  BY DEF WritePosition, shared, history
<1>2. DOMAIN step' = Threads /\ step' = [u \in Threads |-> step'[u]] /\ step'[t] = "written"
  BY <1>1 DEF Explained
<1>3. CASE excused
  BY <1>1, <1>2, <1>3 DEF Explained
<1>4. CASE ~excused
  <2>1. OneReads
    BY <1>4 DEF Explained
  <2>2. seen[t] = position /\ ledger = Applied(Head(plan[t]), position) /\ step[Other(t)] # "read"
    BY <1>1, <2>1 DEF OneReads, Reading
  <2>3. position' = ledger'
    BY <1>1, <2>2
  <2>4. \A u \in Threads : ~Reading(u)'
    BY <1>1, <1>2, <2>2, TwoThreadsOnly DEF Explained, Reading
  <2>5. NothingPending' /\ OneReads' /\ SavedInRedis'
    BY <1>2, <2>3, <2>4 DEF NothingPending, OneReads, SavedInRedis, InOrder
  <2>6. QED
    BY <1>1, <1>2, <2>5 DEF Explained
<1>5. QED
  BY <1>3, <1>4

LEMMA SaveKeepsExplained == ASSUME Explained, NEW t \in Threads, SavePosition(t) PROVE Explained'
<1> DEFINE next == IF Len(plan[t]) > 1 THEN "next" ELSE "idle"
<1>1. /\ step[t] = "written" /\ kept' = position
      /\ plan' = [plan EXCEPT ![t] = Tail(@)] /\ step' = [step EXCEPT ![t] = next]
      /\ UNCHANGED <<position, ledger, excused, seen>>
  BY DEF SavePosition, history
<1>2. next # "read"
  OBVIOUS
<1> HIDE DEF next
<1>3. /\ DOMAIN step' = Threads /\ step' = [u \in Threads |-> step'[u]]
      /\ DOMAIN plan' = Threads /\ plan' = [u \in Threads |-> plan'[u]]
      /\ \A u \in Threads : Reading(u)' = Reading(u)
      /\ \A u \in Threads : Reading(u) => plan'[u] = plan[u]
  BY <1>1, <1>2 DEF Explained, Reading
<1>4. SavedInRedis'
  BY <1>1 DEF SavedInRedis
<1>5. NothingPending => NothingPending'
  BY <1>1, <1>3 DEF NothingPending
<1>6. OneReads => OneReads'
  BY <1>1, <1>3, TwoThreadsOnly DEF OneReads
<1>7. QED
  BY <1>1, <1>3, <1>4, <1>5, <1>6 DEF Explained

\* A start loads the position that Redis has, or finds none where none is missed.
LEMMA StartKeepsExplained ==
    ASSUME Explained, NEW answers \in BOOLEAN, Start(answers)
    PROVE  Explained'
<1>1. /\ step[Api] = "idle" /\ position' = (IF answers /\ inRedis THEN kept ELSE 0)
      /\ excused' = (excused \/ (position # 0 /\ ~(answers /\ inRedis))
                           \/ step[Feed] \in {"read", "written"})
      /\ UNCHANGED <<kept, inRedis, step, plan, seen, ledger>>
  BY DEF Start, ApiFree, LoadedPosition, shared
<1>2. CASE excused'
  BY <1>1, <1>2 DEF Explained
<1>3. CASE ~excused'
  <2>1. /\ ~excused /\ (position = 0 \/ (answers /\ inRedis))
        /\ step[Feed] \notin {"read", "written"}
    BY <1>1, <1>3
  <2>2. \A t \in Threads : ~InOrder(t) /\ ~Reading(t)
    BY <1>1, <2>1 DEF Threads, InOrder, Reading
  <2>3. position = ledger /\ (inRedis => kept = position)
    BY <2>1, <2>2 DEF Explained, NothingPending, SavedInRedis
  <2>4. position' = position
    BY <1>1, <2>1, <2>3
  <2>5. (NothingPending /\ SavedInRedis)'
    BY <1>1, <2>3, <2>4 DEF NothingPending, SavedInRedis
  <2>6. OneReads'
    BY <1>1, <2>2 DEF OneReads, Reading
  <2>7. QED
    BY <1>1, <2>5, <2>6 DEF Explained
<1>4. QED
  BY <1>2, <1>3

\* Nothing but the switches.
LEMMA SwitchesKeepExplained ==
    ASSUME Explained, UNCHANGED <<position, ledger, excused, kept, inRedis, seen, step, plan>>
    PROVE  Explained'
BY DEF Explained, NothingPending, OneReads, SavedInRedis, Reading, InOrder

LEMMA EngineKeepsExplained == Explained /\ [Next]_vnpyVars => Explained'
<1> SUFFICES ASSUME Explained, [Next]_vnpyVars PROVE Explained'
  OBVIOUS
<1>1. ASSUME NEW answers \in BOOLEAN, Start(answers) PROVE Explained'
  BY <1>1, StartKeepsExplained
<1>2. CASE Stop
  <2>1. /\ kept' = position
        /\ UNCHANGED <<position, ledger, excused, seen, step, plan>>
    BY <1>2 DEF Stop, history
  <2>2. QED
    BY <2>1 DEF Explained, NothingPending, OneReads, SavedInRedis, Reading, InOrder
<1>3. CASE EmergencyStop
  <2> DEFINE s == IF position = 0 THEN "idle" ELSE "next"
  <2>1. /\ Api \in Threads /\ ~InOrder(Api) /\ s \notin {"read", "written"}
        /\ step' = [step EXCEPT ![Api] = s] /\ plan' = [plan EXCEPT ![Api] = Closing(position)]
        /\ UNCHANGED <<position, ledger, excused, kept, inRedis, seen>>
    BY <1>3, TwoThreadsOnly DEF EmergencyStop, ApiFree, InOrder, shared, history
  <2> HIDE DEF s
  <2>2. QED
    BY <2>1, BetweenOrders
<1>4. ASSUME NEW to \in {"running", "stopped"}, SwitchStrategy(to) PROVE Explained'
  BY <1>4, SwitchesKeepExplained DEF SwitchStrategy, shared, history
<1>5. CASE EmergencyDone
  BY <1>5, SwitchesKeepExplained DEF EmergencyDone, shared
<1>6. ASSUME NEW t \in Threads, NEW os, Plan(t, os), ~InOrder(t),
             UNCHANGED <<position, ledger, excused, kept, inRedis, seen>>
      PROVE  Explained'
  <2> DEFINE s == IF os = <<>> THEN "idle" ELSE "next"
  <2>1. /\ s \notin {"read", "written"} /\ step' = [step EXCEPT ![t] = s]
        /\ plan' = [plan EXCEPT ![t] = os]
    BY <1>6 DEF Plan
  <2> HIDE DEF s
  <2>2. QED
    BY <1>6, <2>1, BetweenOrders
<1>7. CASE Tick
  <2>1. /\ Feed \in Threads /\ ~InOrder(Feed) /\ "deciding" \notin {"read", "written"}
        /\ step' = [step EXCEPT ![Feed] = "deciding"] /\ plan' = plan
        /\ UNCHANGED <<position, ledger, excused, kept, inRedis, seen>>
    BY <1>7, TwoThreadsOnly DEF Tick, InOrder, shared, history
  <2>2. plan' = [plan EXCEPT ![Feed] = plan[Feed]]
    BY <2>1 DEF Explained
  <2>3. QED
    BY <2>1, <2>2, BetweenOrders
<1>8. CASE Decide
  BY <1>6, <1>8, TwoThreadsOnly DEF Decide, InOrder, shared, history
<1>9. ASSUME NEW action \in {"buy", "sell", "close"}, PlaceOrder(action) PROVE Explained'
  BY <1>6, <1>9, TwoThreadsOnly DEF PlaceOrder, ApiFree, InOrder, shared
<1>10. ASSUME NEW target \in {-1, 0, 1}, SetPositionTarget(target) PROVE Explained'
  BY <1>6, <1>10, TwoThreadsOnly DEF SetPositionTarget, ApiFree, InOrder, shared
<1>11. CASE UNCHANGED vnpyVars
  BY <1>11, SwitchesKeepExplained DEF vnpyVars
<1>12. QED
  BY <1>1, <1>2, <1>3, <1>4, <1>5, <1>7, <1>8, <1>9, <1>10, <1>11, ReadKeepsExplained,
     WriteKeepsExplained, SaveKeepsExplained DEF Next, Command

\* main_engine.py: unless orders of the feed and of the API overlapped, or a start found no
\* position to load, the position is what the recorded orders add up to.
THEOREM PositionExplained == VnpySpec => []LedgerExplained
<1>1. VnpyInit => Explained
  <2> SUFFICES ASSUME Init PROVE Explained
    BY DEF VnpyInit
  <2>1. /\ DOMAIN step = Threads /\ DOMAIN plan = Threads /\ DOMAIN seen = Threads
        /\ \A t \in Threads : step[t] = "idle"
    BY DEF Init
  <2>2. NothingPending /\ OneReads /\ SavedInRedis
    BY <2>1 DEF Init, NothingPending, OneReads, SavedInRedis, Reading
  <2>3. QED
    BY <2>1, <2>2 DEF Explained, Init
<1>2. [VnpyNext]_mcVars => [Next]_vnpyVars
  BY DEF VnpyNext, mcVars, LiveTurn, DogTurn, SharedTurn, TrackerTurn, GatewayTurn, RlTurn
<1>3. Explained => LedgerExplained
  BY DEF Explained, LedgerExplained, NothingPending, Reading
<1>4. QED
  BY <1>1, <1>2, <1>3, EngineKeepsExplained, PTL DEF VnpySpec

-----------------------------------------------------------------------------
(* The gateway's rate limiter. *)

\* The requests of a client that were let in within the window that begins at start.
LetIn(c, start) == {i \in DOMAIN let[c] : let[c][i] \in start..(start + Window - 1)}

\* The limiter forgets no request of the last window.
LimiterInv ==
    /\ now \in Nat /\ let \in [Clients -> Seq(Nat)]
    /\ DOMAIN requests = Clients /\ requests = [c \in Clients |-> requests[c]]
    /\ \A c \in Clients : requests[c] \subseteq DOMAIN let[c]
    /\ \A c \in Clients : \A i \in DOMAIN let[c] :
          let[c][i] <= now /\ (let[c][i] > now - Window => i \in requests[c])
    /\ \A c \in Clients, start \in 0..MaxTime : Cardinality(LetIn(c, start)) <= MaxRequests

LEMMA LimiterNumbers == MaxRequests \in Nat /\ Window \in Nat /\ MaxTime \in Nat
BY VnpyAssumption DEF Gateway!GatewayAssumption

\* What the instance counts with is what the theorems about finite sets are about.
LEMMA SameCount == ASSUME NEW S PROVE Gateway!Cardinality(S) = Cardinality(S)
BY DEF Gateway!Cardinality, Cardinality, Gateway!IsFiniteSet, IsFiniteSet

LEMMA PartOfSequence ==
    ASSUME NEW s \in Seq(Nat), NEW S \in SUBSET (DOMAIN s)
    PROVE  IsFiniteSet(S)
<1>1. IsFiniteSet(1..Len(s))
  BY FS_Interval
<1>2. QED
  BY <1>1, FS_Subset

\* is_allowed.
LEMMA RequestKeepsLimit == ASSUME LimiterInv, NEW c \in Clients, Gateway!Request(c) PROVE LimiterInv'
<1> DEFINE recent == Gateway!Recent(c)
<1>1. /\ now' = now /\ let[c] \in Seq(Nat)
      /\ recent = {i \in DOMAIN let[c] : let[c][i] > now - Window}
      /\ Gateway!Cardinality(recent) = Cardinality(recent)
  BY SameCount DEF LimiterInv, Gateway!Request, Gateway!Recent
<1>2. CASE Cardinality(recent) >= MaxRequests
  <2>1. requests' = [requests EXCEPT ![c] = recent] /\ let' = let
    BY <1>1, <1>2 DEF Gateway!Request
  <2> HIDE DEF recent
  <2>2. requests'[c] = recent /\ \A d \in Clients : d # c => requests'[d] = requests[d]
    BY <2>1 DEF LimiterInv
  <2>3. \A d \in Clients : requests'[d] \subseteq DOMAIN let[d]
    BY <1>1, <2>2 DEF LimiterInv
  <2>4. \A d \in Clients : \A i \in DOMAIN let[d] : let[d][i] > now - Window => i \in requests'[d]
    BY <1>1, <2>2 DEF LimiterInv
  <2>5. DOMAIN requests' = Clients /\ requests' = [d \in Clients |-> requests'[d]]
    BY <2>1 DEF LimiterInv
  <2>6. \A d \in Clients, start \in 0..MaxTime : LetIn(d, start)' = LetIn(d, start)
    BY <2>1 DEF LetIn
  <2>7. QED
    BY <1>1, <2>1, <2>3, <2>4, <2>5, <2>6 DEF LimiterInv
<1>3. CASE ~(Cardinality(recent) >= MaxRequests)
  <2> DEFINE new == Len(let[c]) + 1
  <2>1. /\ let' = [let EXCEPT ![c] = Append(@, now)]
        /\ requests' = [requests EXCEPT ![c] = recent \cup {new}]
    BY <1>1, <1>3 DEF Gateway!Request
  <2> HIDE DEF recent
  <2>2. /\ let'[c] = Append(let[c], now) /\ requests'[c] = recent \cup {new}
        /\ \A d \in Clients : d # c => requests'[d] = requests[d] /\ let'[d] = let[d]
    BY <2>1 DEF LimiterInv
  <2>3. /\ DOMAIN let'[c] = DOMAIN let[c] \cup {new} /\ let'[c][new] = now /\ new \notin DOMAIN let[c]
        /\ \A i \in DOMAIN let[c] : let'[c][i] = let[c][i]
    BY <1>1, <2>2 DEF LimiterInv
  <2>4. let' \in [Clients -> Seq(Nat)]
    BY <1>1, <2>1 DEF LimiterInv
  <2>5. DOMAIN requests' = Clients /\ requests' = [d \in Clients |-> requests'[d]]
    BY <2>1 DEF LimiterInv
  <2>6. \A d \in Clients : requests'[d] \subseteq DOMAIN let'[d]
    BY <1>1, <2>2, <2>3 DEF LimiterInv
  <2>7. \A d \in Clients : \A i \in DOMAIN let'[d] :
            let'[d][i] <= now' /\ (let'[d][i] > now' - Window => i \in requests'[d])
    <3>1. ASSUME NEW d \in Clients, NEW i \in DOMAIN let[d]
          PROVE  let[d][i] <= now /\ (let[d][i] > now - Window => i \in requests[d])
      BY <3>1 DEF LimiterInv
    <3>2. now \in Nat /\ now <= now
      BY DEF LimiterInv
    <3>3. ASSUME NEW i \in DOMAIN let'[c]
          PROVE  let'[c][i] <= now' /\ (let'[c][i] > now' - Window => i \in requests'[c])
      <4>1. CASE i = new
        BY <1>1, <2>2, <2>3, <3>2, <4>1
      <4>2. CASE i \in DOMAIN let[c]
        BY <1>1, <2>2, <2>3, <3>1, <4>2
      <4>3. QED
        BY <2>3, <4>1, <4>2
    <3>4. QED
      BY <1>1, <2>2, <3>1, <3>3
  <2>8. ASSUME NEW d \in Clients, NEW start \in 0..MaxTime PROVE Cardinality(LetIn(d, start)') <= MaxRequests
    <3>1. CASE d # c \/ now \notin start..(start + Window - 1)
      <4>1. LetIn(d, start)' = LetIn(d, start)
        BY <2>2, <2>3, <3>1 DEF LetIn
      <4>2. QED
        BY <4>1 DEF LimiterInv
    <3>2. CASE d = c /\ now \in start..(start + Window - 1)
      <4>1. LetIn(c, start)' \subseteq recent \cup {new}
        BY <1>1, <2>3, <3>2, LimiterNumbers DEF LetIn, LimiterInv
      <4>2. IsFiniteSet(recent) /\ new \notin recent
        BY <1>1, <2>3, PartOfSequence
      <4>3. /\ Cardinality(recent \cup {new}) = Cardinality(recent) + 1
            /\ IsFiniteSet(recent \cup {new}) /\ Cardinality(recent) \in Nat
        BY <4>2, FS_AddElement, FS_CardinalityType
      <4>4. Cardinality(LetIn(c, start)') <= Cardinality(recent) + 1 /\ Cardinality(LetIn(c, start)') \in Nat
        BY <4>1, <4>3, FS_Subset, FS_CardinalityType
      <4>5. QED
        BY <1>3, <3>2, <4>3, <4>4, LimiterNumbers
    <3>3. QED
      BY <3>1, <3>2
  <2>9. QED
    BY <1>1, <2>4, <2>5, <2>6, <2>7, <2>8 DEF LimiterInv
<1>4. QED
  BY <1>2, <1>3

\* Time moves on: fewer requests are recent.
LEMMA PassKeepsLimit == ASSUME LimiterInv, Gateway!Pass PROVE LimiterInv'
<1>1. now' = now + 1 /\ UNCHANGED <<requests, let>>
  BY DEF Gateway!Pass
<1>2. \A c \in Clients, start \in 0..MaxTime : LetIn(c, start)' = LetIn(c, start)
  BY <1>1 DEF LetIn
<1>3. \A c \in Clients : \A i \in DOMAIN let[c] :
          let[c][i] <= now' /\ (let[c][i] > now' - Window => i \in requests[c])
  <2> SUFFICES ASSUME NEW c \in Clients, NEW i \in DOMAIN let[c]
               PROVE  let[c][i] <= now' /\ (let[c][i] > now' - Window => i \in requests[c])
    OBVIOUS
  <2>1. let[c][i] \in Nat /\ now \in Nat /\ let[c][i] <= now
        /\ (let[c][i] > now - Window => i \in requests[c])
    BY DEF LimiterInv
  <2>2. QED
    BY <1>1, <2>1, LimiterNumbers
<1>4. QED
  BY <1>1, <1>2, <1>3 DEF LimiterInv

LEMMA OthersKeepLimit == ASSUME LimiterInv, UNCHANGED <<now, requests, let>> PROVE LimiterInv'
BY DEF LimiterInv, LetIn

LEMMA InitLimiter == ASSUME Gateway!Init PROVE LimiterInv
<1>1. now = 0 /\ let = [c \in Clients |-> <<>>] /\ requests = [c \in Clients |-> {}]
  BY DEF Gateway!Init
<1>2. \A c \in Clients : let[c] = <<>> /\ DOMAIN let[c] = {} /\ requests[c] = {}
  BY <1>1
<1>3. \A c \in Clients, start \in 0..MaxTime : Cardinality(LetIn(c, start)) = 0
  BY <1>2, FS_EmptySet DEF LetIn
<1>4. QED
  BY <1>1, <1>2, <1>3, LimiterNumbers DEF LimiterInv

\* api_gateway_enhanced.py: a client is let in at most MaxRequests times within any window.
THEOREM AnyWindowKept == VnpySpec => []WindowKept
<1>1. VnpyInit => LimiterInv
  BY InitLimiter DEF VnpyInit
<1>2. LimiterInv /\ [VnpyNext]_mcVars => LimiterInv'
  <2> SUFFICES ASSUME LimiterInv, [VnpyNext]_mcVars PROVE LimiterInv'
    OBVIOUS
  <2>1. CASE GatewayTurn /\ Gateway!Next
    BY <2>1, RequestKeepsLimit, PassKeepsLimit, OthersKeepLimit
       DEF Gateway!Next, Gateway!Connect, Gateway!Disconnect, Gateway!StreamFails, Gateway!limiter
  <2>2. CASE UNCHANGED gatewayAll
    BY <2>2, OthersKeepLimit DEF gatewayAll
  <2>3. QED
    BY <2>1, <2>2
       DEF VnpyNext, mcVars, EngineTurn, LiveTurn, DogTurn, SharedTurn, TrackerTurn, RlTurn
<1>3. LimiterInv => WindowKept
  BY SameCount DEF LimiterInv, WindowKept, Gateway!WindowKept, LetIn
<1>4. QED
  BY <1>1, <1>2, <1>3, PTL DEF VnpySpec

-----------------------------------------------------------------------------
(* The RL agents and their checkpoint. *)

\* One agent at most lives, with all the training ever saved, and a checkpoint that can be read
\* holds that.
OneFile ==
    /\ \A p, q \in Agents : agent[p] # "off" /\ agent[q] # "off" => p = q
    /\ \A p \in Agents : agent[p] # "off" => policy[p] >= savedSteps
    /\ checkpoint >= 0 => checkpoint = savedSteps
    /\ checkpoint = Rl!Missing => savedSteps = 0

RlInv ==
    /\ DOMAIN agent = Agents /\ agent = [p \in Agents |-> agent[p]]
    /\ policy \in [Agents -> Nat] /\ savedSteps \in Nat /\ checkpoint \in Nat \cup {Rl!Torn, Rl!Missing}
    /\ misread \/ together \/ OneFile

\* What a load can give: the checkpoint, or a fresh policy.
LEMMA StartKeepsTraining == ASSUME RlInv, NEW p \in Agents, Rl!Start(p) PROVE RlInv'
<1>1. PICK fails \in BOOLEAN :
          /\ checkpoint = Rl!Torn => fails
          /\ policy' = [policy EXCEPT ![p] = IF fails \/ checkpoint = Rl!Missing THEN 0 ELSE checkpoint]
          /\ misread' = (misread \/ fails)
  BY DEF Rl!Start
<1>2. /\ agent[p] = "off" /\ agent' = [agent EXCEPT ![p] = "on"]
      /\ together' = (together \/ \E q \in Agents : agent[q] # "off")
      /\ checkpoint' = checkpoint /\ savedSteps' = savedSteps
  BY DEF Rl!Start, Rl!files
<1>3. /\ DOMAIN agent' = Agents /\ agent' = [q \in Agents |-> agent'[q]]
      /\ agent'[p] = "on" /\ \A q \in Agents : q # p => agent'[q] = agent[q] /\ policy'[q] = policy[q]
  BY <1>1, <1>2 DEF RlInv
<1>4. policy' \in [Agents -> Nat] /\ savedSteps' \in Nat /\ checkpoint' \in Nat \cup {Rl!Torn, Rl!Missing}
  BY <1>1, <1>2 DEF RlInv, Rl!Torn, Rl!Missing
<1>5. ASSUME ~misread', ~together' PROVE OneFile'
  <2>1. ~fails /\ checkpoint # Rl!Torn /\ OneFile /\ \A q \in Agents : agent[q] = "off"
    BY <1>1, <1>2, <1>5 DEF RlInv
  <2>2. \A q \in Agents : agent'[q] # "off" => q = p
    BY <1>3, <2>1
  <2>3. policy'[p] = savedSteps
    BY <1>1, <2>1 DEF RlInv, OneFile, Rl!Torn, Rl!Missing
  <2>4. QED
    BY <1>2, <2>1, <2>2, <2>3 DEF RlInv, OneFile
<1>6. QED
  BY <1>3, <1>4, <1>5 DEF RlInv

\* A step in which one agent goes on, or ends, with no less training than before.
LEMMA AgentKeepsTraining ==
    ASSUME RlInv, NEW p \in Agents, agent[p] # "off", NEW at, NEW trained \in Nat, trained >= policy[p],
           agent' = [agent EXCEPT ![p] = at], policy' = [policy EXCEPT ![p] = trained],
           checkpoint' \in {checkpoint, Rl!Torn}, UNCHANGED <<savedSteps, misread, together>>
    PROVE  RlInv'
<1>1. /\ DOMAIN agent' = Agents /\ agent' = [q \in Agents |-> agent'[q]]
      /\ \A q \in Agents : q # p => agent'[q] = agent[q] /\ policy'[q] = policy[q]
      /\ policy' \in [Agents -> Nat] /\ policy'[p] = trained
      /\ checkpoint' \in Nat \cup {Rl!Torn, Rl!Missing}
  BY DEF RlInv
<1>2. ASSUME OneFile PROVE OneFile'
  <2>1. \A q \in Agents : agent'[q] # "off" => q = p
    BY <1>1, <1>2 DEF OneFile
  <2>2. trained >= savedSteps
    BY <1>2 DEF RlInv, OneFile
  <2>3. /\ checkpoint' >= 0 => checkpoint' = savedSteps
        /\ checkpoint' = Rl!Missing => savedSteps = 0
    BY <1>2 DEF OneFile, Rl!Torn, Rl!Missing
  <2>4. QED
    BY <1>1, <2>1, <2>2, <2>3 DEF OneFile
<1>3. QED
  BY <1>1, <1>2 DEF RlInv

\* The file is whole: it has the training of the only agent.
LEMMA SavedKeepsTraining == ASSUME RlInv, NEW p \in Agents, Rl!Saved(p) PROVE RlInv'
<1>1. /\ agent[p] = "saving" /\ agent' = [agent EXCEPT ![p] = "metadata"]
      /\ checkpoint' = policy[p] /\ UNCHANGED <<policy, misread, together>>
  BY DEF Rl!Saved, Rl!lives
<1>2. savedSteps' \in Nat /\ (policy[p] >= savedSteps => savedSteps' = policy[p])
  <2> DEFINE both == {savedSteps, policy[p]}
             top == CHOOSE x \in both : \A y \in both : x >= y
  <2>1. savedSteps \in Nat /\ policy[p] \in Nat
    BY DEF RlInv
  <2>2. \E x \in both : \A y \in both : x >= y
    <3>1. CASE policy[p] >= savedSteps
      BY <2>1, <3>1
    <3>2. CASE ~(policy[p] >= savedSteps)
      BY <2>1, <3>2
    <3>3. QED
      BY <3>1, <3>2
  <2>3. top \in both /\ \A y \in both : top >= y
    BY <2>2
  <2>4. savedSteps' = top
    BY DEF Rl!Saved, Rl!Max
  <2> HIDE DEF top
  <2>5. QED
    BY <2>1, <2>3, <2>4
<1>3. /\ DOMAIN agent' = Agents /\ agent' = [q \in Agents |-> agent'[q]]
      /\ \A q \in Agents : q # p => agent'[q] = agent[q]
      /\ checkpoint' \in Nat \cup {Rl!Torn, Rl!Missing}
  BY <1>1 DEF RlInv
<1>4. ASSUME OneFile PROVE OneFile'
  <2>1. savedSteps' = policy[p] /\ policy[p] \in Nat
    BY <1>1, <1>2, <1>4 DEF OneFile, RlInv
  <2>2. \A q \in Agents : agent'[q] # "off" => q = p
    BY <1>1, <1>3, <1>4 DEF OneFile
  <2>3. QED
    BY <1>1, <2>1, <2>2 DEF OneFile, Rl!Missing
<1>5. QED
  BY <1>1, <1>2, <1>3, <1>4 DEF RlInv

LEMMA AgentsKeepTraining == ASSUME RlInv, Rl!Next PROVE RlInv'
<1>1. PICK p \in Agents :
          \/ Rl!Start(p) \/ Rl!Train(p) \/ Rl!TrainingStep(p) \/ Rl!Trained(p) \/ Rl!Stop(p)
          \/ Rl!Saved(p) \/ Rl!SaveMetadata(p) \/ Rl!Kill(p)
  BY DEF Rl!Next
<1>2. policy[p] \in Nat /\ policy = [policy EXCEPT ![p] = policy[p]] /\ agent = [agent EXCEPT ![p] = agent[p]]
  BY DEF RlInv
<1>3. ASSUME NEW at, agent[p] # "off", agent' = [agent EXCEPT ![p] = at], policy' = policy,
             checkpoint' \in {checkpoint, Rl!Torn}, UNCHANGED <<savedSteps, misread, together>>
      PROVE  RlInv'
  <2>1. policy' = [policy EXCEPT ![p] = policy[p]] /\ policy[p] >= policy[p]
    BY <1>2, <1>3
  <2>2. QED
    BY <1>2, <1>3, <2>1, AgentKeepsTraining
<1>4. CASE Rl!Train(p) \/ Rl!Kill(p)
  <2>1. PICK at \in {"training", "off"} : agent' = [agent EXCEPT ![p] = at]
    BY <1>4 DEF Rl!Train, Rl!Kill
  <2>2. QED
    BY <1>3, <1>4, <2>1 DEF Rl!Train, Rl!Kill, Rl!files, Rl!lives
<1>5. CASE Rl!Trained(p) \/ Rl!Stop(p)
  <2>1. agent' = [agent EXCEPT ![p] = "saving"] /\ checkpoint' = Rl!Torn /\ savedSteps' = savedSteps
    BY <1>5 DEF Rl!Trained, Rl!Stop, Rl!Save
  <2>2. QED
    BY <1>3, <1>5, <2>1 DEF Rl!Trained, Rl!Stop, Rl!lives
<1>6. CASE Rl!SaveMetadata(p)
  BY <1>3, <1>6 DEF Rl!SaveMetadata, Rl!lives
<1>7. CASE Rl!TrainingStep(p)
  <2>1. /\ agent[p] = "training" /\ policy' = [policy EXCEPT ![p] = policy[p] + 1]
        /\ UNCHANGED <<misread, together>>
    BY <1>7 DEF Rl!TrainingStep, Rl!lives
  <2>2. /\ checkpoint' \in {checkpoint, Rl!Torn} /\ savedSteps' = savedSteps
        /\ \E at : agent' = [agent EXCEPT ![p] = at]
    BY <1>2, <1>7 DEF Rl!TrainingStep, Rl!Save, Rl!files
  <2>3. policy[p] + 1 \in Nat /\ policy[p] + 1 >= policy[p]
    BY <1>2
  <2>4. QED
    BY <2>1, <2>2, <2>3, AgentKeepsTraining
<1>8. QED
  BY <1>1, <1>4, <1>5, <1>6, <1>7, StartKeepsTraining, SavedKeepsTraining

\* rl_module.py: training that was saved whole stays in the checkpoint, through every stop, kill
\* and start, unless a load failed or two agents lived at once.
THEOREM TrainingSurvives == VnpySpec => []Rl!TrainingKept
<1>1. VnpyInit => RlInv
  <2> SUFFICES ASSUME Rl!Init PROVE RlInv
    BY DEF VnpyInit
  <2>1. QED
    BY DEF Rl!Init, RlInv, OneFile, Rl!Missing
<1>2. RlInv /\ [VnpyNext]_mcVars => RlInv'
  <2> SUFFICES ASSUME RlInv, [VnpyNext]_mcVars PROVE RlInv'
    OBVIOUS
  <2>1. CASE RlTurn /\ Rl!Next
    BY <2>1, AgentsKeepTraining
  <2>2. CASE UNCHANGED rlAll
    BY <2>2 DEF rlAll, RlInv, OneFile
  <2>3. QED
    BY <2>1, <2>2
       DEF VnpyNext, mcVars, EngineTurn, LiveTurn, DogTurn, SharedTurn, TrackerTurn, GatewayTurn
<1>3. RlInv => Rl!TrainingKept
  BY DEF RlInv, OneFile, Rl!TrainingKept
<1>4. QED
  BY <1>1, <1>2, <1>3, PTL DEF VnpySpec

-----------------------------------------------------------------------------
(* The types of the parts. *)

\* The engine.
LEMMA OrdersToDo ==
    ASSUME NEW os \in Seq(PaperOrder), os # <<>>
    PROVE  Head(os) \in PaperOrder /\ Tail(os) \in Seq(PaperOrder) /\ (Len(os) > 1 <=> Tail(os) # <<>>)
OBVIOUS

LEMMA AppliedType == \A o \in PaperOrder, s \in Int : Applied(o, s) \in Int
BY DEF PaperOrder, Applied

LEMMA PlansAreOrders ==
    /\ Decisions \subseteq Seq(PaperOrder)
    /\ \A action \in {"buy", "sell", "close"} : Order(action, 1) \in PaperOrder
    /\ \A s \in Int : Closing(s) \in Seq(PaperOrder) /\ (Closing(s) = <<>> <=> s = 0)
<1>1. \A action \in {"buy", "sell", "close"} : Order(action, 1) \in PaperOrder
  BY DEF Order, PaperOrder
<1>2. ASSUME NEW os \in Decisions PROVE os \in Seq(PaperOrder)
  <2>1. CASE os = <<>>
    BY <2>1
  <2>2. CASE \E action \in {"buy", "sell", "close"} : os = <<Order(action, 1)>>
    <3>1. PICK o \in PaperOrder : os = <<o>>
      BY <1>1, <2>2
    <3>2. QED
      BY <3>1
  <2>3. QED
    BY <2>1, <2>2 DEF Decisions
<1>3. ASSUME NEW s \in Int PROVE Closing(s) \in Seq(PaperOrder) /\ (Closing(s) = <<>> <=> s = 0)
  <2>1. CASE s = 0
    BY <2>1 DEF Closing
  <2>2. CASE s > 0
    <3>1. Order("sell", s) \in PaperOrder /\ Closing(s) = <<Order("sell", s)>>
      BY <2>2 DEF Order, PaperOrder, Closing
    <3>2. QED
      BY <2>2, <3>1
  <2>3. CASE s < 0
    <3>1. Order("buy", -s) \in PaperOrder /\ Closing(s) = <<Order("buy", -s)>>
      BY <2>3 DEF Order, PaperOrder, Closing
    <3>2. QED
      BY <2>3, <3>1
  <2>4. QED
    BY <2>1, <2>2, <2>3
<1>4. QED
  BY <1>1, <1>2, <1>3

\* A thread that is given a plan.
LEMMA PlanKeepsType ==
    ASSUME TypeOK, NEW t \in Threads, NEW os \in Seq(PaperOrder), Plan(t, os),
           UNCHANGED <<switches, shared, position, seen, halting, ledger>>, excused' \in BOOLEAN
    PROVE  TypeOK'
<1>1. Len(os) \in Nat /\ orders' = orders + Len(os) /\ orders' <= MaxOrders
  BY DEF Plan
<1>2. orders' \in 0..MaxOrders
  BY <1>1, EngineBounds DEF TypeOK
<1>3. plan' = [plan EXCEPT ![t] = os] /\ step' = [step EXCEPT ![t] = IF os = <<>> THEN "idle" ELSE "next"]
  BY DEF Plan
<1>4. \A u \in Threads : step'[u] \in {"next", "read", "written"} <=> plan'[u] # <<>>
  BY <1>3 DEF TypeOK
<1>5. QED
  BY <1>2, <1>3, <1>4 DEF TypeOK, switches, shared

\* A thread that goes on with its order, or ends it.
LEMMA OrderKeepsType ==
    ASSUME TypeOK, NEW t \in Threads, ReadPosition(t) \/ WritePosition(t) \/ SavePosition(t)
    PROVE  TypeOK'
<1> DEFINE next == IF Len(plan[t]) > 1 THEN "next" ELSE "idle"
<1>1. /\ plan[t] \in Seq(PaperOrder) /\ plan[t] # <<>>
      /\ step[t] \in {"next", "read", "written"} /\ seen[t] \in Int
  BY DEF TypeOK, ReadPosition, WritePosition, SavePosition
<1>2. CASE ReadPosition(t)
  <2>1. Applied(Head(plan[t]), ledger) \in Int
    BY <1>1, OrdersToDo, AppliedType DEF TypeOK
  <2>2. QED
    BY <1>1, <1>2, <2>1 DEF ReadPosition, TypeOK, switches, shared
<1>3. CASE WritePosition(t)
  <2>1. Applied(Head(plan[t]), seen[t]) \in Int
    BY <1>1, OrdersToDo, AppliedType
  <2>2. QED
    BY <1>1, <1>3, <2>1 DEF WritePosition, TypeOK, switches, shared, history
<1>4. CASE SavePosition(t)
  <2>1. /\ plan' = [plan EXCEPT ![t] = Tail(plan[t])] /\ step' = [step EXCEPT ![t] = next]
        /\ Tail(plan[t]) \in Seq(PaperOrder) /\ (Tail(plan[t]) # <<>> <=> Len(plan[t]) > 1)
    BY <1>1, <1>4, OrdersToDo DEF SavePosition
  <2>2. \A u \in Threads : step'[u] \in {"next", "read", "written"} <=> plan'[u] # <<>>
    BY <2>1 DEF TypeOK
  <2>3. QED
    BY <1>4, <2>1, <2>2 DEF SavePosition, TypeOK, switches, history
<1>5. QED
  BY <1>2, <1>3, <1>4

LEMMA EngineKeepsType == TypeOK /\ [Next]_vnpyVars => TypeOK'
<1> SUFFICES ASSUME TypeOK, [Next]_vnpyVars PROVE TypeOK'
  OBVIOUS
<1> USE TwoThreadsOnly
<1>1. ASSUME NEW answers \in BOOLEAN, Start(answers) PROVE TypeOK'
  BY <1>1, EngineBounds DEF Start, ApiFree, LoadedPosition, TypeOK, shared
<1>2. CASE Stop
  BY <1>2 DEF Stop, TypeOK, history
<1>3. CASE EmergencyStop
  <2>1. /\ plan' = [plan EXCEPT ![Api] = Closing(position)]
        /\ step' = [step EXCEPT ![Api] = IF position = 0 THEN "idle" ELSE "next"]
        /\ Closing(position) \in Seq(PaperOrder) /\ (Closing(position) = <<>> <=> position = 0)
    BY <1>3, PlansAreOrders DEF EmergencyStop, TypeOK
  <2>2. \A u \in Threads : step'[u] \in {"next", "read", "written"} <=> plan'[u] # <<>>
    BY <2>1 DEF TypeOK
  <2>3. /\ plan' \in [Threads -> Seq(PaperOrder)]
        /\ step' \in [Threads -> {"idle", "deciding", "next", "read", "written"}]
    BY <2>1 DEF TypeOK
  <2>4. QED
    BY <1>3, <2>2, <2>3 DEF EmergencyStop, TypeOK, shared, history
<1>4. ASSUME NEW to \in {"running", "stopped"}, SwitchStrategy(to) PROVE TypeOK'
  BY <1>4 DEF SwitchStrategy, TypeOK, shared, history
<1>5. CASE EmergencyDone
  BY <1>5 DEF EmergencyDone, TypeOK, shared
<1>6. CASE Tick
  BY <1>6 DEF Tick, TypeOK, switches, shared, history
<1>7. CASE Decide
  BY <1>7, PlansAreOrders, PlanKeepsType DEF Decide, TypeOK, history
<1>8. ASSUME NEW action \in {"buy", "sell", "close"}, PlaceOrder(action) PROVE TypeOK'
  <2>1. PICK os \in Seq(PaperOrder) : Plan(Api, Append(os, Order(action, 1)))
    <3>1. <<>> \in Seq(PaperOrder)
      OBVIOUS
    <3>2. QED
      BY <1>8, <3>1, PlansAreOrders DEF PlaceOrder
  <2>2. Append(os, Order(action, 1)) \in Seq(PaperOrder)
    BY PlansAreOrders
  <2>3. QED
    BY <1>8, <2>1, <2>2, PlanKeepsType DEF PlaceOrder, TypeOK
<1>9. ASSUME NEW target \in {-1, 0, 1}, SetPositionTarget(target) PROVE TypeOK'
  <2>1. PICK o \in PaperOrder : Plan(Api, <<o>>)
    BY <1>9, PlansAreOrders DEF SetPositionTarget
  <2>2. <<o>> \in Seq(PaperOrder)
    OBVIOUS
  <2>3. QED
    BY <1>9, <2>1, <2>2, PlanKeepsType DEF SetPositionTarget, TypeOK
<1>10. CASE UNCHANGED vnpyVars
  BY <1>10 DEF vnpyVars, TypeOK
<1>11. QED
  BY <1>1, <1>2, <1>3, <1>4, <1>5, <1>6, <1>7, <1>8, <1>9, <1>10, OrderKeepsType DEF Next, Command

\* The live orders.
LEMMA LiveNumbers == Lots \subseteq Nat /\ LossLimit \in Nat /\ MaxRetries \in Nat /\ MaxSent \in Nat
BY VnpyAssumption DEF Live!LiveAssumption

LEMMA LossType ==
    ASSUME Live!TypeOK, NEW action \in Live!Actions, NEW size \in Nat
    PROVE  Live!LossAfter(action, size) \in 0..LossLimit
BY LiveNumbers DEF Live!TypeOK, Live!LossAfter, Live!Least

LEMMA SizedType ==
    ASSUME Live!TypeOK, NEW action \in Live!Actions
    PROVE  Live!Sized(action) \subseteq Nat
BY LiveNumbers DEF Live!TypeOK, Live!Sized, Live!Abs, Live!Least

\* An order on its way to the router.
LEMMA RoutingJob ==
    ASSUME NEW action \in Live!Actions, NEW n \in Nat
    PROVE  Live!Routing(action, n) \in Live!Job /\ Live!Routing(action, n).at = "routing"
BY LiveNumbers DEF Live!Routing, Live!Job, Live!Actions

LEMMA NoJobType == Live!NoJob \in Live!Job /\ Live!NoJob.at = "idle"
BY LiveNumbers DEF Live!NoJob, Live!Job, Live!Actions

\* What a step does to the job of one caller.
LEMMA JobKeepsType ==
    ASSUME Live!TypeOK, NEW c \in Callers, NEW new \in Live!Job, new.at = "sending" => new.gateway # "none",
           job' = [job EXCEPT ![c] = new]
    PROVE  /\ job' \in [Callers -> Live!Job]
           /\ \A d \in Callers : job'[d].at = "sending" => job'[d].gateway # "none"
BY DEF Live!TypeOK

LEMMA LiveKeepsType == Live!TypeOK /\ [Live!Next]_liveAll => Live!TypeOK'
<1> SUFFICES ASSUME Live!TypeOK, [Live!Next]_liveAll PROVE Live!TypeOK'
  OBVIOUS
<1>1. ASSUME NEW c \in Callers, NEW action \in Live!Actions, Live!ExecuteAction(c, action)
      PROVE  Live!TypeOK'
  <2>1. PICK size \in Nat : Live!Validate(c, action, size)
    BY <1>1, LiveNumbers DEF Live!ExecuteAction
  <2>2. lost' \in 0..LossLimit
    BY <2>1, LossType DEF Live!Validate
  <2>3. CASE UNCHANGED job
    BY <2>1, <2>2, <2>3 DEF Live!Validate, Live!TypeOK, Live!routes, Live!market
  <2>4. CASE ~UNCHANGED job
    <3>1. PICK n \in Nat : job' = [job EXCEPT ![c] = Live!Routing(action, n)]
      BY <2>1, <2>4, SizedType DEF Live!Validate
    <3> DEFINE new == Live!Routing(action, n)
    <3>2. new \in Live!Job /\ new.at = "routing" /\ job' = [job EXCEPT ![c] = new]
      BY <3>1, RoutingJob
    <3> HIDE DEF new
    <3>3. QED
      BY <2>1, <2>2, <3>2, JobKeepsType DEF Live!Validate, Live!TypeOK, Live!routes, Live!market
  <2>5. QED
    BY <2>3, <2>4
<1>2. ASSUME NEW c \in Callers, Live!RouteOrder(c) PROVE Live!TypeOK'
  <2>1. job[c] \in Live!Job /\ Live!Selected \in {"primary", "spot", "paper"}
    BY DEF Live!TypeOK, Live!Selected
  <2>2. CASE job' = [job EXCEPT ![c] = Live!NoJob] /\ UNCHANGED <<local, sent>>
    BY <1>2, <2>2, NoJobType, JobKeepsType DEF Live!RouteOrder, Live!TypeOK, Live!routes, Live!market
  <2>3. CASE /\ job' = [job EXCEPT ![c] = Live!NoJob] /\ sent < MaxSent /\ sent' = sent + 1
             /\ local' = Live!PaperFilled(job[c].action, job[c].size)
    <3>1. Live!PaperFilled(job[c].action, job[c].size) \in Int
      BY <2>1 DEF Live!PaperFilled, Live!Job, Live!Actions, Live!TypeOK
    <3>2. sent' \in 0..MaxSent
      BY <2>3, LiveNumbers DEF Live!TypeOK
    <3>3. QED
      BY <1>2, <2>3, <3>1, <3>2, NoJobType, JobKeepsType
         DEF Live!RouteOrder, Live!TypeOK, Live!routes, Live!market
  <2>4. CASE /\ Live!Selected # "paper" /\ UNCHANGED <<local, sent>>
             /\ job' = [job EXCEPT ![c].at = "sending", ![c].gateway = Live!Selected]
    <3> DEFINE new == [job[c] EXCEPT !.at = "sending", !.gateway = Live!Selected]
    <3>1. new \in Live!Job /\ new.gateway # "none" /\ job' = [job EXCEPT ![c] = new]
      BY <2>1, <2>4 DEF Live!Job, Live!TypeOK
    <3> HIDE DEF new
    <3>2. QED
      BY <1>2, <2>4, <3>1, JobKeepsType DEF Live!RouteOrder, Live!TypeOK, Live!routes, Live!market
  <2>5. QED
    BY <1>2, <2>2, <2>3, <2>4 DEF Live!RouteOrder
<1>3. ASSUME NEW c \in Callers, Live!Accepted(c) PROVE Live!TypeOK'
  <2>1. /\ job' = [job EXCEPT ![c] = Live!NoJob] /\ sent' = sent + 1 /\ sent < MaxSent
        /\ pending' = Append(pending, Live!Signed(job[c]))
    BY <1>3 DEF Live!Accepted
  <2>2. Live!Signed(job[c]) \in Int
    BY DEF Live!Signed, Live!TypeOK, Live!Job
  <2>3. sent' \in 0..MaxSent /\ pending' \in Seq(Int)
    BY <2>1, <2>2, LiveNumbers DEF Live!TypeOK
  <2>4. QED
    BY <1>3, <2>1, <2>3, NoJobType, JobKeepsType DEF Live!Accepted, Live!TypeOK, Live!routes
<1>4. ASSUME NEW c \in Callers, Live!RateLimited(c) PROVE Live!TypeOK'
  <2> DEFINE new == IF job[c].retries < MaxRetries THEN [job[c] EXCEPT !.retries = @ + 1] ELSE Live!NoJob
  <2>1. job[c] \in Live!Job /\ (job[c].at = "sending" => job[c].gateway # "none")
    BY DEF Live!TypeOK
  <2>2. new \in Live!Job /\ (new.at = "sending" => new.gateway # "none")
    BY <2>1, NoJobType, LiveNumbers DEF Live!Job
  <2>3. job' = [job EXCEPT ![c] = new]
    BY <1>4 DEF Live!RateLimited
  <2> HIDE DEF new
  <2>4. QED
    BY <1>4, <2>2, <2>3, JobKeepsType DEF Live!RateLimited, Live!TypeOK, Live!routes, Live!market
<1>5. ASSUME NEW c \in Callers, Live!SendFails(c) PROVE Live!TypeOK'
  <2>1. job' = [job EXCEPT ![c] = Live!NoJob]
    BY <1>5 DEF Live!SendFails
  <2>2. primary' \in Live!Gateways /\ spot' \in Live!Gateways
    BY <1>5 DEF Live!SendFails, Live!TypeOK, Live!Gateways
  <2>3. QED
    BY <1>5, <2>1, <2>2, NoJobType, JobKeepsType DEF Live!SendFails, Live!TypeOK, Live!market
<1>6. ASSUME NEW c \in Callers, Live!EmergencyStop(c) PROVE Live!TypeOK'
  <2>1. pending' \in Seq(Int)
    <3>1. PICK i \in 0..Len(pending) : pending' = SubSeq(pending, 1, i)
      BY <1>6 DEF Live!EmergencyStop
    <3>2. pending \in Seq(Int) /\ Len(pending) \in Nat
      BY DEF Live!TypeOK
    <3>3. \A k \in 1..i : pending[k] \in Int
      BY <3>2
    <3>4. QED
      BY <3>1, <3>3, SubSeqProperties
  <2>2. CASE UNCHANGED <<lost, job>>
    BY <1>6, <2>1, <2>2 DEF Live!EmergencyStop, Live!TypeOK, Live!routes
  <2>3. CASE ~UNCHANGED <<lost, job>>
    <3> DEFINE action == IF local > 0 THEN "sell" ELSE "buy"
    <3>1. action \in Live!Actions /\ Live!Abs(local) \in Nat
      BY DEF Live!Actions, Live!Abs, Live!TypeOK
    <3>2. /\ lost' = Live!LossAfter(action, Live!Abs(local))
          /\ \/ UNCHANGED job
             \/ \E n \in Live!Sized(action) :
                  job' = [job EXCEPT ![c] = Live!Routing(action, n)]
      BY <1>6, <2>3 DEF Live!EmergencyStop
    <3> HIDE DEF action
    <3>3. lost' \in 0..LossLimit
      BY <3>1, <3>2, LossType
    <3>4. CASE UNCHANGED job
      BY <1>6, <2>1, <3>3, <3>4 DEF Live!EmergencyStop, Live!TypeOK, Live!routes
    <3>5. CASE ~UNCHANGED job
      <4>1. PICK n \in Nat : job' = [job EXCEPT ![c] = Live!Routing(action, n)]
        BY <3>1, <3>2, <3>5, SizedType
      <4> DEFINE new == Live!Routing(action, n)
      <4>2. new \in Live!Job /\ new.at = "routing" /\ job' = [job EXCEPT ![c] = new]
        BY <3>1, <4>1, RoutingJob
      <4> HIDE DEF new
      <4>3. QED
        BY <1>6, <2>1, <3>3, <4>2, JobKeepsType DEF Live!EmergencyStop, Live!TypeOK, Live!routes
    <3>6. QED
      BY <3>4, <3>5
  <2>4. QED
    BY <2>2, <2>3
<1>7. ASSUME NEW gateway \in {"down", "connected"}, Live!RegisterPrimary(gateway) \/ Live!RegisterSpot(gateway)
      PROVE  Live!TypeOK'
  BY <1>7 DEF Live!RegisterPrimary, Live!RegisterSpot, Live!TypeOK, Live!Gateways, Live!market
<1>8. CASE Live!ExchangeFills
  <2>1. pending # <<>> => Head(pending) \in Int /\ Tail(pending) \in Seq(Int)
    BY DEF Live!TypeOK
  <2>2. QED
    BY <1>8, <2>1 DEF Live!ExchangeFills, Live!TypeOK, Live!routes
<1>9. CASE Live!SyncAccount \/ Live!GatewayFails
  BY <1>9 DEF Live!SyncAccount, Live!GatewayFails, Live!Reconciled, Live!TypeOK, Live!routes, Live!market
<1>10. CASE UNCHANGED liveAll
  BY <1>10 DEF liveAll, Live!TypeOK
<1>11. QED
  BY <1>1, <1>2, <1>3, <1>4, <1>5, <1>6, <1>7, <1>8, <1>9, <1>10 DEF Live!Next

\* The watchdog.
LEMMA DogNumbers == MaxFailures \in Nat \ {0} /\ MaxFaults \in Nat
BY VnpyAssumption DEF Dog!WatchdogAssumption

LEMMA StartedEngine ==
    ASSUME Dog!TypeOK, Dog!StartEngine
    PROVE  engine' \in BOOLEAN /\ status' \in {"unknown", "running", "stopped", "restarting"} /\ faults' \in 0..MaxFaults
<1>1. engine' \in BOOLEAN /\ status' \in {"unknown", "running", "stopped", "restarting"}
  BY DEF Dog!TypeOK, Dog!StartEngine
<1>2. faults' = faults \/ (faults < MaxFaults /\ faults' = faults + 1)
  BY DEF Dog!StartEngine
<1>3. faults \in 0..MaxFaults
  BY DEF Dog!TypeOK
<1>4. QED
  BY <1>1, <1>2, <1>3, DogNumbers

LEMMA HandledFailure ==
    ASSUME Dog!TypeOK, Dog!HandleFailure
    PROVE  /\ engine' \in BOOLEAN /\ status' \in {"unknown", "running", "stopped", "restarting"}
           /\ failures' \in 0..(MaxFailures - 1) /\ phase' \in {"asleep", "restarting", "over"}
<1>1. CASE failures + 1 < MaxFailures
  <2>1. failures' = failures + 1 /\ failures \in 0..(MaxFailures - 1)
    BY <1>1 DEF Dog!HandleFailure, Dog!TypeOK
  <2>2. failures' \in 0..(MaxFailures - 1)
    BY <1>1, <2>1, DogNumbers
  <2>3. QED
    BY <1>1, <2>2 DEF Dog!HandleFailure, Dog!TypeOK
<1>2. CASE ~(failures + 1 < MaxFailures)
  BY <1>2 DEF Dog!HandleFailure, Dog!TypeOK
<1>3. QED
  BY <1>1, <1>2

LEMMA DogKeepsType == Dog!TypeOK /\ [Dog!Next]_dogAll => Dog!TypeOK'
<1> SUFFICES ASSUME Dog!TypeOK, [Dog!Next]_dogAll PROVE Dog!TypeOK'
  OBVIOUS
<1>1. CASE Dog!Startup
  BY <1>1, StartedEngine DEF Dog!Startup, Dog!TypeOK
<1>2. CASE Dog!RestartEngine
  <2>1. 0 \in 0..(MaxFailures - 1)
    BY DogNumbers
  <2>2. QED
    BY <1>2, <2>1, StartedEngine DEF Dog!RestartEngine, Dog!TypeOK
<1>3. CASE Dog!HealthCheck
  BY <1>3, HandledFailure DEF Dog!HealthCheck, Dog!TypeOK
<1>4. CASE Dog!CheckRaises
  <2>1. faults' \in 0..MaxFaults
    BY <1>4, DogNumbers DEF Dog!CheckRaises, Dog!TypeOK
  <2>2. QED
    BY <1>4, <2>1, HandledFailure DEF Dog!CheckRaises, Dog!TypeOK
<1>5. CASE Dog!Shutdown \/ Dog!StopWatchdog \/ Dog!LoopEnds
  BY <1>5 DEF Dog!Shutdown, Dog!StopWatchdog, Dog!LoopEnds, Dog!TypeOK
<1>6. ASSUME NEW old \in {"running", "stopped"}, Dog!FindStatus(old) PROVE Dog!TypeOK'
  BY <1>6 DEF Dog!FindStatus, Dog!TypeOK
<1>7. CASE UNCHANGED dogAll
  BY <1>7 DEF dogAll, Dog!TypeOK
<1>8. QED
  BY <1>1, <1>2, <1>3, <1>4, <1>5, <1>6, <1>7 DEF Dog!Next

\* The API gateway: LimiterInv, and what the limiter remembers of a client is bounded.
GatewayTyped ==
    /\ LimiterInv /\ now <= MaxTime
    /\ \A c \in Clients : Cardinality(requests[c]) <= MaxRequests
    /\ socket \in [Sockets -> {"none", "open", "gone"}] /\ connections \in SUBSET Sockets

LEMMA RequestKeepsBound ==
    ASSUME LimiterInv, NEW c \in Clients, Gateway!Request(c),
           \A d \in Clients : Cardinality(requests[d]) <= MaxRequests
    PROVE  \A d \in Clients : Cardinality(requests'[d]) <= MaxRequests
<1> DEFINE recent == Gateway!Recent(c)
<1>1. /\ let[c] \in Seq(Nat) /\ recent \subseteq requests[c] /\ requests[c] \subseteq DOMAIN let[c]
      /\ Gateway!Cardinality(recent) = Cardinality(recent)
  BY SameCount DEF LimiterInv, Gateway!Recent
<1>2. IsFiniteSet(requests[c]) /\ IsFiniteSet(recent) /\ Cardinality(recent) \in Nat
  BY <1>1, PartOfSequence, FS_Subset, FS_CardinalityType
<1>3. Cardinality(recent) <= Cardinality(requests[c]) /\ Cardinality(requests[c]) \in Nat
  BY <1>1, <1>2, FS_Subset, FS_CardinalityType
<1>4. CASE Cardinality(recent) >= MaxRequests
  <2>1. requests' = [requests EXCEPT ![c] = recent]
    BY <1>1, <1>4 DEF Gateway!Request
  <2> HIDE DEF recent
  <2>2. requests'[c] = recent /\ \A d \in Clients : d # c => requests'[d] = requests[d]
    BY <2>1 DEF LimiterInv
  <2>3. Cardinality(recent) <= MaxRequests
    BY <1>2, <1>3, LimiterNumbers
  <2>4. QED
    BY <2>2, <2>3
<1>5. CASE ~(Cardinality(recent) >= MaxRequests)
  <2> DEFINE new == Len(let[c]) + 1
  <2>1. requests' = [requests EXCEPT ![c] = recent \cup {new}]
    BY <1>1, <1>5 DEF Gateway!Request
  <2>2. new \notin recent
    BY <1>1
  <2> HIDE DEF recent, new
  <2>3. Cardinality(recent \cup {new}) = Cardinality(recent) + 1
    BY <1>2, <2>2, FS_AddElement
  <2>4. Cardinality(recent \cup {new}) <= MaxRequests
    BY <1>2, <1>5, <2>3, LimiterNumbers
  <2>5. requests'[c] = recent \cup {new} /\ \A d \in Clients : d # c => requests'[d] = requests[d]
    BY <2>1 DEF LimiterInv
  <2>6. QED
    BY <2>4, <2>5
<1>6. QED
  BY <1>4, <1>5

LEMMA GatewayStarts == Gateway!Init => GatewayTyped
<1> SUFFICES ASSUME Gateway!Init PROVE GatewayTyped
  OBVIOUS
<1>1. LimiterInv
  BY InitLimiter
<1>2. \A c \in Clients : Cardinality(requests[c]) = 0
  BY FS_EmptySet DEF Gateway!Init
<1>3. now <= MaxTime
  BY LimiterNumbers DEF Gateway!Init
<1>4. QED
  BY <1>1, <1>2, <1>3, LimiterNumbers DEF GatewayTyped, Gateway!Init

LEMMA GatewayKeepsType == GatewayTyped /\ [Gateway!Next]_gatewayAll => GatewayTyped'
<1> SUFFICES ASSUME GatewayTyped, [Gateway!Next]_gatewayAll PROVE GatewayTyped'
  OBVIOUS
<1>1. ASSUME NEW c \in Clients, Gateway!Request(c) PROVE GatewayTyped'
  <2>1. \A d \in Clients : Cardinality(requests'[d]) <= MaxRequests
    BY <1>1, RequestKeepsBound DEF GatewayTyped
  <2>2. LimiterInv'
    BY <1>1, RequestKeepsLimit DEF GatewayTyped
  <2>3. UNCHANGED <<now, socket, connections>>
    BY <1>1 DEF Gateway!Request, Gateway!sockets
  <2>4. QED
    BY <2>1, <2>2, <2>3 DEF GatewayTyped
<1>2. CASE Gateway!Pass
  <2>1. LimiterInv'
    BY <1>2, PassKeepsLimit DEF GatewayTyped
  <2>2. now' <= MaxTime
    BY <1>2, LimiterNumbers DEF Gateway!Pass, GatewayTyped, LimiterInv
  <2>3. QED
    BY <1>2, <2>1, <2>2 DEF Gateway!Pass, Gateway!sockets, GatewayTyped
<1>3. ASSUME NEW s \in Sockets, Gateway!Connect(s) \/ Gateway!Disconnect(s) \/ Gateway!StreamFails(s)
      PROVE  GatewayTyped'
  <2>1. UNCHANGED <<now, requests, let>> /\ LimiterInv'
    BY <1>3, OthersKeepLimit DEF Gateway!Connect, Gateway!Disconnect, Gateway!StreamFails, Gateway!limiter, GatewayTyped
  <2>2. socket' \in [Sockets -> {"none", "open", "gone"}] /\ connections' \in SUBSET Sockets
    BY <1>3 DEF Gateway!Connect, Gateway!Disconnect, Gateway!StreamFails, GatewayTyped
  <2>3. QED
    BY <2>1, <2>2 DEF GatewayTyped
<1>4. CASE UNCHANGED gatewayAll
  <2>1. LimiterInv'
    BY <1>4, OthersKeepLimit DEF gatewayAll, GatewayTyped
  <2>2. QED
    BY <1>4, <2>1 DEF gatewayAll, GatewayTyped
<1>5. QED
  BY <1>1, <1>2, <1>3, <1>4 DEF Gateway!Next

LEMMA GatewayType == GatewayTyped => Gateway!TypeOK
<1> SUFFICES ASSUME GatewayTyped PROVE Gateway!TypeOK
  OBVIOUS
<1>1. ASSUME NEW c \in Clients
      PROVE  /\ \A i \in DOMAIN let[c] : let[c][i] \in 0..now
             /\ requests[c] \subseteq DOMAIN let[c] /\ Gateway!Cardinality(requests[c]) <= MaxRequests
  <2>1. let[c] \in Seq(Nat) /\ now \in Nat /\ \A i \in DOMAIN let[c] : let[c][i] <= now
    BY DEF GatewayTyped, LimiterInv
  <2>2. QED
    BY <2>1, SameCount DEF GatewayTyped, LimiterInv
<1>2. now \in 0..MaxTime
  BY LimiterNumbers DEF GatewayTyped, LimiterInv
<1>3. QED
  BY <1>1, <1>2 DEF GatewayTyped, Gateway!TypeOK

\* The agents.
LEMMA AgentNumbers ==
    EpisodeSteps \in Nat \ {0} /\ SaveEvery \in Nat \ {0} /\ MaxTraining \in Nat \ {0} /\ MaxAgents \in Nat \ {0}
BY VnpyAssumption DEF Rl!RlAgentAssumption

\* No life of an agent trained more than its policy holds.
RlTyped == Rl!TypeOK /\ \A p \in Agents : total_steps[p] <= policy[p]

LEMMA Larger ==
    ASSUME NEW m \in Int, NEW n \in Int
    PROVE  Rl!Max({m, n}) \in {m, n}
<1> DEFINE top == CHOOSE x \in {m, n} : \A y \in {m, n} : x >= y
<1>1. \E x \in {m, n} : \A y \in {m, n} : x >= y
  <2>1. CASE m >= n
    BY <2>1
  <2>2. CASE ~(m >= n)
    BY <2>2
  <2>3. QED
    BY <2>1, <2>2
<1>2. top \in {m, n}
  BY <1>1
<1>3. Rl!Max({m, n}) = top
  BY DEF Rl!Max
<1>4. QED
  BY <1>2, <1>3

\* Saving leaves a torn file and an agent that saves.
LEMMA SaveType ==
    ASSUME RlTyped, NEW p \in Agents, NEW next \in {"off", "on", "training"}, Rl!Save(p, next)
    PROVE  /\ agent' \in [Agents -> {"off", "on", "training", "saving", "metadata"}]
           /\ then' \in [Agents -> {"off", "on", "training"}]
           /\ checkpoint' \in Rl!Missing..MaxTraining /\ meta' \in 0..MaxTraining /\ savedSteps' \in 0..MaxTraining
BY AgentNumbers DEF RlTyped, Rl!TypeOK, Rl!Save, Rl!Torn, Rl!Missing

LEMMA AgentsKeepType == RlTyped /\ [Rl!Next]_rlAll => RlTyped'
<1> SUFFICES ASSUME RlTyped, [Rl!Next]_rlAll PROVE RlTyped'
  OBVIOUS
<1> USE AgentNumbers DEF RlTyped, Rl!TypeOK
<1>1. ASSUME NEW p \in Agents, Rl!Start(p) PROVE RlTyped'
  <2>1. PICK fails \in BOOLEAN :
            /\ checkpoint = Rl!Torn => fails
            /\ policy' = [policy EXCEPT ![p] = IF fails \/ checkpoint = Rl!Missing THEN 0 ELSE checkpoint]
            /\ misread' = (misread \/ fails)
    BY <1>1 DEF Rl!Start
  <2>2. (IF fails \/ checkpoint = Rl!Missing THEN 0 ELSE checkpoint) \in 0..MaxTraining
    BY <2>1 DEF Rl!Missing, Rl!Torn
  <2>3. policy' \in [Agents -> 0..MaxTraining]
    BY <2>1, <2>2
  <2>4. agent' \in [Agents -> {"off", "on", "training", "saving", "metadata"}]
    BY <1>1 DEF Rl!Start
  <2>5. /\ total_steps' \in [Agents -> 0..MaxTraining] /\ unsaved' \in [Agents -> 0..SaveEvery]
        /\ episode' \in [Agents -> 0..EpisodeSteps - 1] /\ born' \in 0..MaxAgents
    BY <1>1 DEF Rl!Start
  <2>6. misread' \in BOOLEAN /\ together' \in BOOLEAN
    BY <1>1, <2>1 DEF Rl!Start
  <2>7. \A q \in Agents : total_steps'[q] <= policy'[q]
    <3>1. total_steps'[p] = 0 /\ policy'[p] >= 0
      BY <1>1, <2>3 DEF Rl!Start
    <3>2. \A q \in Agents : q # p => total_steps'[q] = total_steps[q] /\ policy'[q] = policy[q]
      BY <1>1, <2>1 DEF Rl!Start
    <3>3. QED
      BY <3>1, <3>2
  <2>8. QED
    BY <1>1, <2>3, <2>4, <2>5, <2>6, <2>7 DEF Rl!Start, Rl!files
<1>2. ASSUME NEW p \in Agents, Rl!TrainingStep(p) PROVE RlTyped'
  <2>1. /\ agent[p] = "training" /\ policy[p] < MaxTraining
        /\ policy' = [policy EXCEPT ![p] = policy[p] + 1] /\ total_steps' = [total_steps EXCEPT ![p] = total_steps[p] + 1]
        /\ episode' = [episode EXCEPT ![p] = (episode[p] + 1) % EpisodeSteps]
        /\ UNCHANGED <<born, misread, together>>
    BY <1>2 DEF Rl!TrainingStep, Rl!lives
  <2>2. policy[p] + 1 \in 0..MaxTraining /\ total_steps[p] + 1 \in 0..MaxTraining
    BY <2>1
  <2>3. (episode[p] + 1) % EpisodeSteps \in 0..EpisodeSteps - 1
    BY <2>1
  <2>4. /\ policy' \in [Agents -> 0..MaxTraining] /\ total_steps' \in [Agents -> 0..MaxTraining]
        /\ episode' \in [Agents -> 0..EpisodeSteps - 1] /\ \A q \in Agents : total_steps'[q] <= policy'[q]
    BY <2>1, <2>2, <2>3
  <2>5. unsaved' \in [Agents -> 0..SaveEvery]
    <3>1. unsaved[p] + 1 >= SaveEvery \/ unsaved[p] + 1 \in 0..SaveEvery
      OBVIOUS
    <3>2. 0 \in 0..SaveEvery
      OBVIOUS
    <3>3. QED
      BY <1>2, <3>1, <3>2 DEF Rl!TrainingStep
  <2>6. /\ agent' \in [Agents -> {"off", "on", "training", "saving", "metadata"}]
        /\ then' \in [Agents -> {"off", "on", "training"}]
        /\ checkpoint' \in Rl!Missing..MaxTraining /\ meta' \in 0..MaxTraining /\ savedSteps' \in 0..MaxTraining
    <3>1. CASE unsaved[p] + 1 >= SaveEvery
      BY <1>2, <3>1, SaveType DEF Rl!TrainingStep
    <3>2. CASE ~(unsaved[p] + 1 >= SaveEvery)
      BY <1>2, <3>2 DEF Rl!TrainingStep, Rl!files
    <3>3. QED
      BY <3>1, <3>2
  <2>7. QED
    BY <2>1, <2>4, <2>5, <2>6
<1>3. ASSUME NEW p \in Agents, Rl!Trained(p) \/ Rl!Stop(p) PROVE RlTyped'
  BY <1>3, SaveType DEF Rl!Trained, Rl!Stop, Rl!lives
<1>4. ASSUME NEW p \in Agents, Rl!Saved(p) PROVE RlTyped'
  <2>1. savedSteps' \in {savedSteps, policy[p]}
    BY <1>4, Larger DEF Rl!Saved
  <2>2. /\ savedSteps' \in 0..MaxTraining /\ checkpoint' \in Rl!Missing..MaxTraining
    BY <1>4, <2>1 DEF Rl!Saved, Rl!Missing
  <2>3. QED
    BY <1>4, <2>2 DEF Rl!Saved, Rl!lives
<1>5. ASSUME NEW p \in Agents, Rl!SaveMetadata(p) PROVE RlTyped'
  BY <1>5 DEF Rl!SaveMetadata, Rl!lives
<1>6. ASSUME NEW p \in Agents, Rl!Train(p) \/ Rl!Kill(p) PROVE RlTyped'
  BY <1>6 DEF Rl!Train, Rl!Kill, Rl!files, Rl!lives
<1>7. CASE UNCHANGED rlAll
  BY <1>7 DEF rlAll
<1>8. QED
  BY <1>1, <1>2, <1>3, <1>4, <1>5, <1>6, <1>7 DEF Rl!Next

-----------------------------------------------------------------------------
(* No trade is counted twice by the order tracker. *)

LEMMA TrackerNumbers == Volume \in Nat \ {0} /\ MaxRecoveries \in Nat
BY VnpyAssumption DEF TrackerAssumption

Reports == {e \in [order : Orders, kind : {"order", "trade"}, status : Statuses, traded : 0..Volume] :
                e.kind = "trade" => e.traded = 1}
TradesOf(o) == {e \in Reports : e.order = o /\ e.kind = "trade"}

\* The trades of an order that the queue still holds.
Coming(queue, o) == Cardinality(Occurrences(queue, TradesOf(o)))

Entries == {None} \cup {r \in [status : Statuses, filled : Nat, trades : Nat] : r.filled <= Volume + r.trades}
Market == [Orders -> [status : Statuses \cup {"unsent"}, traded : 0..Volume]]

\* The trades that the tracker counted and those on their way are at most those that were made;
\* an order that may still be filled is not filled.
TradesCounted ==
    /\ market \in Market /\ events \in Seq(Reports)
    /\ tracked \in [Orders -> Entries] /\ disk \in [Orders -> Entries]
    /\ active \in SUBSET Orders /\ known \in SUBSET Orders
    /\ \A o \in active : tracked[o] # None
    /\ \A o \in Orders : market[o].status \in Open \cup {"unsent"} => market[o].traded < Volume
    /\ \A o \in Orders : tracked[o].trades + Coming(events, o) <= market[o].traded
    /\ \A o \in Orders : disk[o].trades <= market[o].traded
    /\ sending \in [Orders -> {"no", "sent", "tracked"}]
    /\ handlers \in BOOLEAN /\ recoveries \in 0..MaxRecoveries

LEMMA ComingType == ASSUME NEW queue \in Seq(Reports), NEW o PROVE Coming(queue, o) \in Nat
BY OccurrencesType DEF Coming

LEMMA ComingAppended ==
    ASSUME NEW queue \in Seq(Reports), NEW e \in Reports, NEW o
    PROVE  Coming(Append(queue, e), o) = Coming(queue, o) + (IF e.order = o /\ e.kind = "trade" THEN 1 ELSE 0)
<1>1. e \in TradesOf(o) <=> e.order = o /\ e.kind = "trade"
  BY DEF TradesOf
<1>2. QED
  BY <1>1, CountAppended DEF Coming

LEMMA ComingTail ==
    ASSUME NEW queue \in Seq(Reports), queue # <<>>, NEW o
    PROVE  Coming(queue, o) = Coming(Tail(queue), o)
                                + (IF Head(queue).order = o /\ Head(queue).kind = "trade" THEN 1 ELSE 0)
<1>1. Head(queue) \in Reports
  OBVIOUS
<1>2. Head(queue) \in TradesOf(o) <=> Head(queue).order = o /\ Head(queue).kind = "trade"
  BY <1>1 DEF TradesOf
<1>3. QED
  BY <1>2, CountTail DEF Coming

LEMMA EntriesOf ==
    /\ None \in Entries /\ None.trades = 0 /\ None.status = "none"
    /\ Submitted \in Entries /\ Submitted # None /\ Submitted.trades = 0
    /\ \A r \in Entries : r.trades \in Nat /\ r.filled \in Nat /\ r.filled <= Volume + r.trades
    /\ \A r \in Entries : r # None => r.status \in Statuses
    /\ \A r \in Entries : r.status = "none" => r = None
<1> USE TrackerNumbers
<1>1. None \in Entries /\ None.trades = 0 /\ None.status = "none"
  BY DEF Entries, None
<1>2. Submitted \in Entries /\ Submitted # None /\ Submitted.trades = 0
  <2>1. Submitted.status = "submitted" /\ Submitted.trades = 0
    BY DEF Submitted
  <2>2. Submitted \in [status : Statuses, filled : Nat, trades : Nat] /\ Submitted.filled <= Volume + Submitted.trades
    BY DEF Submitted, Statuses, Open
  <2>3. Submitted # None
    BY <1>1, <2>1
  <2>4. QED
    BY <2>1, <2>2, <2>3 DEF Entries
<1>3. \A r \in Entries : r.trades \in Nat /\ r.filled \in Nat /\ r.filled <= Volume + r.trades
  <2>1. None.trades = 0 /\ None.filled = 0
    BY DEF None
  <2>2. QED
    BY <2>1 DEF Entries
<1>4. \A r \in Entries : r # None => r.status \in Statuses
  BY DEF Entries
<1>5. "none" \notin Statuses
  BY DEF Statuses, Open, Final
<1>6. QED
  BY <1>1, <1>2, <1>3, <1>4, <1>5

\* A step of the process itself: the counts do not grow.
LEMMA ProcessKeepsCount ==
    ASSUME TradesCounted, UNCHANGED market, events' \in Seq(Reports),
           tracked' \in [Orders -> Entries], disk' \in [Orders -> Entries],
           active' \in SUBSET Orders, known' \in SUBSET Orders, \A o \in active' : tracked'[o] # None,
           \A o \in Orders : tracked'[o].trades + Coming(events', o) <= market[o].traded,
           \A o \in Orders : disk'[o].trades <= market[o].traded,
           sending' \in [Orders -> {"no", "sent", "tracked"}],
           handlers' \in BOOLEAN, recoveries' \in 0..MaxRecoveries
    PROVE  TradesCounted'
BY DEF TradesCounted

\* A step of the exchange: its record of one order, and reports at the end of the queue, of which
\* the new trades are the volume that was added.
LEMMA ExchangeKeepsCount ==
    ASSUME TradesCounted, NEW o \in Orders, NEW end \in Statuses, NEW traded \in 0..Volume,
           end \in Open => traded < Volume,
           market' = [market EXCEPT ![o] = [status |-> end, traded |-> traded]],
           events' \in Seq(Reports),
           Coming(events', o) - Coming(events, o) = traded - market[o].traded,
           \A q \in Orders : q # o => Coming(events', q) = Coming(events, q),
           traded >= market[o].traded,
           UNCHANGED <<tracked, active, known, disk, handlers, recoveries>>,
           sending' \in [Orders -> {"no", "sent", "tracked"}]
    PROVE  TradesCounted'
<1>1. market' \in Market /\ market'[o] = [status |-> end, traded |-> traded]
      /\ \A q \in Orders : q # o => market'[q] = market[q]
  BY DEF TradesCounted, Market
<1>2. \A q \in Orders : /\ market[q].traded \in Nat /\ tracked[q].trades \in Nat /\ disk[q].trades \in Nat
                        /\ Coming(events, q) \in Nat /\ Coming(events', q) \in Nat
  BY EntriesOf, ComingType DEF TradesCounted, Market
<1>3. end # "unsent"
  BY DEF Statuses, Open, Final
<1>4. \A q \in Orders : market'[q].status \in Open \cup {"unsent"} => market'[q].traded < Volume
  BY <1>1, <1>3 DEF TradesCounted
<1>5. tracked[o].trades + Coming(events', o) <= traded /\ disk[o].trades <= traded
  BY <1>2 DEF TradesCounted
<1>6. \A q \in Orders : tracked'[q].trades + Coming(events', q) <= market'[q].traded
  BY <1>1, <1>5 DEF TradesCounted
<1>7. \A q \in Orders : disk'[q].trades <= market'[q].traded
  BY <1>1, <1>5 DEF TradesCounted
<1>8. QED
  BY <1>1, <1>4, <1>6, <1>7 DEF TradesCounted

\* The record that a change of the status leaves.
LEMMA StatusChanged ==
    ASSUME TradesCounted, NEW o \in Orders, NEW end
    PROVE  [market EXCEPT ![o].status = end] = [market EXCEPT ![o] = [status |-> end, traded |-> market[o].traded]]
<1>1. market[o] \in [status : Statuses \cup {"unsent"}, traded : 0..Volume]
  BY DEF TradesCounted, Market
<1>2. [market[o] EXCEPT !.status = end] = [status |-> end, traded |-> market[o].traded]
  BY <1>1
<1>3. QED
  BY <1>2

LEMMA OrderReport ==
    ASSUME NEW o \in Orders, NEW end \in Statuses, NEW traded \in 0..Volume
    PROVE  /\ OrderEvent(o, end, traded) \in Reports
           /\ OrderEvent(o, end, traded).order = o /\ OrderEvent(o, end, traded).kind = "order"
BY DEF OrderEvent, Reports

LEMMA TradeReport ==
    ASSUME NEW o \in Orders, NEW end \in Statuses
    PROVE  /\ TradeEvent(o, end, 1) \in Reports
           /\ TradeEvent(o, end, 1).order = o /\ TradeEvent(o, end, 1).kind = "trade"
BY TrackerNumbers DEF TradeEvent, Reports

\* A status of the exchange with its report: send_order, an acknowledgement, an end.
LEMMA StatusKeepsCount ==
    ASSUME TradesCounted, NEW o \in Orders, NEW end \in Statuses, end \in Open => market[o].traded < Volume,
           market' = [market EXCEPT ![o].status = end],
           \/ events' = events
           \/ \E traded \in 0..Volume : events' = Append(events, OrderEvent(o, end, traded)),
           UNCHANGED <<tracked, active, known, disk, handlers, recoveries>>,
           sending' \in [Orders -> {"no", "sent", "tracked"}]
    PROVE  TradesCounted'
<1>1. market[o].traded \in 0..Volume /\ events \in Seq(Reports)
  BY DEF TradesCounted, Market
<1>2. events' \in Seq(Reports) /\ \A q \in Orders : Coming(events', q) = Coming(events, q)
  <2>1. CASE events' = events
    BY <1>1, <2>1
  <2>2. CASE events' # events
    <3>1. PICK traded \in 0..Volume : events' = Append(events, OrderEvent(o, end, traded))
      BY <2>2
    <3> DEFINE e == OrderEvent(o, end, traded)
    <3>2. e \in Reports /\ e.kind = "order" /\ events' = Append(events, e)
      BY <3>1, OrderReport
    <3> HIDE DEF e
    <3>3. \A q \in Orders : Coming(events', q) = Coming(events, q) + 0
      BY <1>1, <3>2, ComingAppended
    <3>4. \A q \in Orders : Coming(events, q) \in Nat
      BY <1>1, ComingType
    <3>5. QED
      BY <1>1, <3>2, <3>3, <3>4
  <2>3. QED
    BY <2>1, <2>2
<1>3. Coming(events', o) - Coming(events, o) = market[o].traded - market[o].traded
  BY <1>1, <1>2, ComingType
<1>4. market[o].traded >= market[o].traded
  BY <1>1
<1>5. market' = [market EXCEPT ![o] = [status |-> end, traded |-> market[o].traded]]
  BY StatusChanged
<1>6. QED
  BY <1>1, <1>2, <1>3, <1>4, <1>5, ExchangeKeepsCount

LEMMA FillKeepsCount == ASSUME TradesCounted, NEW o \in Orders, Fill(o) PROVE TradesCounted'
<1> DEFINE traded == market[o].traded + 1
           end == IF traded = Volume THEN "filled" ELSE "partTradedNotQueueing"
           first == OrderEvent(o, end, traded)
           second == TradeEvent(o, end, 1)
<1>1. /\ market[o].status \in {"not_traded", "partTradedNotQueueing"}
      /\ market' = [market EXCEPT ![o] = [status |-> end, traded |-> traded]]
      /\ events' = events \o <<first, second>>
      /\ UNCHANGED <<tracked, active, known, disk, sending, handlers, recoveries>>
  BY DEF Fill
<1>2. market[o].traded \in 0..Volume /\ market[o].traded < Volume
  BY <1>1 DEF TradesCounted, Market, Open
<1>3. traded \in 0..Volume /\ traded >= market[o].traded /\ traded - market[o].traded = 1
  BY <1>2, TrackerNumbers
<1>4. end \in Statuses
  BY DEF Statuses, Open, Final
<1>5. end \in Open => traded < Volume
  <2>1. end \in Open => traded # Volume
    BY DEF Open
  <2>2. QED
    BY <1>3, <2>1, TrackerNumbers
<1>6. first \in Reports /\ first.kind = "order" /\ second \in Reports /\ second.order = o /\ second.kind = "trade"
  BY <1>3, <1>4, OrderReport, TradeReport
<1> HIDE DEF first, second, end, traded
<1>7. events \in Seq(Reports)
  BY DEF TradesCounted
<1>8. Append(events, first) \in Seq(Reports) /\ events' = Append(Append(events, first), second)
  BY <1>1, <1>6, <1>7
<1>9. events' \in Seq(Reports)
  BY <1>6, <1>8
<1>10. \A q \in Orders : Coming(events', q) = Coming(events, q) + (IF q = o THEN 1 ELSE 0)
  <2> SUFFICES ASSUME NEW q \in Orders PROVE Coming(events', q) = Coming(events, q) + (IF q = o THEN 1 ELSE 0)
    OBVIOUS
  <2>1. Coming(Append(events, first), q) = Coming(events, q) + 0
    BY <1>6, <1>7, ComingAppended
  <2>2. Coming(events', q) = Coming(Append(events, first), q) + (IF q = o THEN 1 ELSE 0)
    BY <1>6, <1>8, ComingAppended
  <2>3. Coming(events, q) \in Nat
    BY <1>7, ComingType
  <2>4. QED
    BY <2>1, <2>2, <2>3
<1>11. Coming(events', o) - Coming(events, o) = traded - market[o].traded
  <2>1. Coming(events, o) \in Nat
    BY <1>7, ComingType
  <2>2. QED
    BY <1>3, <1>10, <2>1
<1>12. \A q \in Orders : q # o => Coming(events', q) = Coming(events, q)
  <2>1. \A q \in Orders : Coming(events, q) \in Nat
    BY <1>7, ComingType
  <2>2. QED
    BY <1>10, <2>1
<1>13. sending' \in [Orders -> {"no", "sent", "tracked"}]
  BY <1>1 DEF TradesCounted
<1>14. QED
  BY <1>1, <1>3, <1>4, <1>5, <1>9, <1>11, <1>12, <1>13, ExchangeKeepsCount

LEMMA HandlingKeepsCount == ASSUME TradesCounted, HandleEvent PROVE TradesCounted'
<1> DEFINE e == Head(events)
           o == Head(events).order
<1>1. /\ events # <<>> /\ events' = Tail(events) /\ events \in Seq(Reports)
      /\ UNCHANGED <<market, known, disk, sending, handlers, recoveries>>
  BY DEF HandleEvent, TradesCounted
<1>2. e \in Reports /\ events' \in Seq(Reports)
  BY <1>1
<1>3. o \in Orders /\ e.status \in Statuses /\ e.traded \in 0..Volume /\ (e.kind = "trade" => e.traded = 1)
  BY <1>2 DEF Reports
<1>4. \A q \in Orders : Coming(events, q) = Coming(events', q) + (IF o = q /\ e.kind = "trade" THEN 1 ELSE 0)
  BY <1>1, ComingTail
<1>5. \A q \in Orders : Coming(events, q) \in Nat /\ Coming(events', q) \in Nat
  BY <1>1, <1>2, ComingType
<1>6. \A q \in Orders : tracked[q] \in Entries /\ tracked[q].trades \in Nat /\ market[q].traded \in Nat
                        /\ tracked[q].trades + Coming(events, q) <= market[q].traded
  BY EntriesOf DEF TradesCounted, Market
<1>7. e.kind \in {"order", "trade"}
  BY <1>2 DEF Reports
<1>8. CASE UNCHANGED <<tracked, active>>
  <2>1. \A q \in Orders : tracked'[q].trades + Coming(events', q) <= market[q].traded
    BY <1>4, <1>5, <1>6, <1>8
  <2>2. QED
    BY <1>1, <1>2, <1>8, <2>1, ProcessKeepsCount DEF TradesCounted
<1>9. CASE o \in known \cap active /\ e.kind = "order" /\ OnOrderEvent(e)
  <2> DEFINE new == [status |-> e.status, trades |-> tracked[o].trades,
                     filled |-> IF e.status = "partTradedNotQueueing" THEN e.traded ELSE tracked[o].filled]
  <2>1. tracked' = [tracked EXCEPT ![o] = new] /\ active' \subseteq active
    BY <1>9 DEF OnOrderEvent
  <2>2. tracked[o].filled \in Nat /\ tracked[o].filled <= Volume + tracked[o].trades
    BY <1>3, <1>6, EntriesOf
  <2>3. new \in Entries /\ new.status # "none" /\ new.trades = tracked[o].trades
    <3>1. e.traded \in Nat /\ e.traded <= Volume + tracked[o].trades
      BY <1>3, <1>6, TrackerNumbers
    <3>2. new.filled \in Nat /\ new.filled <= Volume + tracked[o].trades
      BY <2>2, <3>1
    <3>3. new \in [status : Statuses, filled : Nat, trades : Nat] /\ new.filled <= Volume + new.trades
      BY <1>3, <1>6, <3>2
    <3>4. e.status # "none"
      BY <1>3 DEF Statuses, Open, Final
    <3>5. QED
      BY <3>3, <3>4 DEF Entries
  <2> HIDE DEF new
  <2>4. /\ tracked' \in [Orders -> Entries] /\ tracked'[o] = new
        /\ \A q \in Orders : q # o => tracked'[q] = tracked[q]
    BY <1>3, <2>1, <2>3 DEF TradesCounted
  <2>5. \A q \in Orders : tracked'[q].trades + Coming(events', q) <= market[q].traded
    BY <1>4, <1>5, <1>6, <1>9, <2>3, <2>4
  <2>6. new # None
    BY <2>3, EntriesOf
  <2>7. \A q \in active' : tracked'[q] # None
    BY <2>1, <2>4, <2>6 DEF TradesCounted
  <2>8. active' \in SUBSET Orders
    BY <2>1 DEF TradesCounted
  <2>9. QED
    BY <1>1, <1>2, <2>4, <2>5, <2>7, <2>8, ProcessKeepsCount DEF TradesCounted
<1>10. CASE o \in known \cap active /\ e.kind = "trade" /\ OnTradeEvent(e)
  <2> DEFINE new == [status |-> tracked[o].status, trades |-> tracked[o].trades + 1,
                     filled |-> tracked[o].filled + e.traded]
  <2>1. tracked' = [tracked EXCEPT ![o] = new] /\ active' = active
    BY <1>10 DEF OnTradeEvent
  <2>2. /\ tracked[o].filled \in Nat /\ tracked[o].filled <= Volume + tracked[o].trades
        /\ tracked[o].status \in Statuses /\ tracked[o].status # "none"
    <3>1. tracked[o] # None
      BY <1>10 DEF TradesCounted
    <3>2. tracked[o].status \in Statuses
      BY <1>3, <1>6, <3>1, EntriesOf
    <3>3. tracked[o].status # "none"
      BY <3>2 DEF Statuses, Open, Final
    <3>4. QED
      BY <1>3, <1>6, <3>2, <3>3, EntriesOf
  <2>3. new \in Entries /\ new.status # "none" /\ new.trades = tracked[o].trades + 1
    <3>1. tracked[o].filled + e.traded <= Volume + (tracked[o].trades + 1) /\ tracked[o].filled + e.traded \in Nat
      BY <1>3, <1>6, <1>10, <2>2, TrackerNumbers
    <3>2. new \in [status : Statuses, filled : Nat, trades : Nat] /\ new.filled <= Volume + new.trades
      BY <1>3, <1>6, <2>2, <3>1
    <3>3. QED
      BY <2>2, <3>2 DEF Entries
  <2> HIDE DEF new
  <2>4. /\ tracked' \in [Orders -> Entries] /\ tracked'[o] = new
        /\ \A q \in Orders : q # o => tracked'[q] = tracked[q]
    BY <1>3, <2>1, <2>3 DEF TradesCounted
  <2>5. \A q \in Orders : tracked'[q].trades + Coming(events', q) <= market[q].traded
    BY <1>3, <1>4, <1>5, <1>6, <1>10, <2>3, <2>4
  <2>6. new # None
    BY <2>3, EntriesOf
  <2>7. \A q \in active' : tracked'[q] # None
    BY <2>1, <2>4, <2>6 DEF TradesCounted
  <2>8. active' \in SUBSET Orders
    BY <2>1 DEF TradesCounted
  <2>9. QED
    BY <1>1, <1>2, <2>4, <2>5, <2>7, <2>8, ProcessKeepsCount DEF TradesCounted
<1>11. QED
  BY <1>7, <1>8, <1>9, <1>10 DEF HandleEvent

LEMMA TrackerKeepsCount == TradesCounted /\ [TrackerNext]_trackerVars => TradesCounted'
<1> SUFFICES ASSUME TradesCounted, [TrackerNext]_trackerVars PROVE TradesCounted'
  OBVIOUS
<1>1. \A o \in Orders : /\ market[o].traded \in 0..Volume /\ events \in Seq(Reports) /\ Coming(events, o) \in Nat
                        /\ tracked[o].trades \in Nat /\ tracked[o] \in Entries
  BY EntriesOf, ComingType DEF TradesCounted, Market
<1>2. ASSUME NEW o \in Orders, Send(o) PROVE TradesCounted'
  <2>1. "submitted" \in Statuses /\ market[o].status = "unsent" /\ market[o].traded < Volume
    BY <1>2 DEF Send, Unsent, Statuses, Open, TradesCounted
  <2>2. sending' \in [Orders -> {"no", "sent", "tracked"}]
    BY <1>2 DEF Send, TradesCounted
  <2>3. QED
    BY <1>2, <2>1, <2>2, StatusKeepsCount DEF Send
<1>3. ASSUME NEW o \in Orders, Acknowledge(o) PROVE TradesCounted'
  <2>1. "not_traded" \in Statuses /\ market[o].traded < Volume
    BY <1>3 DEF Acknowledge, Statuses, Open, TradesCounted
  <2>2. 0 \in 0..Volume
    BY TrackerNumbers
  <2>3. sending' \in [Orders -> {"no", "sent", "tracked"}]
    BY <1>3 DEF Acknowledge, TradesCounted
  <2>4. QED
    BY <1>3, <2>1, <2>2, <2>3, StatusKeepsCount DEF Acknowledge
<1>4. ASSUME NEW o \in Orders, NEW end \in {"cancelled", "rejected"}, market[o].status \in Open,
             market' = [market EXCEPT ![o].status = end],
             events' = Append(events, OrderEvent(o, end, market[o].traded)),
             UNCHANGED <<tracked, active, known, disk, sending, handlers, recoveries>>
      PROVE  TradesCounted'
  <2>1. end \in Statuses /\ end \notin Open
    BY DEF Statuses, Open, Final
  <2>2. sending' \in [Orders -> {"no", "sent", "tracked"}]
    BY <1>4 DEF TradesCounted
  <2>3. QED
    BY <1>1, <1>4, <2>1, <2>2, StatusKeepsCount
<1>5. ASSUME NEW o \in Orders, CancelOrder(o) PROVE TradesCounted'
  <2>1. CASE market[o].status \in Open
    BY <1>4, <1>5, <2>1 DEF CancelOrder
  <2>2. CASE market[o].status \notin Open
    BY <1>5, <2>2, ProcessKeepsCount DEF CancelOrder, TradesCounted
  <2>3. QED
    BY <2>1, <2>2
<1>6. ASSUME NEW o \in Orders, TrackOrder(o) PROVE TradesCounted'
  <2>1. /\ tracked' = [tracked EXCEPT ![o] = Submitted] /\ active' = active \cup {o} /\ known' = known \cup {o}
        /\ UNCHANGED <<market, events, disk, handlers, recoveries>>
    BY <1>6 DEF TrackOrder
  <2>2. /\ tracked' \in [Orders -> Entries] /\ tracked'[o] = Submitted
        /\ \A q \in Orders : q # o => tracked'[q] = tracked[q]
    BY <2>1, EntriesOf DEF TradesCounted
  <2>3. tracked[o].trades + Coming(events, o) <= market[o].traded
    BY DEF TradesCounted
  <2>4. 0 + Coming(events, o) <= market[o].traded
    BY <1>1, <2>3
  <2>5. \A q \in Orders : tracked'[q].trades + Coming(events', q) <= market[q].traded
    BY <2>1, <2>2, <2>4, EntriesOf DEF TradesCounted
  <2>6. \A q \in active' : tracked'[q] # None
    BY <2>1, <2>2, EntriesOf DEF TradesCounted
  <2>7. sending' \in [Orders -> {"no", "sent", "tracked"}]
    BY <1>6 DEF TrackOrder, TradesCounted
  <2>8. QED
    BY <2>1, <2>2, <2>5, <2>6, <2>7, ProcessKeepsCount DEF TradesCounted
<1>7. ASSUME NEW o \in Orders, PersistOrder(o) PROVE TradesCounted'
  <2>1. /\ disk' = [disk EXCEPT ![o] = Submitted]
        /\ UNCHANGED <<market, events, tracked, active, known, handlers, recoveries>>
    BY <1>7 DEF PersistOrder
  <2>2. /\ disk' \in [Orders -> Entries] /\ disk'[o] = Submitted
        /\ \A q \in Orders : q # o => disk'[q] = disk[q]
    BY <2>1, EntriesOf DEF TradesCounted
  <2>3. 0 <= market[o].traded
    BY <1>1
  <2>4. \A q \in Orders : disk'[q].trades <= market[q].traded
    BY <2>2, <2>3, EntriesOf DEF TradesCounted
  <2>5. sending' \in [Orders -> {"no", "sent", "tracked"}]
    BY <1>7 DEF PersistOrder, TradesCounted
  <2>6. QED
    BY <2>1, <2>2, <2>4, <2>5, ProcessKeepsCount DEF TradesCounted
<1>8. CASE FlushToDisk
  <2>1. \A o \in Orders : tracked[o].trades + Coming(events, o) <= market[o].traded
    BY DEF TradesCounted
  <2>2. \A o \in Orders : tracked[o].trades <= market[o].traded
    BY <1>1, <2>1
  <2>3. QED
    BY <1>8, <2>2, ProcessKeepsCount DEF FlushToDisk, TradesCounted
<1>9. CASE Restart
  <2>1. /\ tracked' = disk /\ active' = {o \in Orders : disk[o].status \in InFlight} /\ known' = {}
        /\ handlers' = FALSE /\ events' = <<>> /\ sending' = [o \in Orders |-> "no"]
        /\ recoveries < MaxRecoveries /\ recoveries' = recoveries + 1 /\ UNCHANGED <<market, disk>>
    BY <1>9 DEF Restart
  <2>2. recoveries' \in 0..MaxRecoveries
    BY <2>1, TrackerNumbers DEF TradesCounted
  <2>3. \A o \in Orders : Coming(events', o) = 0
    BY <2>1, NoOccurrence DEF Coming
  <2>4. \A o \in Orders : disk[o].trades \in Nat /\ disk[o].trades <= market[o].traded
    BY EntriesOf DEF TradesCounted
  <2>5. \A o \in Orders : tracked'[o].trades + Coming(events', o) <= market[o].traded
    BY <2>1, <2>3, <2>4
  <2>6. \A o \in active' : tracked'[o] # None
    BY <2>1, EntriesOf DEF InFlight
  <2>7. events' \in Seq(Reports)
    BY <2>1
  <2>8. QED
    BY <2>1, <2>2, <2>4, <2>5, <2>6, <2>7, ProcessKeepsCount DEF TradesCounted
<1>10. CASE RegisterEventHandlers
  BY <1>10, ProcessKeepsCount DEF RegisterEventHandlers, TradesCounted
<1>11. CASE UNCHANGED trackerVars
  BY <1>11 DEF trackerVars, TradesCounted
<1>12. QED
  BY <1>2, <1>3, <1>4, <1>5, <1>6, <1>7, <1>8, <1>9, <1>10, <1>11, FillKeepsCount, HandlingKeepsCount
     DEF TrackerNext, End

LEMMA TrackerStarts == TrackerInit => TradesCounted
<1> SUFFICES ASSUME TrackerInit PROVE TradesCounted
  OBVIOUS
<1>1. /\ market = [o \in Orders |-> Unsent] /\ Unsent.traded = 0 /\ Unsent.status = "unsent"
      /\ events = <<>> /\ tracked = [o \in Orders |-> None] /\ disk = [o \in Orders |-> None]
  BY DEF TrackerInit, Unsent
<1>2. market \in Market
  BY <1>1, TrackerNumbers DEF Market, Unsent
<1>3. \A o \in Orders : Coming(events, o) = 0
  BY <1>1, NoOccurrence DEF Coming
<1>4. \A o \in Orders : tracked[o].trades + Coming(events, o) <= market[o].traded /\ disk[o].trades <= market[o].traded
  BY <1>1, <1>3, EntriesOf
<1>5. \A o \in Orders : market[o].traded < Volume
  BY <1>1, TrackerNumbers
<1>6. events \in Seq(Reports) /\ tracked \in [Orders -> Entries] /\ disk \in [Orders -> Entries]
  BY <1>1, EntriesOf
<1>7. 0 \in 0..MaxRecoveries
  BY TrackerNumbers
<1>8. QED
  BY <1>2, <1>4, <1>5, <1>6, <1>7 DEF TrackerInit, TradesCounted

LEMMA TrackerType == TradesCounted => TrackerTypeOK
<1> SUFFICES ASSUME TradesCounted PROVE TrackerTypeOK
  OBVIOUS
<1>1. \A r \in Entries, n \in 0..Volume : r.trades <= n => r \in Record \cup {None}
  <2> SUFFICES ASSUME NEW r \in Entries, NEW n \in 0..Volume, r.trades <= n, r # None PROVE r \in Record
    OBVIOUS
  <2>1. r \in [status : Statuses, filled : Nat, trades : Nat] /\ r.filled <= Volume + r.trades
    BY DEF Entries
  <2>2. r.filled \in 0..(2 * Volume) /\ r.trades \in 0..Volume
    BY <2>1, TrackerNumbers
  <2>3. QED
    BY <2>1, <2>2 DEF Record
<1>2. ASSUME NEW o \in Orders PROVE tracked[o] \in Record \cup {None} /\ disk[o] \in Record \cup {None}
  <2>1. /\ market[o].traded \in 0..Volume /\ tracked[o] \in Entries /\ disk[o] \in Entries
        /\ Coming(events, o) \in Nat /\ tracked[o].trades \in Nat
        /\ tracked[o].trades + Coming(events, o) <= market[o].traded
        /\ disk[o].trades <= market[o].traded
    BY EntriesOf, ComingType DEF TradesCounted, Market
  <2>2. tracked[o].trades <= market[o].traded
    BY <2>1, TrackerNumbers
  <2>3. QED
    BY <1>1, <2>1, <2>2
<1>3. QED
  BY <1>2 DEF TradesCounted, TrackerTypeOK, Market

-----------------------------------------------------------------------------
(* The reward of the training. *)

LEMMA AssetNumbers == IsFiniteSet(Assets) /\ Cardinality(Assets) \in Nat \ {0} /\ Cardinality(Assets) < 500
<1>1. Rl!IsFiniteSet(Assets) /\ Rl!Cardinality(Assets) \in 1..499
  BY VnpyAssumption DEF Rl!RlAgentAssumption
<1>2. IsFiniteSet(Assets)
  BY <1>1 DEF Rl!IsFiniteSet, IsFiniteSet
<1>3. Rl!Cardinality(Assets) = Cardinality(Assets)
  BY DEF Rl!Cardinality, Cardinality, Rl!IsFiniteSet, IsFiniteSet
<1>4. QED
  BY <1>1, <1>2, <1>3

Alike(t, c) == [s \in Assets |-> <<t, c>>]

\* Over symbols that all move alike the reward is so many times that of one, clipped.
LEMMA UniformReward ==
    ASSUME NEW action, NEW t \in Int, NEW c \in Int, NEW r \in Int, Rl!SymbolReward(action, t, c) = r
    PROVE  Rl!CalculateReward(action, Alike(t, c)) = Rl!Clip(r * Cardinality(Assets))
<1> DEFINE alike == Alike(t, c)
           F == [s \in Assets |-> Rl!SymbolReward(action, alike[s][1], alike[s][2])]
           pick == [T \in SUBSET Assets |-> CHOOSE x \in T : TRUE]
           Defines(g) == g = [T \in SUBSET Assets |-> IF T = {} THEN 0
               ELSE Rl!SymbolReward(action, alike[CHOOSE x \in T : TRUE][1], alike[CHOOSE x \in T : TRUE][2])
                      + g[T \ {CHOOSE x \in T : TRUE}]]
           sum == CHOOSE g : Defines(g)
<1>1. Rl!CalculateReward(action, alike) = Rl!Clip(sum[Assets])
  BY DEF Rl!CalculateReward, Rl!MapThenSumSet, Rl!MapThenFoldSet
<1>2. Picks(pick, Assets)
  BY DEF Picks
<1>3. \A s \in Assets : F[s] = r
  BY DEF Alike
<1>4. ASSUME NEW g PROVE Defines(g) <=> AddingUp(g, F, Assets, pick)
  BY DEF AddingUp
<1> HIDE DEF pick, Defines, F
<1>5. PICK g : AddingUp(g, F, Assets, pick)
  BY <1>2, <1>3, AddingExists, AssetNumbers
<1>6. AddingUp(sum, F, Assets, pick)
  BY <1>4, <1>5
<1>7. sum[Assets] = SumFunctionOnSet(F, Assets)
  BY <1>2, <1>3, <1>6, AddingUpIs, AssetNumbers
<1>8. SumFunctionOnSet(F, Assets) = r * Cardinality(Assets)
  BY <1>3, SumOnConstant, AssetNumbers
<1>9. QED
  BY <1>1, <1>7, <1>8

\* The reward of one symbol where trend and price rise.
LEMMA RisingRewards ==
    ASSUME NEW t \in 1..2, NEW c \in 1..2
    PROVE  /\ Rl!SymbolReward("buy", t, c) = 100 * t + 100 * c - 10
           /\ Rl!SymbolReward("sell", t, c) = -100 * t - 50 * c - 10
           /\ Rl!SymbolReward("hold", t, c) = IF t = 1 THEN 10 ELSE 0
BY DEF Rl!SymbolReward, Rl!Size

LEMMA MirroredReward ==
    ASSUME NEW t \in -2..2, NEW c \in -2..2
    PROVE  /\ Rl!SymbolReward("buy", t, c) = Rl!SymbolReward("sell", -t, -c)
           /\ Rl!SymbolReward("buy", t, c) \in Int
<1>1. /\ Rl!SymbolReward("buy", t, c) = 100 * t + (IF c > 0 THEN 100 ELSE 50) * c - 10
      /\ Rl!SymbolReward("sell", -t, -c) = -100 * (-t) - (IF -c < 0 THEN 100 ELSE 50) * (-c) - 10
  BY DEF Rl!SymbolReward
<1>2. CASE c > 0
  BY <1>1, <1>2
<1>3. CASE ~(c > 0)
  BY <1>1, <1>3
<1>4. QED
  BY <1>2, <1>3

\* _calculate_reward is even-handed, and following a trend pays, however many symbols move alike.
LEMMA FollowingPays == Rl!RewardsFollow
<1> SUFFICES ASSUME NEW t \in Rl!Trends, NEW c \in Rl!Moves
             PROVE  /\ Rl!CalculateReward("buy", Alike(t, c)) = Rl!CalculateReward("sell", Alike(-t, -c))
                    /\ t > 0 /\ c > 0 =>
                         /\ Rl!CalculateReward("buy", Alike(t, c)) > Rl!CalculateReward("hold", Alike(t, c))
                         /\ Rl!CalculateReward("sell", Alike(t, c)) < 0
  BY DEF Rl!RewardsFollow, Alike
<1> DEFINE n == Cardinality(Assets)
<1>1. t \in -2..2 /\ c \in -2..2 /\ -t \in Int /\ -c \in Int /\ t \in Int /\ c \in Int
  BY DEF Rl!Trends, Rl!Moves
<1>2. n \in Nat /\ n >= 1 /\ n < 500
  BY AssetNumbers
<1>3. Rl!CalculateReward("buy", Alike(t, c)) = Rl!CalculateReward("sell", Alike(-t, -c))
  <2>1. Rl!CalculateReward("buy", Alike(t, c)) = Rl!Clip(Rl!SymbolReward("buy", t, c) * n)
    BY <1>1, MirroredReward, UniformReward
  <2>2. Rl!CalculateReward("sell", Alike(-t, -c)) = Rl!Clip(Rl!SymbolReward("buy", t, c) * n)
    <3>1. Rl!SymbolReward("sell", -t, -c) = Rl!SymbolReward("buy", t, c) /\ Rl!SymbolReward("buy", t, c) \in Int
      BY <1>1, MirroredReward
    <3>2. QED
      BY <1>1, <3>1, UniformReward
  <2>3. QED
    BY <2>1, <2>2
<1>4. ASSUME t > 0, c > 0
      PROVE  /\ Rl!CalculateReward("buy", Alike(t, c)) > Rl!CalculateReward("hold", Alike(t, c))
             /\ Rl!CalculateReward("sell", Alike(t, c)) < 0
  <2> DEFINE buy == Rl!SymbolReward("buy", t, c)
             hold == Rl!SymbolReward("hold", t, c)
             sell == Rl!SymbolReward("sell", t, c)
  <2>1. t \in 1..2 /\ c \in 1..2
    BY <1>1, <1>4
  <2>2. /\ buy = 100 * t + 100 * c - 10 /\ hold = (IF t = 1 THEN 10 ELSE 0)
        /\ sell = -100 * t - 50 * c - 10
    BY <2>1, RisingRewards
  <2> HIDE DEF buy, hold, sell
  <2>3. buy \in {190, 290, 390} /\ hold \in {0, 10} /\ sell \in {-160, -210, -260, -310}
    BY <2>1, <2>2
  <2>4. /\ Rl!CalculateReward("buy", Alike(t, c)) = Rl!Clip(buy * n)
        /\ Rl!CalculateReward("hold", Alike(t, c)) = Rl!Clip(hold * n)
        /\ Rl!CalculateReward("sell", Alike(t, c)) = Rl!Clip(sell * n)
    <3>1. buy \in Int /\ hold \in Int /\ sell \in Int
      BY <2>3
    <3>2. /\ Rl!SymbolReward("buy", t, c) = buy /\ Rl!SymbolReward("hold", t, c) = hold
          /\ Rl!SymbolReward("sell", t, c) = sell
      BY DEF buy, hold, sell
    <3>3. QED
      BY <1>1, <3>1, <3>2, UniformReward
  <2> HIDE DEF n
  <2>5. /\ buy * n > hold * n /\ hold * n < 5000 /\ hold * n >= 0 /\ sell * n < 0
        /\ buy * n \in Int /\ hold * n \in Int /\ sell * n \in Int
    BY <1>2, <2>3
  <2>6. Rl!Clip(buy * n) > Rl!Clip(hold * n) /\ Rl!Clip(sell * n) < 0
    BY <2>5 DEF Rl!Clip
  <2>7. QED
    BY <2>4, <2>6
<1>5. QED
  BY <1>3, <1>4

-----------------------------------------------------------------------------
(* All parts together. *)

VnpyTyped ==
    /\ TypeOK /\ Live!TypeOK /\ Dog!TypeOK /\ StateInv /\ TradesCounted /\ GatewayTyped /\ RlTyped

LEMMA StateIsTyped == StateInv => StateTypeOK
BY DEF StateInv, StateType, StateTypeOK, Values

LEMMA PartsStart == VnpyInit => VnpyTyped
<1> SUFFICES ASSUME VnpyInit PROVE VnpyTyped
  OBVIOUS
<1>1. TypeOK
  <2>1. Init
    BY DEF VnpyInit
  <2>2. \A t \in Threads : plan[t] = <<>> /\ step[t] = "idle"
    BY <2>1 DEF Init
  <2>3. plan \in [Threads -> Seq(PaperOrder)]
    BY <2>1 DEF Init
  <2>4. QED
    <3>1. orders \in 0..MaxOrders /\ starts \in 0..MaxStarts /\ 0 \in Int
      BY <2>1, EngineBounds DEF Init
    <3>2. QED
      BY <2>1, <2>2, <2>3, <3>1 DEF Init, TypeOK
<1>2. Live!TypeOK
  <2>1. Live!Init
    BY DEF VnpyInit
  <2>2. job \in [Callers -> Live!Job] /\ \A c \in Callers : job[c].at = "idle"
    BY <2>1, NoJobType DEF Live!Init
  <2>3. pending \in Seq(Int)
    BY <2>1 DEF Live!Init
  <2>4. QED
    <3>1. lost \in 0..LossLimit /\ sent \in 0..MaxSent /\ local \in Int /\ exchange \in Int
      BY <2>1, LiveNumbers DEF Live!Init
    <3>2. QED
      BY <2>1, <2>2, <2>3, <3>1 DEF Live!Init, Live!TypeOK, Live!Gateways
<1>3. Dog!TypeOK
  <2>1. Dog!Init
    BY DEF VnpyInit
  <2>2. failures \in 0..(MaxFailures - 1) /\ faults \in 0..MaxFaults
    BY <2>1, DogNumbers DEF Dog!Init
  <2>3. QED
    BY <2>1, <2>2 DEF Dog!Init, Dog!TypeOK
<1>4. StateInv
  BY InitState, VnpyAssumption DEF VnpyInit
<1>5. TradesCounted
  BY TrackerStarts DEF VnpyInit
<1>6. GatewayTyped
  BY GatewayStarts DEF VnpyInit
<1>7. RlTyped
  <2>1. Rl!Init
    BY DEF VnpyInit
  <2>2. 0 \in 0..MaxTraining /\ 0 \in 0..SaveEvery /\ 0 \in 0..EpisodeSteps - 1 /\ 0 \in 0..MaxAgents
        /\ Rl!Missing \in Rl!Missing..MaxTraining
    BY AgentNumbers DEF Rl!Missing
  <2>3. QED
    <3>1. Rl!TypeOK
      BY <2>1, <2>2 DEF Rl!Init, Rl!TypeOK
    <3>2. \A p \in Agents : total_steps[p] <= policy[p]
      BY <2>1 DEF Rl!Init
    <3>3. QED
      BY <3>1, <3>2 DEF RlTyped
<1>8. QED
  BY <1>1, <1>2, <1>3, <1>4, <1>5, <1>6, <1>7 DEF VnpyTyped

\* A step of the process is a step or a stutter of each part.
LEMMA StepsOfParts ==
    ASSUME [VnpyNext]_mcVars
    PROVE  /\ [Next]_vnpyVars /\ [Live!Next]_liveAll /\ [Dog!Next]_dogAll /\ [StateNext]_sharedVars
           /\ [TrackerNext]_trackerVars /\ [Gateway!Next]_gatewayAll /\ [Rl!Next]_rlAll
BY DEF VnpyNext, mcVars, EngineTurn, LiveTurn, DogTurn, SharedTurn, TrackerTurn, GatewayTurn, RlTurn

LEMMA PartsKeepType == VnpyTyped /\ [VnpyNext]_mcVars => VnpyTyped'
<1> SUFFICES ASSUME VnpyTyped, [VnpyNext]_mcVars PROVE VnpyTyped'
  OBVIOUS
<1>1. TypeOK' /\ Live!TypeOK' /\ Dog!TypeOK'
  BY StepsOfParts, EngineKeepsType, LiveKeepsType, DogKeepsType DEF VnpyTyped
<1>2. StateInv'
  BY StepsOfParts, StepsKeepState, VnpyAssumption DEF VnpyTyped
<1>3. TradesCounted' /\ GatewayTyped' /\ RlTyped'
  BY StepsOfParts, TrackerKeepsCount, GatewayKeepsType, AgentsKeepType DEF VnpyTyped
<1>4. QED
  BY <1>1, <1>2, <1>3 DEF VnpyTyped

\* The vnpy engine's process is well formed whichever of its parts runs, for any number of
\* threads' orders, restarts, requests and lives; no trade is counted twice (order_tracker.py).
THEOREM VnpyWellFormed == VnpySpec => []VnpyTypeOK
<1>1. VnpyTyped => VnpyTypeOK
  BY StateIsTyped, TrackerType, GatewayType DEF VnpyTyped, VnpyTypeOK, RlTyped
<1>2. QED
  BY <1>1, PartsStart, PartsKeepType, PTL DEF VnpySpec

\* order_tracker.py: the trades that the tracker counts for an order, with those still in the
\* event queue, are at most those that the exchange made, restarts included.
THEOREM NoTradeTwice == VnpySpec => []TradesCounted
<1>1. VnpyTyped => TradesCounted
  BY DEF VnpyTyped
<1>2. QED
  BY <1>1, PartsStart, PartsKeepType, PTL DEF VnpySpec

\* rl_module.py: what TrainingKept says: the parts are well formed, saved training is lost only
\* to a failed load or a second agent, and the reward follows the market both ways.
THEOREM TrainingIsKept == VnpySpec => []TrainingKept
<1>1. Rl!TrainingKept /\ VnpyTypeOK => TrainingKept
  BY FollowingPays DEF TrainingKept
<1>2. QED
  BY <1>1, TrainingSurvives, VnpyWellFormed, PTL
=============================================================================
