---------------------------- MODULE SharedState ----------------------------
(***************************************************************************)
(* shared_state.py: the state that the engine's processes share.           *)
(*                                                                         *)
(* A process keeps a cache of every key it read or wrote, writes through to *)
(* Redis while it has a client, and copies its cache to a backup file once  *)
(* a minute.  A read that finds the key in the cache goes no further.       *)
(* The supervisor runs two processes (API gateway, watchdog) over one Redis *)
(* and one backup directory, and starts a process again when it dies.       *)
(*                                                                         *)
(* The keys are the positions'; those of orders, statuses and the rest are set  *)
(* and got in the same way.  A value is the number of the write that made it;    *)
(* 0 is "no value".                                                           *)
(***************************************************************************)
EXTENDS Integers, FiniteSets

CONSTANTS Processes, Positions, MaxSets, MaxStamp

\* What the constants are assumed to be.
StateAssumption == MaxSets \in Nat /\ MaxStamp \in Nat \ {0}

VARIABLES redis,       \* what Redis holds, for each key
          redisUp,     \* does Redis answer?
          client,      \* has a process a Redis client?
          cache,       \* a process's _local_cache; "down" processes have an empty one
          wrote,       \* history: the last value a running process set itself
          up,          \* is a process running?
          backups,     \* the backup directory: set of files, of which a torn one has no data
          saving,      \* the stamp of the backup that a process is writing or has written, 0 when idle
          stamp,       \* seconds; names a backup file
          sets         \* number of writes so far

sharedVars == <<redis, redisUp, client, cache, wrote, up, backups, saving, stamp, sets>>

Empty == [k \in Positions |-> 0]
File == [stamp : 1..MaxStamp, torn : BOOLEAN, data : [Positions -> 0..MaxSets]]

StateTypeOK ==
    /\ redis \in [Positions -> 0..MaxSets] /\ redisUp \in BOOLEAN
    /\ client \in [Processes -> BOOLEAN] /\ up \in [Processes -> BOOLEAN]
    /\ cache \in [Processes -> [Positions -> 0..MaxSets]]
    /\ wrote \in [Processes -> [Positions -> 0..MaxSets]]
    /\ \A f \in backups : f \in File
    /\ saving \in [Processes -> 0..MaxStamp] /\ stamp \in 1..MaxStamp /\ sets \in 0..MaxSets

\* _load_state_backup: the newest file replaces the cache; one that does not parse
\* leaves it empty, however good an older one is.
Loaded ==
    IF backups = {} THEN Empty
    ELSE LET newest == CHOOSE f \in backups : \A g \in backups : g.stamp <= f.stamp
         IN  IF newest.torn THEN Empty ELSE newest.data

StateInit ==
    /\ redis = Empty /\ redisUp = TRUE /\ client = [p \in Processes |-> FALSE]
    /\ cache = [p \in Processes |-> Empty] /\ wrote = [p \in Processes |-> Empty]
    /\ up = [p \in Processes |-> FALSE]
    /\ backups = {} /\ saving = [p \in Processes |-> 0] /\ stamp = 1 /\ sets = 0

-----------------------------------------------------------------------------
\* SharedState(): connect, then let the latest backup be the cache.  (The keys
\* "state:*" that _restore_from_redis asks for are written by nobody.)
StartProcess(p) ==
    /\ ~up[p]
    /\ up' = [up EXCEPT ![p] = TRUE]
    /\ client' = [client EXCEPT ![p] = redisUp]
    /\ cache' = [cache EXCEPT ![p] = Loaded]
    /\ UNCHANGED <<redis, redisUp, wrote, backups, saving, stamp, sets>>

\* The process dies; a backup that it was writing stays torn.
Crash(p) ==
    /\ up[p]
    /\ up' = [up EXCEPT ![p] = FALSE]
    /\ client' = [client EXCEPT ![p] = FALSE]
    /\ cache' = [cache EXCEPT ![p] = Empty] /\ wrote' = [wrote EXCEPT ![p] = Empty]
    /\ saving' = [saving EXCEPT ![p] = 0]
    /\ UNCHANGED <<redis, redisUp, backups, stamp, sets>>

RedisFails == redisUp /\ redisUp' = FALSE
    /\ UNCHANGED <<redis, client, cache, wrote, up, backups, saving, stamp, sets>>
RedisReturns == ~redisUp /\ redisUp' = TRUE
    /\ UNCHANGED <<redis, client, cache, wrote, up, backups, saving, stamp, sets>>

\* _reconnect_loop: only a process without a client tries, and a failed call does
\* not take the client away.
Reconnect(p) ==
    /\ up[p] /\ ~client[p] /\ redisUp
    /\ client' = [client EXCEPT ![p] = TRUE]
    /\ UNCHANGED <<redis, redisUp, cache, wrote, up, backups, saving, stamp, sets>>

Reaches(p) == client[p] /\ redisUp

\* _redis_set, under set_position, set_order, set_system_status and the like.
Set(p, k) ==
    /\ up[p] /\ sets < MaxSets
    /\ sets' = sets + 1
    /\ redis' = IF Reaches(p) THEN [redis EXCEPT ![k] = sets'] ELSE redis
    /\ cache' = [cache EXCEPT ![p][k] = sets'] /\ wrote' = [wrote EXCEPT ![p][k] = sets']
    /\ UNCHANGED <<redisUp, client, up, backups, saving, stamp>>

\* _redis_get, asking Redis before the cache.
GotFromRedis(p, k) == IF Reaches(p) THEN redis[k] ELSE cache[p][k]

\* _redis_get: what the caller is given.
Got(p, k) == IF cache[p][k] # 0 THEN cache[p][k]
             ELSE IF Reaches(p) THEN redis[k] ELSE 0

\* _redis_get, under get_position, get_system_status and the like: what Redis
\* answers is cached.
Get(p, k) ==
    /\ up[p]
    /\ cache' = [cache EXCEPT ![p][k] = Got(p, k)]
    /\ UNCHANGED <<redis, redisUp, client, wrote, up, backups, saving, stamp, sets>>

\* get_all_positions: the keys are Redis's, the values the cache's where it has
\* them.  Without Redis there are no positions (no client) or an exception.
AllPositions(p) == {k \in Positions : Reaches(p) /\ redis[k] # 0}
GetAllPositions(p) ==
    /\ up[p] /\ AllPositions(p) # {}
    /\ cache' = [cache EXCEPT ![p] = [k \in Positions |->
                     IF k \in AllPositions(p) THEN Got(p, k) ELSE cache[p][k]]]
    /\ UNCHANGED <<redis, redisUp, client, wrote, up, backups, saving, stamp, sets>>

-----------------------------------------------------------------------------
\* The newer files of the directory, with one in place of any of the same name.
Put(f) == {g \in backups : g.stamp # f.stamp} \cup {f}

\* _save_state_backup opens (and empties) this second's file ...
OpenBackup(p) ==
    /\ up[p] /\ saving[p] = 0 /\ cache[p] # Empty
    /\ backups' = Put([stamp |-> stamp, torn |-> TRUE, data |-> Empty])
    /\ saving' = [saving EXCEPT ![p] = stamp]
    /\ UNCHANGED <<redis, redisUp, client, cache, wrote, up, stamp, sets>>

\* ... writes it, and removes every other backup.  (Two steps: another process
\* may do the same in between.)
WriteBackup(p) ==
    /\ up[p] /\ saving[p] # 0
    /\ \E f \in backups : f.stamp = saving[p] /\ f.torn
    /\ backups' = Put([stamp |-> saving[p], torn |-> FALSE, data |-> cache[p]])
    /\ UNCHANGED <<redis, redisUp, client, cache, wrote, up, saving, stamp, sets>>

PruneBackups(p) ==
    /\ up[p] /\ saving[p] # 0
    /\ ~\E f \in backups : f.stamp = saving[p] /\ f.torn
    /\ backups' = {f \in backups : f.stamp = saving[p]}
    /\ saving' = [saving EXCEPT ![p] = 0]
    /\ UNCHANGED <<redis, redisUp, client, cache, wrote, up, stamp, sets>>

Second == stamp < MaxStamp /\ stamp' = stamp + 1
    /\ UNCHANGED <<redis, redisUp, client, cache, wrote, up, backups, saving, sets>>

StateNext ==
    \/ \E p \in Processes :
         \/ StartProcess(p) \/ Crash(p) \/ Reconnect(p) \/ GetAllPositions(p)
         \/ OpenBackup(p) \/ WriteBackup(p) \/ PruneBackups(p)
         \/ \E k \in Positions : Set(p, k) \/ Get(p, k)
    \/ RedisFails \/ RedisReturns \/ Second

-----------------------------------------------------------------------------
StateSpec == StateInit /\ [][StateNext]_sharedVars

\* Read your writes: a process that set a key is never given an older value of it,
\* though Redis missed the write or was down when it was made.
ReadYourWrites == \A p \in Processes, k \in Positions : up[p] => Got(p, k) >= wrote[p][k]
=============================================================================
