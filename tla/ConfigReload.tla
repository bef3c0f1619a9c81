---------------------------- MODULE ConfigReload ----------------------------
(***************************************************************************)
(* ConfigReload and ConfigManager: a watch loop looks at the file's         *)
(* modification time, anybody may call reload_config, and the components'   *)
(* callbacks apply the keys that changed.  Nothing is locked; the file is   *)
(* read first and its time is taken afterwards.                             *)
(*                                                                         *)
(* A configuration is abstracted to its value at each watched key.          *)
(***************************************************************************)
EXTENDS Integers

CONSTANTS
    Keys,           \* registered by register_component_config
    Watcher, User,  \* the watch loop, and a caller of reload_config
    MaxWrites       \* bound on the writes to the file

ReloadAssumption == MaxWrites \in Nat

VARIABLES
    file,           \* [content, mtime]
    config,         \* ConfigReload.config
    modified,       \* last_modified
    watching,       \* running
    reloader,       \* [thread -> where it is in reload_config]
    applied,        \* what the components last applied, by key
    raced           \* history: a reload overlapped a write or another reload

vars == <<file, config, modified, watching, reloader, applied, raced>>

\* The contents: configurations, a file with nothing in it (safe_load gives None)
\* and one that does not parse.
Unparsable == [k \in Keys |-> "unparsable"]
None == [k \in Keys |-> "absent"]
Configs == [Keys -> {"old", "new"}]
Contents == Configs \cup {None, Unparsable}

Threads == {Watcher, User}
Idle == [at |-> "idle", got |-> None, had |-> None]
Busy(t) == reloader[t].at # "idle"

-----------------------------------------------------------------------------
\* start_watching does not look whether it is running; the loop of a second call
\* does what User does.
StartWatching ==
    /\ watching' = TRUE
    /\ UNCHANGED <<file, config, modified, reloader, applied, raced>>

StopWatching ==
    /\ watching' = FALSE
    /\ UNCHANGED <<file, config, modified, reloader, applied, raced>>

\* reload_config: open and parse.  A file that does not parse ends the call.
Read(t) ==
    /\ reloader[t].at = "idle"
    /\ raced' = (raced \/ \E u \in Threads : Busy(u))
    /\ reloader' = IF file.content = Unparsable THEN reloader
                   ELSE [reloader EXCEPT ![t] = [at |-> "read", got |-> file.content,
                                                 had |-> None]]
    /\ UNCHANGED <<file, config, modified, watching, applied>>

\* _check_for_changes, by the loop.
CheckForChanges ==
    /\ watching /\ file.mtime > modified
    /\ Read(Watcher)

ReloadConfig == Read(User)

\* The copy of the old configuration raises when that is None, and the call ends.
Swap(t) ==
    /\ reloader[t].at = "read"
    /\ IF config = None
       THEN reloader' = [reloader EXCEPT ![t] = Idle] /\ UNCHANGED <<config, modified>>
       ELSE /\ config' = reloader[t].got
            /\ modified' = file.mtime
            /\ reloader' = [reloader EXCEPT ![t] = [@ EXCEPT !.at = "swapped", !.had = config]]
    /\ UNCHANGED <<file, watching, applied, raced>>

\* The callbacks: _apply_component_config for every key that differs.
Apply(t) ==
    /\ reloader[t].at = "swapped"
    /\ applied' = [k \in Keys |->
                     IF reloader[t].got[k] = reloader[t].had[k] THEN applied[k]
                     ELSE reloader[t].got[k]]
    /\ reloader' = [reloader EXCEPT ![t] = Idle]
    /\ UNCHANGED <<file, config, modified, watching, raced>>

\* Somebody edits the file.
Write ==
    /\ file.mtime < MaxWrites
    /\ \E c \in Contents : file' = [content |-> c, mtime |-> file.mtime + 1]
    /\ raced' = (raced \/ \E t \in Threads : reloader[t].at = "read")
    /\ UNCHANGED <<config, modified, watching, reloader, applied>>

\* load_config at start; the components start from what it returns.
Init ==
    /\ config = [k \in Keys |-> "old"]
    /\ file = [content |-> config, mtime |-> 0]
    /\ applied = config
    /\ modified = 0
    /\ watching = FALSE
    /\ reloader = [t \in Threads |-> Idle]
    /\ raced = FALSE

Next ==
    \/ StartWatching
    \/ StopWatching
    \/ CheckForChanges
    \/ ReloadConfig
    \/ \E t \in Threads : Swap(t) \/ Apply(t)
    \/ Write

Fairness ==
    /\ WF_vars(CheckForChanges)
    /\ \A t \in Threads : WF_vars(Swap(t)) /\ WF_vars(Apply(t))

-----------------------------------------------------------------------------
TypeOK ==
    /\ file.content \in Contents /\ file.mtime \in 0 .. MaxWrites
    /\ modified \in Nat
    /\ config \in Configs \cup {None}
    /\ applied \in [Keys -> {"old", "new", "absent"}]

\* Hot reload as far as the code gives it: once editing stops, the components end up
\* with the content of the file, unless a reload overlapped a write or another reload,
\* the file does not parse, or an empty file was read before (see Swap).
CatchesUp ==
    []<>(\/ ~watching \/ raced \/ file.content = Unparsable \/ config = None
         \/ applied = file.content)
=============================================================================
