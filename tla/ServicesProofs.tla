--------------------------- MODULE ServicesProofs ---------------------------
(* Theorems about the parts of MCServices, for every value of their constants. *)
EXTENDS MCServices, SequenceTheorems, FiniteSetTheorems, TLAPS

-----------------------------------------------------------------------------
(* The engine's start and stop. *)

NoLoop == \A l \in Loops : ~Live(l)
Whole == connected /\ started > 0 /\ Live(started)

\* What a controller that is alone finds at a program point, idle if nobody is busy.
Finds(at) ==
    /\ at \in {"start", "set_running"} => ~running /\ NoLoop
    /\ at \in {"connect", "spawn"} => running /\ NoLoop
    /\ at = "spawn" => connected
    /\ at \in {"idle", "stop"} => IF running THEN Whole ELSE NoLoop /\ (started > 0 => ~exposed)
    /\ at = "clear_running" => running /\ Whole
    /\ at = "join" => ~running
    /\ at \in {"disconnect", "close"} => ~running /\ NoLoop

OneController == \A c, d \in Controllers : pc[c] # "idle" /\ pc[d] # "idle" => c = d
LatestLoop == \A l \in Loops : Live(l) => l = started

LifeInv ==
    /\ TypeOK
    /\ disorder \in BOOLEAN
    /\ ~disorder =>
         /\ OneController /\ LatestLoop
         /\ \A c \in Controllers : pc[c] # "idle" => Finds(pc[c])
         /\ Quiet => Finds("idle")

\* A controller's own step, of a controller that is alone.
LEMMA ControllerMoves ==
    ASSUME NEW c \in Controllers, NEW next, pc \in [Controllers -> ControlPCs], OneController,
           pc[c] # "idle", Goto(c, next)
    PROVE  /\ \A d \in Controllers : pc'[d] = IF d = c THEN next ELSE "idle"
           /\ OneController' /\ (Quiet' => next = "idle")
BY DEF Goto, OneController, Quiet

LEMMA RequestKeepsLife ==
    ASSUME LifeInv, NEW c \in Controllers, Request(c), disorder' = (disorder \/ ~Quiet)
    PROVE  LifeInv'
<1>1. PICK next \in {"start", "stop"} :
        /\ pc[c] = "idle" /\ Goto(c, next) /\ UNCHANGED <<running, update_thread, loop, started, connected>>
        /\ exposed' = (exposed /\ exposed') /\ exposed' \in BOOLEAN
        /\ IF next = "start" THEN ~running /\ exposed' = exposed ELSE running \/ ~exposed'
    BY DEF LifeInv, TypeOK, Request, RequestStart, RequestStop, TriggerEmergencyStop
<1>2. TypeOK' /\ disorder' \in BOOLEAN
    BY <1>1 DEF LifeInv, TypeOK, ControlPCs, Goto
<1>3. SUFFICES ASSUME ~disorder'
               PROVE  /\ OneController' /\ LatestLoop'
                      /\ \A d \in Controllers : pc'[d] # "idle" => Finds(pc[d])'
                      /\ Quiet' => Finds("idle")'
    BY <1>2 DEF LifeInv
<1>4. ~disorder /\ Quiet /\ Finds("idle") /\ LatestLoop
  <2>1. ~disorder /\ Quiet
      BY <1>3
  <2> QED
      BY <2>1 DEF LifeInv
<1>5. \A d \in Controllers : pc'[d] = IF d = c THEN next ELSE "idle"
    BY <1>1, <1>4 DEF Goto, Quiet, LifeInv, TypeOK
<1>6. OneController' /\ ~Quiet' /\ LatestLoop'
    BY <1>1, <1>4, <1>5 DEF OneController, Quiet, LatestLoop, Live
<1>7. Finds(next)'
  <2>1. CASE next = "start"
      BY <1>1, <1>4, <2>1 DEF Finds, NoLoop, Live
  <2>2. CASE next = "stop"
      BY <1>1, <1>4, <2>2 DEF Finds, NoLoop, Whole, Live
  <2> QED
      BY <2>1, <2>2
<1> QED
    BY <1>5, <1>6, <1>7

LEMMA ControlKeepsLife ==
    ASSUME ServicesAssumption, LifeInv, NEW c \in Controllers, Control(c)
    PROVE  LifeInv'
<1>1. /\ pc \in [Controllers -> ControlPCs] /\ started \in 0..MaxStarts /\ update_thread = started
      /\ MaxStarts \in Nat \ {0} /\ disorder \in BOOLEAN
    BY DEF LifeInv, TypeOK, ServicesAssumption, LifecycleAssumption
<1>2. TypeOK' /\ disorder' \in BOOLEAN
  <2>1. CASE Spawn(c)
      BY <1>1, <2>1 DEF Spawn, Control, Work, Join, LifeInv, TypeOK, Goto, LoopGoto, ControlPCs, LoopPCs, Loops
  <2> QED
      BY <1>1, <2>1 DEF Control, Work, StartCheck, SetRunning, Connect, Spawn, StopCheck, ClearRunning, Disconnect,
                        CloseAllPositions, Join, Goto, LifeInv, TypeOK, ControlPCs
<1>3. SUFFICES ASSUME ~disorder'
               PROVE  /\ OneController' /\ LatestLoop'
                      /\ \A d \in Controllers : pc'[d] # "idle" => Finds(pc[d])'
                      /\ Quiet' => Finds("idle")'
    BY <1>2 DEF LifeInv
<1>4. pc[c] # "idle" /\ ~disorder
  <2>1. pc[c] # "idle"
      BY DEF Control, Work, StartCheck, SetRunning, Connect, Spawn, StopCheck, ClearRunning, Disconnect,
             CloseAllPositions, Join
  <2>2. CASE UNCHANGED disorder
      BY <1>3, <2>1, <2>2
  <2>3. CASE Join(c)
      BY <1>3, <2>1, <2>3 DEF Join
  <2> QED
      BY <2>2, <2>3 DEF Control
<1>5. OneController /\ LatestLoop /\ Finds(pc[c])
    BY <1>4 DEF LifeInv
<1>6. ASSUME NEW next, Goto(c, next), LatestLoop', Finds(next)'
      PROVE  /\ OneController' /\ LatestLoop'
             /\ \A d \in Controllers : pc'[d] # "idle" => Finds(pc[d])'
             /\ Quiet' => Finds("idle")'
    BY <1>1, <1>4, <1>5, <1>6, ControllerMoves
<1>7. CASE StartCheck(c)
  <2>1. /\ Goto(c, "set_running") /\ pc[c] = "start"
        /\ UNCHANGED <<running, started, loop, exposed, connected>>
      BY <1>5, <1>7 DEF StartCheck, Finds
  <2>2. LatestLoop' /\ Finds("set_running")'
      BY <1>5, <2>1 DEF LatestLoop, Live, Finds, NoLoop
  <2> QED
      BY <1>6, <2>1, <2>2
<1>8. CASE SetRunning(c) \/ Connect(c)
  <2>1. PICK next : Goto(c, next) /\ UNCHANGED <<started, loop, exposed>>
                    /\ \/ pc[c] = "set_running" /\ next = "connect" /\ running' = TRUE
                       \/ pc[c] = "connect" /\ next = "spawn" /\ connected' = TRUE /\ running' = running
      BY <1>8 DEF SetRunning, Connect
  <2>2. LatestLoop' /\ Finds(next)'
      BY <1>5, <2>1 DEF LatestLoop, Live, Finds, NoLoop
  <2> QED
      BY <1>6, <2>1, <2>2
<1>9. CASE Spawn(c)
  <2>1. /\ Goto(c, "idle") /\ started' = started + 1 /\ pc[c] = "spawn" /\ started + 1 \in Loops
        /\ loop' = [loop EXCEPT ![started + 1] = "test"] /\ UNCHANGED <<running, connected>>
        /\ loop \in [Loops -> LoopPCs]
      BY <1>1, <1>9 DEF Spawn, LoopGoto, Loops, LifeInv, TypeOK
  <2>2. \A l \in Loops : loop'[l] = IF l = started + 1 THEN "test" ELSE loop[l]
      BY <2>1
  <2>3. LatestLoop' /\ Finds("idle")'
      BY <1>1, <1>5, <2>1, <2>2 DEF LatestLoop, Live, Finds, NoLoop, Whole
  <2> QED
      BY <1>6, <2>1, <2>3
<1>10. CASE StopCheck(c) \/ ClearRunning(c)
  <2>1. PICK next : Goto(c, next) /\ UNCHANGED <<started, loop, exposed, connected>>
                    /\ \/ pc[c] = "stop" /\ next = (IF running THEN "clear_running" ELSE "idle") /\ running' = running
                       \/ pc[c] = "clear_running" /\ next = "join" /\ ~running'
      BY <1>10 DEF StopCheck, ClearRunning
  <2>2. LatestLoop' /\ Finds(next)'
      BY <1>5, <2>1 DEF LatestLoop, Live, Finds, NoLoop, Whole
  <2> QED
      BY <1>6, <2>1, <2>2
<1>11. CASE Join(c)
  <2>1. /\ Goto(c, "disconnect") /\ pc[c] = "join" /\ UNCHANGED <<started, loop, running>>
        /\ ~(update_thread # 0 /\ Live(update_thread))
      BY <1>3, <1>11 DEF Join
  <2>2. LatestLoop' /\ Finds("disconnect")'
      BY <1>1, <1>5, <2>1 DEF LatestLoop, Live, Finds, NoLoop, Whole, Loops
  <2> QED
      BY <1>6, <2>1, <2>2
<1>12. CASE Disconnect(c) \/ CloseAllPositions(c)
  <2>1. PICK next : Goto(c, next) /\ UNCHANGED <<started, loop, running>>
                    /\ \/ pc[c] = "disconnect" /\ next = "close"
                       \/ pc[c] = "close" /\ next = "idle" /\ ~exposed'
      BY <1>12 DEF Disconnect, CloseAllPositions
  <2>2. LatestLoop' /\ Finds(next)'
      BY <1>5, <2>1 DEF LatestLoop, Live, Finds, NoLoop, Whole
  <2> QED
      BY <1>6, <2>1, <2>2
<1> QED
    BY <1>7, <1>8, <1>9, <1>10, <1>11, <1>12 DEF Control, Work

LEMMA LoopKeepsLife ==
    ASSUME ServicesAssumption, LifeInv, NEW l \in Loops, Loop(l), UNCHANGED disorder
    PROVE  LifeInv'
<1>1. PICK next \in LoopPCs :
        /\ loop[l] \notin {"none", "dead"} /\ LoopGoto(l, next) /\ next # "none"
        /\ UNCHANGED <<running, update_thread, started, connected, pc>>
        /\ exposed' \in BOOLEAN /\ (running => next # "dead")
    BY DEF LifeInv, TypeOK, Loop, LoopTest, Signal, OrderReturns, Manage, WakeUp, LoopPCs
<1>2. /\ loop \in [Loops -> LoopPCs] /\ \A m \in Loops : loop'[m] = IF m = l THEN next ELSE loop[m]
      /\ loop' \in [Loops -> LoopPCs]
    BY <1>1 DEF LifeInv, TypeOK, LoopGoto
<1>3. TypeOK'
    BY <1>1, <1>2 DEF LifeInv, TypeOK
<1>4. SUFFICES ASSUME ~disorder'
               PROVE  /\ OneController' /\ LatestLoop'
                      /\ \A d \in Controllers : pc'[d] # "idle" => Finds(pc[d])'
                      /\ Quiet' => Finds("idle")'
    BY <1>3 DEF LifeInv
<1>5. /\ OneController /\ LatestLoop /\ \A d \in Controllers : pc[d] # "idle" => Finds(pc[d])
      /\ Quiet => Finds("idle")
    BY <1>4 DEF LifeInv
<1>6. LatestLoop' /\ Live(l) /\ l = started /\ started \in Nat
    BY <1>1, <1>2, <1>5 DEF LatestLoop, Live, LifeInv, TypeOK
<1>7. ASSUME NEW at, Finds(at) PROVE Finds(at)'
    BY <1>1, <1>2, <1>6, <1>7 DEF Finds, NoLoop, Whole, Live
<1> QED
    BY <1>1, <1>5, <1>6, <1>7 DEF OneController, Quiet

LEMMA LifeKept == ASSUME ServicesAssumption, LifeInv, [ServicesNext]_servicesVars PROVE LifeInv'
<1>1. CASE UNCHANGED vars
    BY <1>1 DEF vars, LifeInv, TypeOK, OneController, LatestLoop, Quiet, Finds, NoLoop, Whole, Live
<1>2. CASE Next
    BY <1>2, RequestKeepsLife, ControlKeepsLife, LoopKeepsLife DEF Next
<1> QED
    BY <1>1, <1>2 DEF ServicesNext, servicesVars, EngineTurn, HarnessTurn, BusTurn

LEMMA LifeStarts == ASSUME ServicesAssumption, ServicesInit PROVE LifeInv
<1>1. Init
    BY DEF ServicesInit
<1>2. TypeOK /\ disorder = FALSE
  <2>1. MaxStarts \in Nat \ {0}
      BY DEF ServicesAssumption, LifecycleAssumption
  <2>2. loop \in [Loops -> LoopPCs] /\ \A l \in Loops : loop[l] = "none" /\ l > 0
      BY <1>1, <2>1 DEF Init, Loops, LoopPCs
  <2>3. pc \in [Controllers -> ControlPCs]
      BY <1>1 DEF Init, ControlPCs
  <2>4. started \in 0..MaxStarts /\ update_thread = started /\ \A l \in Loops : l > started
      BY <1>1, <2>1, <2>2 DEF Init
  <2>5. running \in BOOLEAN /\ connected \in BOOLEAN /\ exposed \in BOOLEAN /\ disorder = FALSE
      BY <1>1 DEF Init
  <2> QED
      BY <2>2, <2>3, <2>4, <2>5 DEF TypeOK
<1>3. OneController /\ LatestLoop /\ NoLoop /\ \A c \in Controllers : pc[c] = "idle"
    BY <1>1 DEF Init, OneController, LatestLoop, NoLoop, Live
<1>4. Finds("idle")
    BY <1>1, <1>3 DEF Init, Finds
<1> QED
    BY <1>2, <1>3, <1>4 DEF LifeInv

LEMMA EngineOrdered ==
    ASSUME LifeInv
    PROVE  OneLoopInOrder /\ StoppedIsFlat /\ RunningIsComplete
<1>1. started \in Nat /\ update_thread = started
    BY DEF LifeInv, TypeOK
<1>2. OneLoopInOrder
  <2> SUFFICES ASSUME ~disorder PROVE OneUpdateLoop
      BY DEF OneLoopInOrder
  <2>1. {l \in Loops : Live(l)} \subseteq {started}
      BY DEF LifeInv, LatestLoop
  <2>2. /\ Cardinality({l \in Loops : Live(l)}) <= Cardinality({started})
        /\ Cardinality({started}) = 1 /\ Cardinality({l \in Loops : Live(l)}) \in Nat
      BY <2>1, FS_Subset, FS_Singleton, FS_CardinalityType
  <2> QED
      BY <2>2 DEF OneUpdateLoop
<1>3. StoppedIsFlat /\ RunningIsComplete
    BY <1>1 DEF LifeInv, Finds, Whole, StoppedIsFlat, RunningIsComplete
<1> QED
    BY <1>2, <1>3

-----------------------------------------------------------------------------
(* The harness. *)

\* A thread is inside the lock in one call at most, and the main thread waits below all of its calls.
InLock(stack, i) == stack[i] \in Harness!LockedPoints
Stack(stack) ==
    /\ stack \in Seq(Harness!Points)
    /\ \A i, j \in 1..Len(stack) : InLock(stack, i) /\ InLock(stack, j) => i = j
    /\ \A i \in 1..Len(stack) : stack[i] \in {"wait", "exited"} => i = Len(stack)
HasLock(stack) == \E i \in 1..Len(stack) : InLock(stack, i)

\* What a call finds at a point; the others may be anywhere.
Meets(point) ==
    /\ point \in {"stopping", "starting"} => (harness_running <=> updating # {})
    /\ point \in {"engine_stop", "engine_start"} => ~harness_running
    /\ point = "engine_start" => updating = {}

HarnessType ==
    /\ harness_running \in BOOLEAN /\ touched \in BOOLEAN
    /\ lock \in Harness!Threads \cup {NoOne}
    /\ engine \in Harness!Engines /\ dash \in 1..engine /\ updating \subseteq 1..engine
    /\ signals \in 0..MaxSignals
    /\ frames = [t \in Harness!Threads |-> frames[t]]
    /\ \A t \in Harness!Threads : Stack(frames[t]) /\ (lock = t <=> HasLock(frames[t]))

HarnessInv ==
    /\ HarnessType
    /\ ~touched =>
         /\ updating \subseteq {engine}
         /\ lock = NoOne => (harness_running <=> updating # {})
         /\ \A t \in Harness!Threads : \A i \in 1..Len(frames[t]) : Meets(frames[t][i])

\* A call on top of the others, at a point outside the lock.
LEMMA StackCalls ==
    ASSUME NEW s, Stack(s), NEW point \in {"stop", "start"}
    PROVE  LET new == <<point>> \o s
           IN  /\ Stack(new) /\ (HasLock(new) <=> HasLock(s))
               /\ Len(new) = Len(s) + 1 /\ new[1] = point
               /\ \A i \in 1..Len(new) : i # 1 => i - 1 \in 1..Len(s) /\ new[i] = s[i - 1]
<1> DEFINE new == <<point>> \o s
<1>1. s \in Seq(Harness!Points) /\ <<point>> \in Seq(Harness!Points) /\ Len(s) \in Nat
      /\ point \notin Harness!LockedPoints
    BY LenProperties DEF Stack, Harness!Points, Harness!LockedPoints
<1>2. /\ new \in Seq(Harness!Points) /\ Len(new) = Len(s) + 1 /\ new[1] = point
      /\ \A i \in 1..Len(s) : new[i + 1] = s[i]
    BY <1>1, ConcatProperties
<1> HIDE DEF new
<1>3. ASSUME NEW i \in 1..Len(new), InLock(new, i) PROVE i - 1 \in 1..Len(s) /\ InLock(s, i - 1)
    BY <1>1, <1>2, <1>3 DEF InLock
<1>4. ASSUME NEW i \in 1..Len(s), InLock(s, i) PROVE i + 1 \in 1..Len(new) /\ InLock(new, i + 1)
    BY <1>1, <1>2, <1>4 DEF InLock
<1>5. \A i \in 1..Len(new) : i # 1 => i - 1 \in 1..Len(s) /\ new[i] = s[i - 1]
  <2> TAKE i \in 1..Len(new)
  <2> HAVE i # 1
  <2>1. PICK j \in 1..Len(s) : i = j + 1
      BY <1>1, <1>2
  <2> QED
      BY <1>2, <2>1
<1>6. Stack(new)
  <2>1. ASSUME NEW i \in 1..Len(new), new[i] \in {"wait", "exited"} PROVE i = Len(new)
    <3>1. i # 1 /\ i - 1 = Len(s)
        BY <1>1, <1>2, <1>5, <2>1 DEF Stack
    <3> QED
        BY <1>1, <1>2, <2>1, <3>1
  <2>2. ASSUME NEW i \in 1..Len(new), NEW j \in 1..Len(new), InLock(new, i), InLock(new, j) PROVE i = j
      BY <1>1, <1>3, <2>2 DEF Stack
  <2> QED
      BY <1>2, <2>1, <2>2 DEF Stack
<1>7. HasLock(new) <=> HasLock(s)
    BY <1>3, <1>4 DEF HasLock
<1> QED
    BY <1>2, <1>5, <1>6, <1>7 DEF new

\* The innermost call returns.
LEMMA StackReturns ==
    ASSUME NEW s, Stack(s), s # <<>>
    PROVE  LET new == Tail(s)
           IN  /\ Stack(new) /\ Len(s) \in Nat \ {0} /\ Len(new) = Len(s) - 1
               /\ \A i \in 1..Len(new) : new[i] = s[i + 1]
               /\ InLock(s, 1) => ~HasLock(new)
<1> DEFINE new == Tail(s)
<1>1. s \in Seq(Harness!Points) /\ Len(s) \in Nat /\ Len(s) # 0
    BY LenProperties, EmptySeq DEF Stack
<1>2. /\ new \in Seq(Harness!Points) /\ Len(new) = Len(s) - 1
      /\ \A i \in 1..Len(new) : new[i] = s[i + 1]
    BY <1>1, HeadTailProperties
<1> HIDE DEF new
<1>3. ASSUME NEW i \in 1..Len(new), InLock(new, i) PROVE i + 1 \in 1..Len(s) /\ InLock(s, i + 1)
    BY <1>1, <1>2, <1>3 DEF InLock
<1>4. Stack(new)
    BY <1>1, <1>2, <1>3 DEF Stack
<1>5. InLock(s, 1) => ~HasLock(new)
    BY <1>1, <1>2, <1>3 DEF HasLock, Stack
<1> QED
    BY <1>1, <1>2, <1>4, <1>5 DEF new

\* The innermost call goes on to another point: outside the lock it may enter it if the thread
\* does not have it, and inside it stays there.
LEMMA StackGoesOn ==
    ASSUME NEW s, Stack(s), s # <<>>, NEW point \in Harness!LockedPoints,
           InLock(s, 1) \/ ~HasLock(s), s[1] \notin {"wait", "exited"}
    PROVE  LET new == <<point>> \o Tail(s)
           IN  /\ Stack(new) /\ HasLock(new) /\ Len(new) = Len(s) /\ new[1] = point
               /\ \A i \in 1..Len(s) : i # 1 => new[i] = s[i] /\ ~InLock(new, i)
<1> DEFINE new == <<point>> \o Tail(s)
<1>1. s \in Seq(Harness!Points) /\ Len(s) \in Nat /\ Len(s) # 0 /\ <<point>> \in Seq(Harness!Points)
    BY LenProperties, EmptySeq DEF Stack, Harness!LockedPoints, Harness!Points
<1>2. /\ Tail(s) \in Seq(Harness!Points) /\ Len(Tail(s)) = Len(s) - 1
      /\ \A i \in 1..Len(Tail(s)) : Tail(s)[i] = s[i + 1]
    BY <1>1, HeadTailProperties
<1>3. /\ new \in Seq(Harness!Points) /\ Len(new) = Len(s) /\ new[1] = point
      /\ \A i \in 2..Len(s) : new[i] = Tail(s)[i - 1]
    BY <1>1, <1>2, ConcatProperties
<1> HIDE DEF new
<1>4. \A i \in 1..Len(s) : i # 1 => new[i] = s[i]
    BY <1>1, <1>2, <1>3
<1>5. \A i \in 1..Len(s) : i # 1 => ~InLock(s, i)
    BY <1>1 DEF Stack, HasLock
<1>6. point \notin {"wait", "exited"}
    BY DEF Harness!LockedPoints
<1>7. Stack(new) /\ HasLock(new)
    BY <1>1, <1>3, <1>4, <1>5, <1>6 DEF Stack, HasLock, InLock
<1>8. \A i \in 1..Len(s) : i # 1 => ~InLock(new, i)
    BY <1>1, <1>4, <1>5 DEF InLock
<1> QED
    BY <1>3, <1>4, <1>7, <1>8 DEF new

\* One thread's stack changes.
LEMMA ThreadMoves ==
    ASSUME ServicesAssumption, HarnessInv, NEW t \in Harness!Threads, NEW new, Stack(new),
           frames' = [frames EXCEPT ![t] = new],
           HasLock(new) => lock \in {NoOne, t} /\ lock' = t,
           ~HasLock(new) => lock' = IF lock = t THEN NoOne ELSE lock
    PROVE  /\ \A u \in Harness!Threads : frames'[u] = IF u = t THEN new ELSE frames[u]
           /\ frames' = [u \in Harness!Threads |-> frames'[u]]
           /\ lock' \in Harness!Threads \cup {NoOne}
           /\ \A u \in Harness!Threads : Stack(frames'[u]) /\ (lock' = u <=> HasLock(frames'[u]))
<1>1. NoOne \notin Harness!Threads
    BY DEF ServicesAssumption, Harness!HarnessAssumption, Harness!Threads
<1>2. /\ frames = [u \in Harness!Threads |-> frames[u]] /\ lock \in Harness!Threads \cup {NoOne}
      /\ \A u \in Harness!Threads : Stack(frames[u]) /\ (lock = u <=> HasLock(frames[u]))
    BY DEF HarnessInv, HarnessType
<1>3. \A u \in Harness!Threads : frames'[u] = IF u = t THEN new ELSE frames[u]
    BY <1>2
<1>4. frames' = [u \in Harness!Threads |-> frames'[u]] /\ lock' \in Harness!Threads \cup {NoOne}
    BY <1>2
<1>5. ASSUME NEW u \in Harness!Threads
      PROVE  Stack(frames'[u]) /\ (lock' = u <=> HasLock(frames'[u]))
  <2>1. CASE u = t
    <3>1. frames'[u] = new
        BY <1>3, <2>1
    <3>2. lock' = t <=> HasLock(new)
        BY <1>1
    <3> QED
        BY <2>1, <3>1, <3>2
  <2>2. CASE u # t
    <3>1. frames'[u] = frames[u]
        BY <1>3, <2>2
    <3>2. lock' = u <=> lock = u
        BY <1>1, <2>2
    <3> QED
        BY <1>2, <3>1, <3>2
  <2> QED
      BY <2>1, <2>2
<1> QED
    BY <1>3, <1>4, <1>5

\* A call is made: the lock and the engines stay as they are.
LEMMA CallKeepsHarness ==
    ASSUME ServicesAssumption, HarnessInv, NEW t \in Harness!Threads, NEW point \in {"stop", "start"},
           Harness!Call(t, <<point>>), signals' \in 0..MaxSignals,
           UNCHANGED <<harness_running, lock, engine, dash, updating, touched>>
    PROVE  HarnessInv'
<1> DEFINE new == <<point>> \o frames[t]
<1>1. frames' = [frames EXCEPT ![t] = new] /\ Stack(frames[t]) /\ (lock = t <=> HasLock(frames[t]))
    BY DEF Harness!Call, HarnessInv, HarnessType
<1>2. /\ Stack(new) /\ (HasLock(new) <=> HasLock(frames[t])) /\ Len(new) = Len(frames[t]) + 1
      /\ new[1] = point
      /\ \A i \in 1..Len(new) : i # 1 => i - 1 \in 1..Len(frames[t]) /\ new[i] = frames[t][i - 1]
    BY <1>1, StackCalls
<1> HIDE DEF new
<1>3. /\ \A u \in Harness!Threads : frames'[u] = IF u = t THEN new ELSE frames[u]
      /\ frames' = [u \in Harness!Threads |-> frames'[u]]
      /\ \A u \in Harness!Threads : Stack(frames'[u]) /\ (lock' = u <=> HasLock(frames'[u]))
    BY <1>1, <1>2, ThreadMoves
<1>4. HarnessType'
    BY <1>3 DEF HarnessInv, HarnessType
<1>5. \A q : Meets(q)' = Meets(q)
    BY DEF Meets
<1>6. ASSUME ~touched, NEW u \in Harness!Threads, NEW i \in 1..Len(frames'[u]) PROVE Meets(frames'[u][i])
  <2>1. \A j \in 1..Len(frames[u]) : Meets(frames[u][j])
      BY <1>6 DEF HarnessInv
  <2>2. CASE u = t /\ i = 1
      BY <1>2, <1>3, <2>2 DEF Meets
  <2>3. CASE u = t /\ i # 1
    <3>1. i - 1 \in 1..Len(frames[t]) /\ frames'[u][i] = frames[t][i - 1]
        BY <1>2, <1>3, <1>6, <2>3
    <3> QED
        BY <2>1, <2>3, <3>1
  <2>4. CASE u # t
      BY <1>3, <1>6, <2>1, <2>4
  <2> QED
      BY <2>2, <2>3, <2>4
<1> QED
    BY <1>4, <1>6 DEF HarnessInv, Meets

LockType == lock \in Harness!Threads \cup {NoOne}
FramesType ==
    /\ frames = [t \in Harness!Threads |-> frames[t]]
    /\ \A t \in Harness!Threads : Stack(frames[t]) /\ (lock = t <=> HasLock(frames[t]))

\* Nobody is inside the lock but at this point.
InLockAt(point) ==
    \A u \in Harness!Threads : \A i \in 1..Len(frames[u]) :
        frames[u][i] \in Harness!LockedPoints => frames[u][i] = point

LEMMA GoesOn ==
    ASSUME ServicesAssumption, HarnessInv, NEW t \in Harness!Threads, NEW point \in Harness!LockedPoints,
           NEW from \in Harness!Points, Harness!At(t, from), from \notin {"wait", "exited"},
           IF from \in Harness!LockedPoints THEN lock' = lock ELSE lock = NoOne /\ lock' = t,
           Harness!Goto(t, point)
    PROVE  LockType' /\ FramesType' /\ InLockAt(point)'
<1> DEFINE s == frames[t]
           new == <<point>> \o Tail(s)
<1>1. /\ frames' = [frames EXCEPT ![t] = new] /\ s # <<>> /\ Head(s) = from
      /\ Stack(s) /\ (lock = t <=> HasLock(s)) /\ NoOne \notin Harness!Threads
    BY DEF Harness!Goto, Harness!At, HarnessInv, HarnessType, ServicesAssumption, Harness!HarnessAssumption,
           Harness!Threads
<1>2. s[1] = from /\ Len(s) \in Nat \ {0}
    BY <1>1, EmptySeq, LenProperties DEF Stack
<1>3. /\ InLock(s, 1) \/ ~HasLock(s)
      /\ lock \in {NoOne, t} /\ lock' = t
    BY <1>1, <1>2 DEF InLock, HasLock
<1>4. /\ Stack(new) /\ HasLock(new) /\ Len(new) = Len(s) /\ new[1] = point
      /\ \A i \in 1..Len(s) : i # 1 => new[i] = s[i] /\ ~InLock(new, i)
    BY <1>1, <1>2, <1>3, StackGoesOn
<1> HIDE DEF new
<1>5. /\ \A u \in Harness!Threads : frames'[u] = IF u = t THEN new ELSE frames[u]
      /\ frames' = [u \in Harness!Threads |-> frames'[u]] /\ lock' \in Harness!Threads \cup {NoOne}
      /\ \A u \in Harness!Threads : Stack(frames'[u]) /\ (lock' = u <=> HasLock(frames'[u]))
    BY <1>1, <1>3, <1>4, ThreadMoves
<1>6. ASSUME NEW u \in Harness!Threads, NEW i \in 1..Len(frames'[u]), frames'[u][i] \in Harness!LockedPoints
      PROVE  frames'[u][i] = point
  <2>1. u = t
      BY <1>3, <1>5, <1>6 DEF HasLock, InLock
  <2>2. frames'[u] = new
      BY <1>5, <2>1
  <2>3. i = 1
      BY <1>4, <1>6, <2>2 DEF InLock
  <2> QED
      BY <1>4, <2>2, <2>3
<1> QED
    BY <1>5, <1>6 DEF LockType, FramesType, InLockAt

LEMMA Returns ==
    ASSUME ServicesAssumption, HarnessInv, NEW t \in Harness!Threads, NEW from \in Harness!LockedPoints,
           Harness!At(t, from), lock' = NoOne, Harness!Return(t)
    PROVE  LockType' /\ FramesType' /\ \A point : InLockAt(point)'
<1> DEFINE s == frames[t]
           new == Tail(s)
<1>1. /\ frames' = [frames EXCEPT ![t] = new] /\ s # <<>> /\ Head(s) = from
      /\ Stack(s) /\ (lock = t <=> HasLock(s)) /\ NoOne \notin Harness!Threads
    BY DEF Harness!Return, Harness!At, HarnessInv, HarnessType, ServicesAssumption, Harness!HarnessAssumption,
           Harness!Threads
<1>2. s[1] = from /\ Len(s) \in Nat \ {0}
    BY <1>1, EmptySeq, LenProperties DEF Stack
<1>3. InLock(s, 1) /\ lock = t
    BY <1>1, <1>2 DEF InLock, HasLock
<1>4. Stack(new) /\ ~HasLock(new)
    BY <1>1, <1>3, StackReturns
<1> HIDE DEF new
<1>5. /\ \A u \in Harness!Threads : frames'[u] = IF u = t THEN new ELSE frames[u]
      /\ frames' = [u \in Harness!Threads |-> frames'[u]] /\ lock' \in Harness!Threads \cup {NoOne}
      /\ \A u \in Harness!Threads : Stack(frames'[u]) /\ (lock' = u <=> HasLock(frames'[u]))
    BY <1>1, <1>3, <1>4, ThreadMoves
<1>6. \A u \in Harness!Threads : \A i \in 1..Len(frames'[u]) : frames'[u][i] \notin Harness!LockedPoints
    BY <1>1, <1>5 DEF HasLock, InLock
<1> QED
    BY <1>5, <1>6 DEF LockType, FramesType, InLockAt

EngineType ==
    /\ harness_running \in BOOLEAN /\ touched \in BOOLEAN
    /\ engine \in Harness!Engines /\ dash \in 1..engine /\ updating \subseteq 1..engine
    /\ signals \in 0..MaxSignals

LEMMA HarnessByParts ==
    ASSUME LockType', FramesType', EngineType', NEW CONSTANT point, InLockAt(point)',
           ~touched' => /\ updating' \subseteq {engine'} /\ Meets(point)'
                        /\ lock' = NoOne => (harness_running' <=> updating' # {})
    PROVE  HarnessInv'
<1>1. HarnessType'
    BY DEF LockType, FramesType, EngineType, HarnessType
<1>2. ASSUME ~touched', NEW t \in Harness!Threads, NEW i \in 1..Len(frames'[t]) PROVE Meets(frames[t][i])'
  <2>1. CASE frames'[t][i] \in Harness!LockedPoints
    <3>1. frames'[t][i] = point
        BY <1>2, <2>1 DEF InLockAt
    <3> QED
        BY <1>2, <3>1 DEF Meets
  <2>2. CASE frames'[t][i] \notin Harness!LockedPoints
      BY <2>2 DEF Meets, Harness!LockedPoints
  <2> QED
      BY <2>1, <2>2
<1> QED
    BY <1>1, <1>2 DEF HarnessInv

\* What the innermost call at a point inside the lock may rely on.
LEMMA InnermostMeets ==
    ASSUME ServicesAssumption, HarnessInv, NEW t \in Harness!Threads, NEW from \in Harness!LockedPoints,
           Harness!At(t, from)
    PROVE  lock = t /\ EngineType /\ (~touched => updating \subseteq {engine} /\ Meets(from))
<1>1. Stack(frames[t]) /\ frames[t] # <<>> /\ Head(frames[t]) = from /\ (lock = t <=> HasLock(frames[t]))
    BY DEF HarnessInv, HarnessType, Harness!At
<1>2. frames[t][1] = from /\ 1 \in 1..Len(frames[t])
    BY <1>1, EmptySeq, LenProperties DEF Stack
<1>3. lock = t
    BY <1>1, <1>2 DEF HasLock, InLock
<1>4. EngineType
    BY DEF HarnessInv, HarnessType, EngineType
<1>5. ~touched => updating \subseteq {engine} /\ Meets(from)
    BY <1>2 DEF HarnessInv
<1> QED
    BY <1>3, <1>4, <1>5

\* A thread that is outside the lock stays outside, wherever else it goes.
LEMMA OutsideKeepsHarness ==
    ASSUME ServicesAssumption, HarnessInv, NEW t \in Harness!Threads, ~HasLock(frames[t]),
           NEW new, Stack(new), ~HasLock(new), frames' = [frames EXCEPT ![t] = new],
           UNCHANGED <<harness_running, lock, engine, dash, updating, signals, touched>>
    PROVE  HarnessInv'
<1>1. lock # t
    BY DEF HarnessInv, HarnessType
<1>2. /\ \A u \in Harness!Threads : frames'[u] = IF u = t THEN new ELSE frames[u]
      /\ frames' = [u \in Harness!Threads |-> frames'[u]]
      /\ \A u \in Harness!Threads : Stack(frames'[u]) /\ (lock' = u <=> HasLock(frames'[u]))
    BY <1>1, ThreadMoves
<1>3. HarnessType'
    BY <1>2 DEF HarnessInv, HarnessType
<1>4. ASSUME ~touched, NEW u \in Harness!Threads, NEW i \in 1..Len(frames'[u]) PROVE Meets(frames'[u][i])
  <2>1. CASE u = t
    <3>1. frames'[u][i] \notin Harness!LockedPoints
        BY <1>2, <1>4, <2>1 DEF HasLock, InLock
    <3> QED
        BY <3>1 DEF Meets, Harness!LockedPoints
  <2>2. CASE u # t
      BY <1>2, <1>4, <2>2 DEF HarnessInv
  <2> QED
      BY <2>1, <2>2
<1> QED
    BY <1>3, <1>4 DEF HarnessInv, Meets

LEMMA CallsKeepHarness ==
    ASSUME ServicesAssumption, HarnessInv,
           \/ \E t \in Callers : Harness!CallStop(t) \/ Harness!CallStart(t) \/ Harness!CallRestart(t)
           \/ Harness!Signal
    PROVE  HarnessInv'
<1>1. signals \in 0..MaxSignals /\ MaxSignals \in Nat /\ Callers \subseteq Harness!Threads /\ main \in Harness!Threads
    BY DEF HarnessInv, HarnessType, ServicesAssumption, Harness!HarnessAssumption, Harness!Threads
<1>2. ASSUME NEW t \in Callers, Harness!CallStop(t) \/ Harness!CallStart(t) PROVE HarnessInv'
    BY <1>1, <1>2, CallKeepsHarness DEF Harness!CallStop, Harness!CallStart
<1>3. ASSUME Harness!Signal PROVE HarnessInv'
    BY <1>1, <1>3, CallKeepsHarness DEF Harness!Signal
<1>4. ASSUME NEW t \in Callers, Harness!CallRestart(t) PROVE HarnessInv'
  <2>1. frames[t] = <<>> /\ t \in Harness!Threads
      BY <1>1, <1>4 DEF Harness!CallRestart
  <2>2. Stack(<<"stop", "start">>) /\ ~HasLock(<<"stop", "start">>) /\ ~HasLock(<<>>)
      BY DEF Stack, HasLock, InLock, Harness!LockedPoints, Harness!Points
  <2>3. <<"stop", "start">> \o <<>> = <<"stop", "start">>
      BY ConcatEmptySeq
  <2>4. frames' = [frames EXCEPT ![t] = <<"stop", "start">>]
      BY <1>4, <2>1, <2>3 DEF Harness!CallRestart, Harness!Call
  <2> QED
      BY <1>4, <2>1, <2>2, <2>4, OutsideKeepsHarness DEF Harness!CallRestart
<1> QED
    BY <1>2, <1>3, <1>4

LEMMA AcquireKeepsHarness ==
    ASSUME ServicesAssumption, HarnessInv, NEW t \in Harness!Threads, Harness!Acquire(t)
    PROVE  HarnessInv'
<1>1. PICK from \in {"stop", "start"}, point \in {"stopping", "starting"} :
        Harness!At(t, from) /\ lock = NoOne /\ lock' = t /\ Harness!Goto(t, point)
    BY DEF Harness!Acquire, Harness!AcquireStop, Harness!AcquireStart
<1>2. UNCHANGED <<harness_running, engine, dash, updating, signals, touched>>
    BY DEF Harness!Acquire, Harness!AcquireStop, Harness!AcquireStart
<1>3. /\ from \in Harness!Points /\ from \notin Harness!LockedPoints /\ from \notin {"wait", "exited"}
      /\ point \in Harness!LockedPoints
    BY DEF Harness!Points, Harness!LockedPoints
<1>4. LockType' /\ FramesType' /\ InLockAt(point)'
    BY <1>1, <1>3, GoesOn
<1>5. EngineType'
    BY <1>2 DEF HarnessInv, HarnessType, EngineType
<1>6. ~touched' => /\ updating' \subseteq {engine'} /\ Meets(point)'
                   /\ lock' = NoOne => (harness_running' <=> updating' # {})
    BY <1>1, <1>2 DEF HarnessInv, Meets
<1> QED
    BY <1>4, <1>5, <1>6, HarnessByParts

LEMMA StopKeepsHarness ==
    ASSUME ServicesAssumption, HarnessInv, NEW t \in Harness!Threads, Harness!StopCheck(t) \/ Harness!EngineStop(t)
    PROVE  HarnessInv'
<1> USE DEF Harness!LockedPoints
<1>1. ASSUME NEW from \in {"stopping", "engine_stop"}, Harness!At(t, from)
      PROVE  EngineType /\ from \in Harness!Points /\ (~touched => updating \subseteq {engine} /\ Meets(from))
    BY <1>1, InnermostMeets DEF Harness!Points
<1>2. CASE Harness!StopCheck(t) /\ harness_running
  <2>1. /\ Harness!At(t, "stopping") /\ ~harness_running' /\ harness_running' \in BOOLEAN /\ lock' = lock
        /\ Harness!Goto(t, "engine_stop")
        /\ UNCHANGED <<engine, dash, updating, signals, touched>>
      BY <1>2 DEF Harness!StopCheck
  <2>2. LockType' /\ FramesType' /\ InLockAt("engine_stop")'
      BY <1>1, <2>1, GoesOn
  <2>3. EngineType'
      BY <1>1, <2>1 DEF EngineType
  <2>4. lock' # NoOne
      BY <2>1, InnermostMeets DEF ServicesAssumption, Harness!HarnessAssumption, Harness!Threads
  <2>5. ~touched' => updating' \subseteq {engine'} /\ Meets("engine_stop")'
      BY <1>1, <2>1 DEF Meets
  <2> QED
      BY <2>2, <2>3, <2>4, <2>5, HarnessByParts
<1>3. CASE Harness!StopCheck(t) /\ ~harness_running
  <2>1. /\ Harness!At(t, "stopping") /\ lock' = NoOne /\ Harness!Return(t)
        /\ UNCHANGED <<harness_running, engine, dash, updating, signals, touched>>
      BY <1>3 DEF Harness!StopCheck
  <2>2. LockType' /\ FramesType' /\ InLockAt("stop")'
      BY <2>1, Returns
  <2>3. EngineType'
      BY <1>1, <2>1 DEF EngineType
  <2>4. ~touched' => /\ updating' \subseteq {engine'} /\ Meets("stop")'
                     /\ lock' = NoOne => (harness_running' <=> updating' # {})
      BY <1>1, <2>1 DEF Meets
  <2> QED
      BY <2>2, <2>3, <2>4, HarnessByParts
<1>4. CASE Harness!EngineStop(t)
  <2>1. /\ Harness!At(t, "engine_stop") /\ updating' = updating \ {engine} /\ lock' = NoOne /\ Harness!Return(t)
        /\ UNCHANGED <<harness_running, engine, dash, signals, touched>>
      BY <1>4 DEF Harness!EngineStop
  <2>2. LockType' /\ FramesType' /\ InLockAt("stop")'
      BY <2>1, Returns
  <2>3. EngineType'
      BY <1>1, <2>1 DEF EngineType
  <2>4. ~touched' => /\ updating' \subseteq {engine'} /\ Meets("stop")'
                     /\ lock' = NoOne => (harness_running' <=> updating' # {})
      BY <1>1, <2>1 DEF Meets
  <2> QED
      BY <2>2, <2>3, <2>4, HarnessByParts
<1> QED
    BY <1>2, <1>3, <1>4 DEF Harness!StopCheck

LEMMA StartKeepsHarness ==
    ASSUME ServicesAssumption, HarnessInv, NEW t \in Harness!Threads, Harness!StartCheck(t) \/ Harness!EngineStart(t)
    PROVE  HarnessInv'
<1> USE DEF Harness!LockedPoints
<1>1. ASSUME NEW from \in {"starting", "engine_start"}, Harness!At(t, from)
      PROVE  EngineType /\ from \in Harness!Points /\ (~touched => updating \subseteq {engine} /\ Meets(from))
    BY <1>1, InnermostMeets DEF Harness!Points
<1>2. MaxEngines \in Nat
    BY DEF ServicesAssumption, Harness!HarnessAssumption
<1>3. CASE Harness!StartCheck(t) /\ lock' = NoOne /\ Harness!Return(t) /\ UNCHANGED engine
  <2>1. /\ Harness!At(t, "starting") /\ lock' = NoOne /\ Harness!Return(t)
        /\ UNCHANGED <<harness_running, engine, dash, updating, signals, touched>>
      BY <1>3 DEF Harness!StartCheck
  <2>2. LockType' /\ FramesType' /\ InLockAt("stop")'
      BY <2>1, Returns
  <2>3. EngineType'
      BY <1>1, <2>1 DEF EngineType
  <2>4. ~touched' => /\ updating' \subseteq {engine'} /\ Meets("stop")'
                     /\ lock' = NoOne => (harness_running' <=> updating' # {})
      BY <1>1, <2>1 DEF Meets
  <2> QED
      BY <2>2, <2>3, <2>4, HarnessByParts
<1>4. CASE /\ Harness!At(t, "starting") /\ ~harness_running /\ engine < MaxEngines /\ engine' = engine + 1
           /\ Harness!Goto(t, "engine_start")
           /\ UNCHANGED <<lock, harness_running, dash, updating, signals, touched>>
  <2>1. LockType' /\ FramesType' /\ InLockAt("engine_start")'
      BY <1>1, <1>4, GoesOn
  <2>2. EngineType'
    <3>1. /\ engine \in 1..MaxEngines /\ dash \in 1..engine /\ updating \subseteq 1..engine
          /\ 1..engine \subseteq 1..(engine + 1)
        BY <1>1, <1>2, <1>4 DEF EngineType, Harness!Engines
    <3> QED
        BY <1>1, <1>2, <1>4, <3>1 DEF EngineType, Harness!Engines
  <2>3. lock' # NoOne
      BY <1>4, InnermostMeets DEF ServicesAssumption, Harness!HarnessAssumption, Harness!Threads
  <2>4. ~touched' => updating' \subseteq {engine'} /\ Meets("engine_start")'
      BY <1>1, <1>4 DEF Meets
  <2> QED
      BY <2>1, <2>2, <2>3, <2>4, HarnessByParts
<1>5. CASE Harness!EngineStart(t)
  <2>1. /\ Harness!At(t, "engine_start") /\ updating' = updating \cup {engine} /\ lock' = NoOne
        /\ harness_running' = TRUE /\ dash' = engine /\ Harness!Return(t)
        /\ UNCHANGED <<engine, signals, touched>>
      BY <1>5 DEF Harness!EngineStart
  <2>2. LockType' /\ FramesType' /\ InLockAt("stop")'
      BY <2>1, Returns
  <2>3. EngineType'
      BY <1>1, <1>2, <2>1 DEF EngineType, Harness!Engines
  <2>4. ~touched' => /\ updating' \subseteq {engine'} /\ Meets("stop")'
                     /\ lock' = NoOne => (harness_running' <=> updating' # {})
      BY <1>1, <2>1 DEF Meets
  <2> QED
      BY <2>2, <2>3, <2>4, HarnessByParts
<1> QED
    BY <1>3, <1>4, <1>5 DEF Harness!StartCheck

LEMMA WaitEndsKeepsHarness ==
    ASSUME ServicesAssumption, HarnessInv, Harness!WaitEnds
    PROVE  HarnessInv'
<1> DEFINE s == frames[main]
<1>1. s # <<>> /\ Head(s) = "wait" /\ Stack(s) /\ main \in Harness!Threads
    BY DEF Harness!WaitEnds, Harness!At, HarnessInv, HarnessType, Harness!Threads
<1>2. s[1] = "wait" /\ Len(s) \in Nat \ {0}
    BY <1>1, EmptySeq, LenProperties DEF Stack
<1>3. Len(s) = 1
  <2>1. 1 \in 1..Len(s) /\ s[1] \in {"wait", "exited"}
      BY <1>2
  <2>2. \A i \in 1..Len(s) : s[i] \in {"wait", "exited"} => i = Len(s)
      BY <1>1 DEF Stack
  <2> QED
      BY <2>1, <2>2
<1>4. ~HasLock(s)
    BY <1>2, <1>3 DEF HasLock, InLock, Harness!LockedPoints
<1>5. Stack(<<"stop", "exited">>) /\ ~HasLock(<<"stop", "exited">>)
    BY DEF Stack, HasLock, InLock, Harness!LockedPoints, Harness!Points
<1> QED
    BY <1>1, <1>4, <1>5, OutsideKeepsHarness DEF Harness!WaitEnds

LEMMA HarnessKept ==
    ASSUME ServicesAssumption, HarnessInv, [ServicesNext]_servicesVars
    PROVE  HarnessInv'
<1>1. CASE UNCHANGED harnessVars
    BY <1>1 DEF harnessVars, HarnessInv, HarnessType, Meets
<1>2. CASE Harness!ApiStart \/ Harness!ApiStop
  <2>1. /\ UNCHANGED <<harness_running, lock, engine, dash, frames, signals>>
        /\ touched' = TRUE /\ updating' \subseteq 1..engine
      BY <1>2 DEF Harness!ApiStart, Harness!ApiStop, HarnessInv, HarnessType
  <2> QED
      BY <2>1 DEF HarnessInv, HarnessType
<1>3. CASE Harness!Next
    BY <1>2, <1>3, CallsKeepHarness, AcquireKeepsHarness, StopKeepsHarness, StartKeepsHarness, WaitEndsKeepsHarness
       DEF Harness!Next, Harness!Proceed
<1> QED
    BY <1>1, <1>3 DEF ServicesNext, servicesVars, EngineTurn, HarnessTurn, BusTurn

LEMMA HarnessStarts == ASSUME ServicesAssumption, ServicesInit PROVE HarnessInv
<1>1. Harness!Init
    BY DEF ServicesInit
<1>2. Stack(<<"wait">>) /\ ~HasLock(<<"wait">>) /\ Stack(<<>>) /\ ~HasLock(<<>>)
    BY DEF Stack, HasLock, InLock, Harness!LockedPoints, Harness!Points
<1>3. /\ lock = NoOne /\ lock \notin Harness!Threads
      /\ frames = [t \in Harness!Threads |-> IF t = main THEN <<"wait">> ELSE <<>>]
    BY <1>1 DEF Harness!Init, ServicesAssumption, Harness!HarnessAssumption, Harness!Threads
<1>4. \A t \in Harness!Threads : Stack(frames[t]) /\ ~HasLock(frames[t])
    BY <1>2, <1>3
<1>5. EngineType /\ updating = {1} /\ engine = 1 /\ harness_running = TRUE
  <2>1. /\ harness_running = TRUE /\ touched = FALSE /\ engine = 1 /\ dash = 1 /\ updating = {1} /\ signals = 0
        /\ MaxEngines \in Nat \ {0} /\ MaxSignals \in Nat
      BY <1>1 DEF Harness!Init, ServicesAssumption, Harness!HarnessAssumption
  <2>2. 1 \in 1..MaxEngines /\ 0 \in 0..MaxSignals /\ {1} \subseteq 1..1
      BY <2>1
  <2> QED
      BY <2>1, <2>2 DEF EngineType, Harness!Engines
<1>6. HarnessType
    BY <1>3, <1>4, <1>5 DEF EngineType, HarnessType
<1>7. \A t \in Harness!Threads : \A i \in 1..Len(frames[t]) : Meets(frames[t][i])
    BY <1>4 DEF HasLock, InLock, Meets, Harness!LockedPoints
<1> QED
    BY <1>5, <1>6, <1>7 DEF HarnessInv

LEMMA HarnessOrdered ==
    ASSUME HarnessInv
    PROVE  Harness!TypeOK /\ Harness!OneEngine /\ Harness!HarnessKnows
<1>1. \A t \in Harness!Threads : DOMAIN frames[t] = 1..Len(frames[t]) /\ frames[t] \in Seq(Harness!Points)
    BY LenProperties DEF HarnessInv, HarnessType, Stack
<1>2. Harness!TypeOK
    BY <1>1 DEF HarnessInv, HarnessType, HasLock, InLock, Harness!TypeOK
<1>3. Harness!OneEngine /\ Harness!HarnessKnows
    BY DEF HarnessInv, Harness!OneEngine, Harness!HarnessKnows
<1> QED
    BY <1>2, <1>3

-----------------------------------------------------------------------------
(* The event bus: what its stores hold after n events, if events were cleared up to c. *)

In(list, e) == \E i \in 1..Len(list) : list[i] = e

NewestFirst(list, n) ==
    /\ list \in Seq(Nat) /\ Len(list) <= Capacity
    /\ \A i \in 1..Len(list) : list[i] \in 1..n + 1 - i
    /\ \A i, j \in 1..Len(list) : i < j => list[j] < list[i]

OldestFirst(list, n) ==
    /\ list \in Seq(Nat) /\ Len(list) <= Capacity
    /\ \A i \in 1..Len(list) : list[i] \in 1..n
    /\ \A i, j \in 1..Len(list) : i < j => list[i] < list[j]

\* An event that is not in the list any more, newer ones filled it.
FellOut(list, e) == Len(list) = Capacity /\ e < list[Capacity]

\* The list holds the latest events since the history was cleared, and all of them.
Exactly(list, n, c) ==
    /\ Len(list) = IF n - c < Capacity THEN n - c ELSE Capacity
    /\ \A i \in 1..Len(list) : list[i] = n + 1 - i

LEMMA PushIs ==
    ASSUME ServicesAssumption, NEW list \in Seq(Nat), Len(list) <= Capacity, NEW e \in Nat
    PROVE  LET new == Bus!Push(list, e)
           IN  /\ new \in Seq(Nat) /\ Len(new) = IF Len(list) < Capacity THEN Len(list) + 1 ELSE Capacity
               /\ new[1] = e
               /\ \A i \in 1..Len(new) : i # 1 => i - 1 \in 1..Len(list) /\ new[i] = list[i - 1]
<1> DEFINE all == <<e>> \o list
           n == IF Len(list) < Capacity THEN Len(list) + 1 ELSE Capacity
<1>1. Capacity \in Nat \ {0} /\ Len(list) \in Nat /\ <<e>> \in Seq(Nat)
    BY LenProperties DEF ServicesAssumption, Bus!BusAssumption
<1>2. /\ Len(<<e>>) = 1 /\ all \in Seq(Nat) /\ Len(all) = Len(list) + 1
      /\ \A i \in 1..Len(list) + 1 : all[i] = IF i = 1 THEN e ELSE list[i - 1]
    BY <1>1, ConcatProperties
<1>3. n \in Nat \ {0} /\ n <= Len(list) + 1
    BY <1>1
<1> HIDE DEF all, n
<1>4. \A i \in 1..n : all[i] \in Nat
  <2>1. \A i \in 1..Len(list) : list[i] \in Nat
      BY ElementOfSeq
  <2> QED
      BY <1>1, <1>2, <1>3, <2>1
<1>5. /\ SubSeq(all, 1, n) \in Seq(Nat) /\ Len(SubSeq(all, 1, n)) = n
      /\ \A i \in 1..n : SubSeq(all, 1, n)[i] = all[i]
  <2>1. /\ SubSeq(all, 1, n) \in Seq(Nat) /\ Len(SubSeq(all, 1, n)) = IF 1 <= n THEN n - 1 + 1 ELSE 0
        /\ \A i \in 1..n - 1 + 1 : SubSeq(all, 1, n)[i] = all[1 + i - 1]
      BY <1>3, <1>4, SubSeqProperties
  <2> QED
      BY <1>3, <2>1
<1>6. Bus!Push(list, e) = SubSeq(all, 1, n)
    BY DEF Bus!Push, all, n
<1>7. ASSUME NEW i \in 1..n, i # 1 PROVE i - 1 \in 1..Len(list) /\ all[i] = list[i - 1]
  <2>1. i \in 1..Len(list) + 1 /\ i - 1 \in 1..Len(list)
      BY <1>1, <1>3, <1>7
  <2> QED
      BY <1>2, <1>7, <2>1
<1>8. all[1] = e
    BY <1>1, <1>2
<1> QED
    BY <1>3, <1>5, <1>6, <1>7, <1>8 DEF n

\* The next event is pushed.
LEMMA PushKeepsLatest ==
    ASSUME ServicesAssumption, NEW n \in Nat, NEW list, NewestFirst(list, n), NEW c \in 0..n
    PROVE  LET new == Bus!Push(list, n + 1)
           IN  /\ NewestFirst(new, n + 1) /\ In(new, n + 1)
               /\ \A e : In(list, e) \/ (e \in Nat /\ FellOut(list, e)) => In(new, e) \/ FellOut(new, e)
               /\ Exactly(list, n, c) => Exactly(new, n + 1, c)
<1> DEFINE new == Bus!Push(list, n + 1)
<1>1. Capacity \in Nat \ {0} /\ list \in Seq(Nat) /\ Len(list) \in Nat /\ Len(list) <= Capacity
      /\ \A i \in 1..Len(list) : list[i] \in 1..n + 1 - i /\ list[i] \in Nat
    BY LenProperties DEF ServicesAssumption, Bus!BusAssumption, NewestFirst
<1>2. /\ new \in Seq(Nat) /\ Len(new) = IF Len(list) < Capacity THEN Len(list) + 1 ELSE Capacity
      /\ new[1] = n + 1
      /\ \A i \in 1..Len(new) : i # 1 => i - 1 \in 1..Len(list) /\ new[i] = list[i - 1]
    BY <1>1, PushIs
<1> HIDE DEF new
<1>3. Len(new) \in Nat \ {0} /\ Len(new) <= Capacity /\ Len(new) <= Len(list) + 1
    BY <1>1, <1>2
<1>4. NewestFirst(new, n + 1)
  <2>1. ASSUME NEW i \in 1..Len(new) PROVE new[i] \in 1..(n + 1) + 1 - i
    <3>1. CASE i = 1
        BY <1>2, <3>1
    <3>2. CASE i # 1
      <4>1. i - 1 \in 1..Len(list) /\ new[i] = list[i - 1]
          BY <1>2, <3>2
      <4>2. list[i - 1] \in 1..n + 1 - (i - 1)
          BY <1>1, <4>1
      <4> QED
          BY <4>1, <4>2
    <3> QED
        BY <3>1, <3>2
  <2>2. ASSUME NEW i \in 1..Len(new), NEW j \in 1..Len(new), i < j PROVE new[j] < new[i]
    <3>1. j - 1 \in 1..Len(list) /\ new[j] = list[j - 1]
        BY <1>2, <1>3, <2>2
    <3>2. CASE i = 1
      <4>1. list[j - 1] \in 1..n + 1 - (j - 1) /\ j - 1 >= 1
          BY <1>1, <3>1
      <4> QED
          BY <1>2, <3>1, <3>2, <4>1
    <3>3. CASE i # 1
      <4>1. i - 1 \in 1..Len(list) /\ new[i] = list[i - 1] /\ i - 1 < j - 1
          BY <1>2, <1>3, <2>2, <3>3
      <4> QED
          BY <3>1, <4>1 DEF NewestFirst
    <3> QED
        BY <3>2, <3>3
  <2> QED
      BY <1>2, <1>3, <2>1, <2>2 DEF NewestFirst
<1>5. In(new, n + 1)
    BY <1>2, <1>3 DEF In
<1>6. ASSUME NEW e, In(list, e) PROVE In(new, e) \/ FellOut(new, e)
  <2>1. PICK i \in 1..Len(list) : list[i] = e
      BY <1>6 DEF In
  <2>2. CASE i + 1 <= Len(new)
    <3>1. i + 1 \in 1..Len(new) /\ new[i + 1] = list[i]
        BY <1>1, <1>2, <1>3, <2>2
    <3> QED
        BY <2>1, <3>1 DEF In
  <2>3. CASE ~(i + 1 <= Len(new))
    <3>1. i = Len(list) /\ Len(list) = Capacity /\ Len(new) = Capacity
        BY <1>1, <1>2, <1>3, <2>3
    <3>2. CASE Capacity = 1
        BY <1>1, <1>2, <2>1, <3>1, <3>2 DEF FellOut
    <3>3. CASE Capacity # 1
      <4>1. /\ Capacity \in 1..Len(new) /\ Capacity - 1 \in 1..Len(list) /\ new[Capacity] = list[Capacity - 1]
            /\ Capacity - 1 < Capacity /\ Capacity \in 1..Len(list)
          BY <1>1, <1>2, <3>1, <3>3
      <4>2. list[Capacity] < list[Capacity - 1]
          BY <4>1 DEF NewestFirst
      <4> QED
          BY <2>1, <3>1, <4>1, <4>2 DEF FellOut
    <3> QED
        BY <3>2, <3>3
  <2> QED
      BY <2>2, <2>3
<1>7. ASSUME NEW e \in Nat, FellOut(list, e) PROVE FellOut(new, e)
  <2>1. Len(list) = Capacity /\ Len(new) = Capacity /\ e < list[Capacity] /\ Capacity \in 1..Len(list)
        /\ list[Capacity] \in Nat
      BY <1>1, <1>2, <1>7 DEF FellOut
  <2>2. CASE Capacity = 1
      BY <1>1, <1>2, <2>1, <2>2 DEF FellOut
  <2>3. CASE Capacity # 1
    <3>1. /\ Capacity - 1 \in 1..Len(list) /\ new[Capacity] = list[Capacity - 1]
          /\ Capacity - 1 < Capacity /\ list[Capacity - 1] \in Nat
        BY <1>1, <1>2, <2>1, <2>3
    <3>2. list[Capacity] < list[Capacity - 1]
        BY <2>1, <3>1 DEF NewestFirst
    <3> QED
        BY <2>1, <3>1, <3>2 DEF FellOut
  <2> QED
      BY <2>2, <2>3
<1>8. Exactly(list, n, c) => Exactly(new, n + 1, c)
  <2> HAVE Exactly(list, n, c)
  <2>1. Len(list) = (IF n - c < Capacity THEN n - c ELSE Capacity)
        /\ \A i \in 1..Len(list) : list[i] = n + 1 - i
      BY DEF Exactly
  <2>2. Len(new) = IF (n + 1) - c < Capacity THEN (n + 1) - c ELSE Capacity
      BY <1>1, <1>2, <2>1
  <2>3. ASSUME NEW i \in 1..Len(new) PROVE new[i] = (n + 1) + 1 - i
    <3>1. CASE i = 1
        BY <1>2, <3>1
    <3>2. CASE i # 1
      <4>1. i - 1 \in 1..Len(list) /\ new[i] = list[i - 1]
          BY <1>2, <3>2
      <4>2. list[i - 1] = n + 1 - (i - 1)
          BY <2>1, <4>1
      <4> QED
          BY <4>1, <4>2
    <3> QED
        BY <3>1, <3>2
  <2> QED
      BY <2>2, <2>3 DEF Exactly
<1> QED
    BY <1>4, <1>5, <1>6, <1>7, <1>8 DEF new

\* The next event is appended.
LEMMA RememberKeepsOldest ==
    ASSUME ServicesAssumption, NEW n \in Nat, NEW list, OldestFirst(list, n)
    PROVE  LET new == Bus!Remember(list, n + 1)
           IN  /\ OldestFirst(new, n + 1) /\ new # <<>>
               /\ Len(new) < Capacity =>
                     Len(list) < Capacity /\ In(new, n + 1) /\ \A e : In(list, e) => In(new, e)
<1> DEFINE new == Bus!Remember(list, n + 1)
<1>1. /\ Capacity \in Nat \ {0} /\ list \in Seq(Nat) /\ Len(list) \in Nat /\ Len(list) <= Capacity
      /\ \A i \in 1..Len(list) : list[i] \in 1..n /\ list[i] \in Nat
      /\ \A i, j \in 1..Len(list) : i < j => list[i] < list[j]
    BY LenProperties DEF ServicesAssumption, Bus!BusAssumption, OldestFirst
<1>2. CASE Len(list) < Capacity
  <2>1. /\ new \in Seq(Nat) /\ new # <<>> /\ Len(new) = Len(list) + 1 /\ new[Len(list) + 1] = n + 1
        /\ \A i \in 1..Len(list) : new[i] = list[i]
    <3>1. n + 1 \in Nat /\ new = Append(list, n + 1)
        BY <1>2 DEF Bus!Remember
    <3> HIDE DEF new
    <3> QED
        BY <1>1, <3>1, AppendProperties
  <2> HIDE DEF new
  <2>2. ASSUME NEW i \in 1..Len(new)
        PROVE  IF i = Len(new) THEN new[i] = n + 1 ELSE i \in 1..Len(list) /\ new[i] = list[i] /\ new[i] \in 1..n
    <3>1. i # Len(new) => i \in 1..Len(list)
        BY <1>1, <2>1
    <3> QED
        BY <1>1, <2>1, <3>1
  <2>3. \A i \in 1..Len(new) : new[i] \in 1..n + 1
      BY <2>2
  <2>4. ASSUME NEW i \in 1..Len(new), NEW j \in 1..Len(new), i < j PROVE new[i] < new[j]
    <3>1. i # Len(new)
        BY <1>1, <2>1, <2>4
    <3>2. i \in 1..Len(list) /\ new[i] = list[i] /\ new[i] \in 1..n
        BY <2>2, <3>1
    <3>3. CASE j = Len(new)
        BY <2>2, <3>2, <3>3
    <3>4. CASE j # Len(new)
      <4>1. j \in 1..Len(list) /\ new[j] = list[j]
          BY <2>2, <3>4
      <4> QED
          BY <1>1, <2>4, <3>2, <4>1
    <3> QED
        BY <3>3, <3>4
  <2>5. OldestFirst(new, n + 1)
      BY <1>1, <1>2, <2>1, <2>3, <2>4 DEF OldestFirst
  <2>6. Len(new) \in 1..Len(new) /\ \A i \in 1..Len(list) : i \in 1..Len(new)
      BY <1>1, <2>1
  <2>7. In(new, n + 1) /\ \A e : In(list, e) => In(new, e)
      BY <2>1, <2>6 DEF In
  <2> QED
      BY <1>2, <2>1, <2>5, <2>7 DEF new
<1>3. CASE ~(Len(list) < Capacity)
  <2>1. new = list /\ list # <<>>
      BY <1>1, <1>3 DEF Bus!Remember
  <2>2. OldestFirst(list, n + 1)
      BY <1>1 DEF OldestFirst
  <2> QED
      BY <1>3, <2>1, <2>2
<1> QED
    BY <1>2, <1>3

LEMMA StillNewestFirst == ASSUME NEW n \in Nat, NEW list, NewestFirst(list, n) PROVE NewestFirst(list, n + 1)
<1>1. Len(list) \in Nat
    BY LenProperties DEF NewestFirst
<1>2. ASSUME NEW i \in 1..Len(list) PROVE list[i] \in 1..(n + 1) + 1 - i
  <2>1. list[i] \in 1..n + 1 - i
      BY DEF NewestFirst
  <2> QED
      BY <1>1, <2>1
<1> QED
    BY <1>2 DEF NewestFirst

StoreInv ==
    /\ redis_client \in BOOLEAN /\ kind \in Seq(Types) /\ cleared \in 0..Len(kind)
    /\ NewestFirst(redis, Len(kind)) /\ OldestFirst(memory, Len(kind))
    /\ redis_client /\ Len(memory) < Capacity =>
          \A e \in 1..Len(kind) : e > cleared => In(memory, e) \/ In(redis, e) \/ FellOut(redis, e)
    /\ redis_client /\ memory = <<>> => Exactly(redis, Len(kind), cleared)

LEMMA PublishKeepsStores ==
    ASSUME ServicesAssumption, StoreInv, NEW p \in Publishers, NEW type \in Types, Bus!Publish(p, type),
           UNCHANGED redis_client
    PROVE  StoreInv'
<1> DEFINE n == Len(kind)
<1>1. n \in Nat /\ kind' \in Seq(Types) /\ Len(kind') = n + 1 /\ cleared' = cleared /\ cleared \in 0..n
    BY LenProperties, AppendProperties DEF StoreInv, Bus!Publish
<1>2. NewestFirst(redis, n) /\ OldestFirst(memory, n)
    BY DEF StoreInv
<1>3. cleared' \in 0..Len(kind')
    BY <1>1
<1>4. CASE Bus!Stored(n + 1)
  <2>1. redis_client /\ redis' = Bus!Push(redis, n + 1) /\ memory' = memory
      BY <1>4 DEF Bus!Stored
  <2>2. /\ NewestFirst(redis', n + 1) /\ In(redis', n + 1)
        /\ \A e : In(redis, e) \/ (e \in Nat /\ FellOut(redis, e)) => In(redis', e) \/ FellOut(redis', e)
        /\ Exactly(redis, n, cleared) => Exactly(redis', n + 1, cleared)
      BY <1>1, <1>2, <2>1, PushKeepsLatest
  <2>3. OldestFirst(memory, n + 1)
      BY <1>1, <1>2 DEF OldestFirst
  <2>4. ASSUME Len(memory) < Capacity, NEW e \in 1..n + 1, e > cleared
        PROVE  In(memory', e) \/ In(redis', e) \/ FellOut(redis', e)
    <3>1. CASE e = n + 1
        BY <2>2, <3>1
    <3>2. CASE e # n + 1
      <4>1. e \in 1..n /\ e \in Nat
          BY <1>1, <3>2
      <4> QED
          BY <2>1, <2>2, <2>4, <4>1 DEF StoreInv
    <3> QED
        BY <3>1, <3>2
  <2>5. redis_client' \in BOOLEAN
      BY DEF StoreInv
  <2>6. redis_client' /\ memory' = <<>> => Exactly(redis', n + 1, cleared)
      BY <2>1, <2>2 DEF StoreInv
  <2> QED
      BY <1>1, <1>3, <2>1, <2>2, <2>3, <2>4, <2>5, <2>6 DEF StoreInv
<1>5. CASE Bus!StoredInMemory(n + 1)
  <2>1. memory' = Bus!Remember(memory, n + 1) /\ redis' \in {redis, Bus!Push(redis, n + 1)}
      BY <1>5 DEF Bus!StoredInMemory
  <2>2. /\ OldestFirst(memory', n + 1) /\ memory' # <<>>
        /\ Len(memory') < Capacity =>
              Len(memory) < Capacity /\ In(memory', n + 1) /\ \A e : In(memory, e) => In(memory', e)
      BY <1>1, <1>2, <2>1, RememberKeepsOldest
  <2>3. /\ NewestFirst(redis', n + 1)
        /\ \A e : In(redis, e) \/ (e \in Nat /\ FellOut(redis, e)) => In(redis', e) \/ FellOut(redis', e)
      BY <1>1, <1>2, <2>1, PushKeepsLatest, StillNewestFirst
  <2>4. ASSUME redis_client, Len(memory') < Capacity, NEW e \in 1..n + 1, e > cleared
        PROVE  In(memory', e) \/ In(redis', e) \/ FellOut(redis', e)
    <3>1. CASE e = n + 1
        BY <2>2, <2>4, <3>1
    <3>2. CASE e # n + 1
      <4>1. e \in 1..n /\ e \in Nat
          BY <1>1, <3>2
      <4>2. In(memory, e) \/ In(redis, e) \/ FellOut(redis, e)
          BY <2>2, <2>4, <4>1 DEF StoreInv
      <4> QED
          BY <2>2, <2>3, <2>4, <4>1, <4>2
    <3> QED
        BY <3>1, <3>2
  <2>5. redis_client' \in BOOLEAN /\ redis_client' = redis_client
      BY DEF StoreInv
  <2> QED
      BY <1>1, <1>3, <2>2, <2>3, <2>4, <2>5 DEF StoreInv
<1> QED
    BY <1>4, <1>5 DEF Bus!Publish

LEMMA StoresKept ==
    ASSUME ServicesAssumption, StoreInv, [ServicesNext]_servicesVars
    PROVE  StoreInv'
<1>1. CASE UNCHANGED <<redis_client, kind, cleared, redis, memory>>
    BY <1>1 DEF StoreInv
<1>2. CASE Bus!ClearHistory /\ UNCHANGED redis_client
  <2>1. /\ cleared' = Len(kind) /\ kind' = kind /\ Len(kind) \in Nat /\ Capacity \in Nat \ {0}
        /\ IF redis_client THEN redis' = <<>> /\ memory' = memory ELSE memory' = <<>> /\ redis' = redis
      BY <1>2, LenProperties DEF Bus!ClearHistory, StoreInv, ServicesAssumption, Bus!BusAssumption
  <2>2. NewestFirst(<<>>, Len(kind)) /\ OldestFirst(<<>>, Len(kind)) /\ Exactly(<<>>, Len(kind), Len(kind))
      BY <2>1 DEF NewestFirst, OldestFirst, Exactly
  <2>3. cleared' \in 0..Len(kind') /\ \A e \in 1..Len(kind') : ~(e > cleared')
      BY <2>1
  <2> QED
      BY <1>2, <2>1, <2>2, <2>3 DEF StoreInv
<1>3. CASE Bus!Next
  <2>1. ASSUME NEW p \in Publishers, Bus!Calls(p) PROVE StoreInv'
      BY <1>1, <1>3, <2>1 DEF Bus!Calls, Bus!Dispatch, Bus!Published, Bus!stores, Bus!Next
  <2>2. CASE Bus!Listen \/ Bus!Disconnect \/ \E cb \in Callbacks, types \in SUBSET Types \ {{}} : Bus!Subscribe(cb, types)
      BY <1>1, <1>3, <2>2 DEF Bus!Listen, Bus!Disconnect, Bus!Subscribe, Bus!ListenerSubscribes, Bus!ListenerGivesUp,
                              Bus!ListenerDelivers, Bus!stores, Bus!Next
  <2> QED
      BY <1>2, <1>3, <2>1, <2>2, PublishKeepsStores DEF Bus!Next, Bus!Run
<1> QED
    BY <1>1, <1>3 DEF ServicesNext, servicesVars, busVars, EngineTurn, HarnessTurn, BusTurn

LEMMA StoresStart == ASSUME ServicesAssumption, ServicesInit PROVE StoreInv
<1>1. /\ redis_client \in BOOLEAN /\ redis = <<>> /\ memory = <<>> /\ kind = <<>> /\ cleared = 0
      /\ Capacity \in Nat \ {0}
    BY DEF ServicesInit, Bus!Init, ServicesAssumption, Bus!BusAssumption
<1>2. NewestFirst(<<>>, 0) /\ OldestFirst(<<>>, 0) /\ Exactly(<<>>, 0, 0) /\ Len(<<>>) = 0
    BY <1>1 DEF NewestFirst, OldestFirst, Exactly
<1> QED
    BY <1>1, <1>2 DEF StoreInv

LEMMA ToSetIs == ASSUME NEW s \in Seq(Nat) PROVE \A e : e \in Bus!ToSet(s) <=> In(s, e)
<1>1. DOMAIN s = 1..Len(s)
    BY LenProperties
<1> QED
    BY <1>1 DEF Bus!ToSet, In

LEMMA LatestStayStored == ASSUME ServicesAssumption, StoreInv PROVE Bus!LatestKept
<1>1. /\ Len(kind) \in Nat /\ Bus!Events = 1..Len(kind) /\ Capacity \in Nat \ {0} /\ cleared \in 0..Len(kind)
      /\ redis \in Seq(Nat) /\ memory \in Seq(Nat)
    BY LenProperties DEF StoreInv, NewestFirst, OldestFirst, Bus!Events, ServicesAssumption, Bus!BusAssumption
<1> SUFFICES ASSUME redis_client, Len(memory) < Capacity, NEW e \in Bus!Latest(Capacity) \ 1..cleared
             PROVE  In(redis, e) \/ In(memory, e)
    BY <1>1, ToSetIs DEF Bus!LatestKept
<1>2. e \in 1..Len(kind) /\ e > Len(kind) - Capacity /\ e > cleared
    BY <1>1 DEF Bus!Latest
<1>3. In(memory, e) \/ In(redis, e) \/ FellOut(redis, e)
    BY <1>2 DEF StoreInv
<1>4. ~FellOut(redis, e)
  <2> SUFFICES ASSUME Len(redis) = Capacity, e < redis[Capacity] PROVE FALSE
      BY DEF FellOut
  <2>1. Capacity \in 1..Len(redis)
      BY <1>1
  <2>2. redis[Capacity] \in 1..Len(kind) + 1 - Capacity
      BY <2>1 DEF StoreInv, NewestFirst
  <2> QED
      BY <1>1, <1>2, <2>2
<1> QED
    BY <1>3, <1>4

\* The lists are what the queries see, and their first events what a limit leaves.
LEMMA QueriesSee == ASSUME ServicesAssumption, StoreInv PROVE Bus!QueriesFind
<1> SUFFICES ASSUME redis_client, memory = <<>>
             PROVE  /\ \A e \in Bus!Events : Bus!Found(e) = (e \in Bus!Latest(Capacity) \ 1..cleared)
                    /\ Bus!EventCount = Bus!Cardinality({e \in Bus!Events : Bus!Found(e)})
                    /\ \A type \in Types, limit \in 1..Capacity :
                          Bus!ByType(type, limit) = {e \in Bus!Latest(limit) \ 1..cleared : kind[e] = type}
    BY DEF Bus!QueriesFind
<1> DEFINE n == Len(kind)
           count == Len(redis)
<1>1. /\ n \in Nat /\ Bus!Events = 1..n /\ Capacity \in Nat \ {0} /\ cleared \in 0..n
      /\ redis \in Seq(Nat) /\ count \in Nat /\ Bus!Asked = redis
    BY LenProperties DEF StoreInv, NewestFirst, Bus!Events, ServicesAssumption, Bus!BusAssumption, Bus!Asked
<1>2. Exactly(redis, n, cleared)
    BY DEF StoreInv
<1>3. count = (IF n - cleared < Capacity THEN n - cleared ELSE Capacity) /\ \A i \in 1..count : redis[i] = n + 1 - i
    BY <1>2 DEF Exactly
<1> HIDE DEF n, count
<1>4. ASSUME NEW limit \in 1..Capacity
      PROVE  {e \in Bus!Latest(limit) : e \notin 1..cleared} =
             {e \in Bus!Events : e > n - (IF limit < count THEN limit ELSE count)}
    BY <1>1, <1>3 DEF Bus!Latest, n
<1>5. ASSUME NEW m \in 0..count, NEW e \in Bus!Events
      PROVE  (\E i \in 1..m : redis[i] = e) <=> e > n - m
  <2>1. ASSUME NEW i \in 1..m, redis[i] = e PROVE e > n - m
      BY <1>1, <1>3, <2>1
  <2>2. ASSUME e > n - m PROVE \E i \in 1..m : redis[i] = e
    <3>1. n + 1 - e \in 1..m /\ n + 1 - e \in 1..count
        BY <1>1, <2>2
    <3>2. redis[n + 1 - e] = e
        BY <1>1, <1>3, <3>1
    <3> QED
        BY <3>1, <3>2
  <2> QED
      BY <2>1, <2>2
<1>6. \A e \in Bus!Events : Bus!Found(e) <=> e > n - count
  <2> TAKE e \in Bus!Events
  <2>1. Bus!Found(e) <=> \E i \in 1..count : redis[i] = e
      BY <1>1, ToSetIs DEF Bus!Found, In, count
  <2>2. count \in 0..count
      BY <1>1
  <2> QED
      BY <1>5, <2>1, <2>2
<1>7. \A e \in Bus!Events : Bus!Found(e) = (e \in Bus!Latest(Capacity) \ 1..cleared)
    BY <1>1, <1>3, <1>6 DEF Bus!Found, Bus!Latest, n
<1>8. Bus!EventCount = Bus!Cardinality({e \in Bus!Events : Bus!Found(e)})
  <2>1. {e \in Bus!Events : Bus!Found(e)} = n - count + 1..n
      BY <1>1, <1>3, <1>6
  <2>2. Cardinality(n - count + 1..n) = count
    <3>1. n - count + 1 \in Int /\ n \in Int
        BY <1>1
    <3>2. Cardinality(n - count + 1..n) = IF n - count + 1 > n THEN 0 ELSE n - (n - count + 1) + 1
        BY <3>1, FS_Interval
    <3> QED
        BY <1>1, <3>2
  <2>3. \A S : Bus!Cardinality(S) = Cardinality(S)
      BY DEF Bus!Cardinality, Cardinality, Bus!IsFiniteSet, IsFiniteSet
  <2> QED
      BY <1>1, <2>1, <2>2, <2>3 DEF Bus!EventCount, count
<1>9. ASSUME NEW type \in Types, NEW limit \in 1..Capacity
      PROVE  Bus!ByType(type, limit) = {e \in Bus!Latest(limit) \ 1..cleared : kind[e] = type}
  <2> DEFINE m == IF limit < count THEN limit ELSE count
             seen == SubSeq(redis, 1, m)
  <2>1. m \in 0..count
      BY <1>1
  <2>2. \A i \in 1..m : redis[i] \in Bus!Events /\ redis[i] \in Nat
      BY <1>1, <1>3, <2>1
  <2> HIDE DEF m
  <2>3. /\ seen \in Seq(Nat) /\ Len(seen) = m
        /\ \A i \in 1..m : seen[i] = redis[i]
    <3>1. /\ seen \in Seq(Nat) /\ Len(seen) = IF 1 <= m THEN m - 1 + 1 ELSE 0
          /\ \A i \in 1..m - 1 + 1 : seen[i] = redis[1 + i - 1]
        BY <2>1, <2>2, SubSeqProperties
    <3> QED
        BY <1>1, <2>1, <3>1
  <2> HIDE DEF seen
  <2>4. \A e : e \in Bus!ToSet(seen) <=> e \in Bus!Events /\ e > n - m
    <3>1. \A e : e \in Bus!ToSet(seen) <=> \E i \in 1..m : redis[i] = e
        BY <2>3, ToSetIs DEF In
    <3> QED
        BY <1>5, <2>1, <2>2, <3>1
  <2>5. Bus!ByType(type, limit) = {e \in Bus!ToSet(seen) : kind[e] = type}
      BY <1>1 DEF Bus!ByType, seen, m, count
  <2>6. \A e : e \in Bus!Latest(limit) \ 1..cleared <=> e \in Bus!Events /\ e > n - m
      BY <1>4 DEF m
  <2> QED
      BY <2>4, <2>5, <2>6
<1> QED
    BY <1>7, <1>8, <1>9

-----------------------------------------------------------------------------
(* The event bus: who was told of an event. *)

\* The callback is in the list before place n.
Before(list, n, cb) == \E i \in 1..Len(list) : i < n /\ list[i] = cb

GotTypes == [1..MaxEvents -> [Callbacks -> [whole : Nat, rebuilt : Nat]]]

BusType ==
    /\ kind \in Seq(Types) /\ Len(kind) <= MaxEvents
    /\ subscribers \in [Types -> Seq(Callbacks)]
    /\ owed \in [1..MaxEvents -> SUBSET Callbacks]
    /\ got \in GotTypes
    /\ dispatch \in [Publishers -> [event : Nat, next : Nat]]
    /\ wire \in Seq(Nat)
    /\ redis_client \in BOOLEAN /\ listening \in BOOLEAN
    /\ listener \in {"off", "starting", "listening", "ended"} /\ channels \subseteq Types

SubscribedOnce ==
    \A type \in Types : \A i, j \in 1..Len(subscribers[type]) :
        subscribers[type][i] = subscribers[type][j] => i = j

ListenerInv ==
    /\ ~listening => listener \in {"off", "ended"}
    /\ listener # "listening" => channels = {} /\ wire = <<>>

DispatchInv ==
    /\ \A p \in Publishers :
          \/ dispatch[p] = Bus!Idle
          \/ /\ dispatch[p].event \in 1..Len(kind)
             /\ dispatch[p].next \in 1..Len(subscribers[kind[dispatch[p].event]]) + 1
    /\ \A p, q \in Publishers : dispatch[p].event = dispatch[q].event /\ dispatch[p].event # 0 => p = q

\* A publisher that is at callback n has called those before it, and owes the event to no other
\* than those it will call; one that has returned owes it to nobody.
Midway(e, n) ==
    \A cb \in Callbacks : /\ got[e][cb].whole = IF Before(subscribers[kind[e]], n, cb) THEN 1 ELSE 0
                          /\ cb \in owed[e] => In(subscribers[kind[e]], cb)
Through(e) == \A cb \in Callbacks : got[e][cb].whole <= 1 /\ (cb \in owed[e] => got[e][cb].whole = 1)

ToldInv ==
    /\ \A e \in 1..MaxEvents : e > Len(kind) => \A cb \in Callbacks : got[e][cb].whole = 0
    /\ \A p \in Publishers : dispatch[p].event # 0 => Midway(dispatch[p].event, dispatch[p].next)
    /\ \A e \in 1..Len(kind) : (\A p \in Publishers : dispatch[p].event # e) => Through(e)

\* What is on the wire was not heard of yet.
HeardInv ==
    /\ \A i \in 1..Len(wire) : wire[i] \in 1..Len(kind) /\ \A cb \in Callbacks : got[wire[i]][cb].rebuilt = 0
    /\ \A i, j \in 1..Len(wire) : wire[i] = wire[j] => i = j
    /\ \A e \in 1..MaxEvents : \A cb \in Callbacks :
          got[e][cb].rebuilt <= 1 /\ (e > Len(kind) => got[e][cb].rebuilt = 0)

BusInv == BusType /\ SubscribedOnce /\ ListenerInv /\ DispatchInv /\ ToldInv /\ HeardInv

LEMMA BusCounts ==
    ASSUME ServicesAssumption, BusType
    PROVE  /\ MaxEvents \in Nat /\ Len(kind) \in Nat /\ Len(wire) \in Nat
           /\ \A e \in 1..Len(kind) : e \in 1..MaxEvents /\ kind[e] \in Types
           /\ \A type \in Types : Len(subscribers[type]) \in Nat /\ DOMAIN subscribers[type] = 1..Len(subscribers[type])
<1>1. MaxEvents \in Nat /\ Len(kind) \in Nat /\ Len(wire) \in Nat /\ Len(kind) <= MaxEvents
    BY LenProperties DEF ServicesAssumption, Bus!BusAssumption, BusType
<1>2. \A type \in Types : /\ subscribers[type] \in Seq(Callbacks) /\ Len(subscribers[type]) \in Nat
                          /\ DOMAIN subscribers[type] = 1..Len(subscribers[type])
    BY LenProperties DEF BusType
<1>3. \A e \in 1..Len(kind) : kind[e] \in Types /\ e \in 1..MaxEvents
  <2> TAKE e \in 1..Len(kind)
  <2>1. kind[e] \in Types
      BY ElementOfSeq DEF BusType
  <2> QED
      BY <1>1, <2>1
<1> QED
    BY <1>1, <1>2, <1>3

\* Calls made with an event.
Told(old, e, callbacks, whole, rebuilt) ==
    [old EXCEPT ![e] = [cb \in Callbacks |->
        IF cb \in callbacks THEN [whole |-> old[e][cb].whole + whole, rebuilt |-> old[e][cb].rebuilt + rebuilt]
        ELSE old[e][cb]]]

\* These callbacks got the event so often more, and nothing else changed.
OnlyThese(old, new, e, callbacks, whole, rebuilt) ==
    /\ new \in GotTypes
    /\ \A f \in 1..MaxEvents : \A cb \in Callbacks :
          /\ old[f][cb].whole \in Nat /\ old[f][cb].rebuilt \in Nat
          /\ IF f = e /\ cb \in callbacks
             THEN /\ new[f][cb].whole = old[f][cb].whole + whole
                  /\ new[f][cb].rebuilt = old[f][cb].rebuilt + rebuilt
             ELSE new[f][cb] = old[f][cb]

LEMMA ToldOnce ==
    ASSUME NEW old \in GotTypes, NEW e \in 1..MaxEvents, NEW callbacks, NEW whole \in Nat, NEW rebuilt \in Nat
    PROVE  OnlyThese(old, Told(old, e, callbacks, whole, rebuilt), e, callbacks, whole, rebuilt)
<1> DEFINE new == Told(old, e, callbacks, whole, rebuilt)
<1>1. \A f \in 1..MaxEvents : \A cb \in Callbacks : old[f][cb] \in [whole : Nat, rebuilt : Nat]
    BY DEF GotTypes
<1>2. \A f \in 1..MaxEvents : f # e => new[f] = old[f]
    BY DEF GotTypes, Told
<1>3. new[e] = [cb \in Callbacks |->
                  IF cb \in callbacks
                  THEN [whole |-> old[e][cb].whole + whole, rebuilt |-> old[e][cb].rebuilt + rebuilt]
                  ELSE old[e][cb]]
    BY DEF GotTypes, Told
<1>4. new[e] \in [Callbacks -> [whole : Nat, rebuilt : Nat]]
    BY <1>1, <1>3
<1>5. new \in GotTypes
    BY <1>2, <1>4 DEF GotTypes, Told
<1> HIDE DEF new
<1>6. ASSUME NEW f \in 1..MaxEvents, NEW cb \in Callbacks
      PROVE  /\ old[f][cb].whole \in Nat /\ old[f][cb].rebuilt \in Nat
             /\ IF f = e /\ cb \in callbacks
                THEN /\ new[f][cb].whole = old[f][cb].whole + whole
                     /\ new[f][cb].rebuilt = old[f][cb].rebuilt + rebuilt
                ELSE new[f][cb] = old[f][cb]
  <2>1. CASE f = e /\ cb \in callbacks
    <3>1. new[f][cb] = [whole |-> old[e][cb].whole + whole, rebuilt |-> old[e][cb].rebuilt + rebuilt]
        BY <1>3, <2>1
    <3> QED
        BY <1>1, <2>1, <3>1
  <2>2. CASE ~(f = e /\ cb \in callbacks)
    <3>1. new[f][cb] = old[f][cb]
        BY <1>2, <1>3, <2>2
    <3> QED
        BY <1>1, <2>2, <3>1
  <2> QED
      BY <2>1, <2>2
<1> QED
    BY <1>5, <1>6 DEF new, OnlyThese

LEMMA SubscribeKeepsBus ==
    ASSUME ServicesAssumption, BusInv, NEW cb \in Callbacks, NEW types \in SUBSET Types, Bus!Subscribe(cb, types),
           UNCHANGED redis_client
    PROVE  BusInv'
<1> USE DEF BusInv
<1>1. /\ UNCHANGED <<kind, channels, wire, dispatch, owed, got>>
      /\ \A type \in Types : cb \notin Bus!ToSet(subscribers[type])
      /\ subscribers' = [type \in Types |-> IF type \in types THEN Append(subscribers[type], cb)
                                            ELSE subscribers[type]]
    BY DEF Bus!Subscribe, Bus!Of
<1>2. ASSUME NEW type \in Types
      PROVE  /\ subscribers'[type] \in Seq(Callbacks)
             /\ Len(subscribers[type]) \in Nat /\ Len(subscribers'[type]) \in Nat
             /\ Len(subscribers[type]) <= Len(subscribers'[type])
             /\ \A i \in 1..Len(subscribers[type]) :
                   /\ i \in 1..Len(subscribers'[type]) /\ subscribers'[type][i] = subscribers[type][i]
                   /\ subscribers[type][i] # cb
             /\ \A i \in 1..Len(subscribers'[type]) :
                   i \notin 1..Len(subscribers[type]) => i = Len(subscribers[type]) + 1 /\ subscribers'[type][i] = cb
  <2> DEFINE s == subscribers[type]
  <2>1. s \in Seq(Callbacks) /\ Len(s) \in Nat /\ DOMAIN s = 1..Len(s) /\ subscribers'[type] \in {s, Append(s, cb)}
      BY <1>1, BusCounts DEF BusType
  <2>2. \A i \in 1..Len(s) : s[i] # cb
      BY <1>1, <2>1 DEF Bus!ToSet
  <2> HIDE DEF s
  <2>3. /\ Append(s, cb) \in Seq(Callbacks) /\ Len(Append(s, cb)) = Len(s) + 1
        /\ \A i \in 1..Len(s) : Append(s, cb)[i] = s[i]
        /\ Append(s, cb)[Len(s) + 1] = cb
      BY <2>1, AppendProperties
  <2>4. CASE subscribers'[type] = s
      BY <2>1, <2>2, <2>4 DEF s
  <2>5. CASE subscribers'[type] = Append(s, cb)
    <3>1. Len(subscribers'[type]) = Len(s) + 1 /\ \A i \in 1..Len(s) : i \in 1..Len(s) + 1
        BY <2>1, <2>3, <2>5
    <3>2. \A i \in 1..Len(s) + 1 : i \notin 1..Len(s) => i = Len(s) + 1
        BY <2>1
    <3> QED
        BY <2>1, <2>2, <2>3, <2>5, <3>1, <3>2 DEF s
  <2> QED
      BY <2>1, <2>4, <2>5
<1>3. BusType'
  <2>1. subscribers' \in [Types -> Seq(Callbacks)]
      BY <1>1, <1>2
  <2> QED
      BY <1>1, <2>1 DEF BusType, Bus!Subscribe
<1>4. SubscribedOnce'
  <2> SUFFICES ASSUME NEW type \in Types, NEW i \in 1..Len(subscribers'[type]), NEW j \in 1..Len(subscribers'[type]),
                      subscribers'[type][i] = subscribers'[type][j]
               PROVE  i = j
      BY DEF SubscribedOnce
  <2> QED
      BY <1>2 DEF SubscribedOnce
<1>5. ListenerInv'
    BY <1>1 DEF Bus!Subscribe, ListenerInv
<1>6. ASSUME NEW type \in Types
      PROVE  /\ \A n \in 1..Len(subscribers[type]) + 1 : \A c :
                   Before(subscribers'[type], n, c) <=> Before(subscribers[type], n, c)
             /\ \A c : In(subscribers[type], c) => In(subscribers'[type], c)
  <2>1. /\ Len(subscribers[type]) \in Nat /\ Len(subscribers'[type]) \in Nat
        /\ \A i \in 1..Len(subscribers[type]) :
              i \in 1..Len(subscribers'[type]) /\ subscribers'[type][i] = subscribers[type][i]
      BY <1>2
  <2>2. ASSUME NEW n \in 1..Len(subscribers[type]) + 1
        PROVE  \A i \in 1..Len(subscribers'[type]) : i < n => i \in 1..Len(subscribers[type])
      BY <2>1
  <2> QED
      BY <2>1, <2>2 DEF Before, In
<1>7. ASSUME NEW p \in Publishers, dispatch[p] # Bus!Idle
      PROVE  \E type \in Types :
                /\ dispatch[p].event \in 1..Len(kind) /\ kind[dispatch[p].event] = type
                /\ dispatch[p].next \in 1..Len(subscribers[type]) + 1
    BY <1>7, BusCounts DEF DispatchInv
<1>8. DispatchInv'
  <2>1. ASSUME NEW p \in Publishers, dispatch[p] # Bus!Idle
        PROVE  /\ dispatch[p].event \in 1..Len(kind)
               /\ dispatch[p].next \in 1..Len(subscribers'[kind[dispatch[p].event]]) + 1
    <3>1. PICK type \in Types :
            /\ dispatch[p].event \in 1..Len(kind) /\ kind[dispatch[p].event] = type
            /\ dispatch[p].next \in 1..Len(subscribers[type]) + 1
        BY <1>7, <2>1
    <3> QED
        BY <1>2, <3>1
  <2> QED
      BY <1>1, <2>1 DEF DispatchInv, Bus!Idle
<1>9. ToldInv'
  <2>1. ASSUME NEW p \in Publishers, dispatch[p].event # 0 PROVE Midway(dispatch[p].event, dispatch[p].next)'
    <3>1. PICK type \in Types :
            /\ dispatch[p].event \in 1..Len(kind) /\ kind[dispatch[p].event] = type
            /\ dispatch[p].next \in 1..Len(subscribers[type]) + 1
        BY <1>7, <2>1 DEF Bus!Idle
    <3>2. Midway(dispatch[p].event, dispatch[p].next)
        BY <2>1 DEF ToldInv
    <3> QED
        BY <1>1, <1>6, <3>1, <3>2 DEF Midway
  <2> QED
      BY <1>1, <2>1 DEF ToldInv, Through
<1>10. HeardInv'
    BY <1>1 DEF HeardInv
<1> QED
    BY <1>3, <1>4, <1>5, <1>8, <1>9, <1>10

\* The listener starts, fails or is disconnected; none of it calls anyone.
LEMMA ListenerKeepsBus ==
    ASSUME ServicesAssumption, BusInv, UNCHANGED redis_client,
           Bus!ListenerSubscribes \/ Bus!ListenerGivesUp \/ Bus!Disconnect
    PROVE  BusInv'
<1> USE DEF BusInv
<1>1. UNCHANGED <<subscribers, kind, dispatch, owed, got>>
    BY DEF Bus!ListenerSubscribes, Bus!ListenerGivesUp, Bus!Disconnect
<1>2. wire' = wire \/ wire' = <<>>
    BY DEF Bus!ListenerSubscribes, Bus!ListenerGivesUp, Bus!Disconnect
<1>3. BusType'
  <2>1. wire' \in Seq(Nat) /\ redis_client' \in BOOLEAN /\ listening' \in BOOLEAN
    <3>1. <<>> \in Seq(Nat) /\ wire \in Seq(Nat)
        BY DEF BusType
    <3> QED
        BY <1>2, <3>1 DEF Bus!ListenerSubscribes, Bus!ListenerGivesUp, Bus!Disconnect, BusType
  <2>2. listener' \in {"off", "starting", "listening", "ended"} /\ channels' \subseteq Types
      BY DEF Bus!ListenerSubscribes, Bus!ListenerGivesUp, Bus!Disconnect, BusType
  <2> QED
      BY <1>1, <2>1, <2>2 DEF BusType
<1>4. ListenerInv'
    BY DEF Bus!ListenerSubscribes, Bus!ListenerGivesUp, Bus!Disconnect, BusType, ListenerInv
<1>5. SubscribedOnce' /\ DispatchInv' /\ ToldInv'
    BY <1>1 DEF SubscribedOnce, DispatchInv, ToldInv, Midway, Through
<1>6. HeardInv'
    BY <1>1, <1>2 DEF HeardInv
<1> QED
    BY <1>3, <1>4, <1>5, <1>6

LEMMA DeliverKeepsBus ==
    ASSUME ServicesAssumption, BusInv, UNCHANGED redis_client, Bus!ListenerDelivers
    PROVE  BusInv'
<1> USE DEF BusInv
<1>1. /\ UNCHANGED <<redis_client, subscribers, listening, listener, channels, kind, dispatch, owed>>
      /\ listener = "listening" /\ wire # <<>> /\ wire' = Tail(wire) /\ wire \in Seq(Nat)
      /\ MaxEvents \in Nat /\ Len(kind) \in Nat
    BY BusCounts DEF Bus!ListenerDelivers, Bus!listenerVars, BusType
<1>2. /\ Len(wire) \in Nat \ {0} /\ Head(wire) = wire[1] /\ wire' \in Seq(Nat) /\ Len(wire') = Len(wire) - 1
      /\ \A i \in 1..Len(wire') : wire'[i] = wire[i + 1]
    BY <1>1, EmptySeq, LenProperties, HeadTailProperties
<1>3. PICK e \in 1..MaxEvents : e = Head(wire) /\ e \in 1..Len(kind)
    BY <1>2, BusCounts DEF HeardInv
<1>4. PICK callbacks : got' = Told(got, e, callbacks, 0, 1)
    BY <1>3 DEF Bus!ListenerDelivers, Bus!Tell, Told
<1>5. /\ got' \in GotTypes
      /\ \A f \in 1..MaxEvents : \A cb \in Callbacks :
            /\ got'[f][cb].whole = got[f][cb].whole
            /\ got'[f][cb].rebuilt <= got[f][cb].rebuilt + 1
            /\ f # e => got'[f][cb].rebuilt = got[f][cb].rebuilt
  <2>1. got \in GotTypes /\ 0 \in Nat /\ 1 \in Nat
      BY DEF BusType
  <2>2. OnlyThese(got, got', e, callbacks, 0, 1)
      BY <1>4, <2>1, ToldOnce
  <2> QED
      BY <2>2 DEF OnlyThese
<1>6. BusType' /\ SubscribedOnce' /\ ListenerInv' /\ DispatchInv'
    BY <1>1, <1>2, <1>5 DEF BusType, SubscribedOnce, ListenerInv, DispatchInv
<1>7. ToldInv'
  <2>1. ASSUME NEW f \in 1..Len(kind) PROVE f \in 1..MaxEvents
      BY <2>1, BusCounts
  <2>2. ASSUME NEW p \in Publishers, dispatch[p].event # 0 PROVE Midway(dispatch[p].event, dispatch[p].next)'
    <3>1. PICK f \in 1..MaxEvents : f = dispatch[p].event
        BY <2>1, <2>2 DEF DispatchInv, Bus!Idle
    <3>2. Midway(f, dispatch[p].next)
        BY <2>2, <3>1 DEF ToldInv
    <3>3. \A cb \in Callbacks : got'[f][cb].whole = got[f][cb].whole
        BY <1>5
    <3> QED
        BY <1>1, <3>1, <3>2, <3>3 DEF Midway
  <2>3. ASSUME NEW f \in 1..Len(kind), \A p \in Publishers : dispatch[p].event # f PROVE Through(f)'
    <3>1. Through(f)
        BY <2>3 DEF ToldInv
    <3> QED
        BY <1>1, <1>5, <2>1, <3>1 DEF Through
  <2>4. \A f \in 1..MaxEvents : f > Len(kind) => \A cb \in Callbacks : got'[f][cb].whole = 0
      BY <1>5 DEF ToldInv
  <2> QED
      BY <1>1, <2>2, <2>3, <2>4 DEF ToldInv
<1>8. HeardInv'
  <2>1. ASSUME NEW i \in 1..Len(wire') PROVE i + 1 \in 1..Len(wire) /\ wire'[i] = wire[i + 1] /\ wire'[i] # e
    <3>1. i + 1 \in 1..Len(wire) /\ 1 \in 1..Len(wire) /\ i + 1 # 1 /\ wire'[i] = wire[i + 1]
        BY <1>2
    <3>2. wire[i + 1] # wire[1]
        BY <3>1 DEF HeardInv
    <3> QED
        BY <1>2, <1>3, <3>1, <3>2
  <2>2. ASSUME NEW i \in 1..Len(wire')
        PROVE  wire'[i] \in 1..Len(kind) /\ \A cb \in Callbacks : got'[wire'[i]][cb].rebuilt = 0
    <3>1. wire'[i] \in 1..Len(kind) /\ \A cb \in Callbacks : got[wire'[i]][cb].rebuilt = 0
        BY <2>1 DEF HeardInv
    <3>2. wire'[i] \in 1..MaxEvents /\ wire'[i] # e
        BY <2>1, <3>1, BusCounts
    <3> QED
        BY <1>5, <3>1, <3>2
  <2>3. ASSUME NEW i \in 1..Len(wire'), NEW j \in 1..Len(wire'), wire'[i] = wire'[j] PROVE i = j
    <3>1. i + 1 = j + 1
        BY <2>1, <2>3 DEF HeardInv
    <3> QED
        BY <1>2, <3>1
  <2>4. ASSUME NEW f \in 1..MaxEvents, NEW cb \in Callbacks
        PROVE  got'[f][cb].rebuilt <= 1 /\ (f > Len(kind) => got'[f][cb].rebuilt = 0)
    <3>1. CASE f = e
      <4>1. 1 \in 1..Len(wire) /\ wire[1] = e
          BY <1>2, <1>3
      <4>2. got[e][cb].rebuilt = 0
          BY <4>1 DEF HeardInv
      <4>3. got'[e][cb].rebuilt <= got[e][cb].rebuilt + 1
          BY <1>5
      <4> QED
          BY <1>1, <1>3, <3>1, <4>2, <4>3
    <3>2. CASE f # e
        BY <1>5, <3>2 DEF HeardInv
    <3> QED
        BY <3>1, <3>2
  <2> QED
      BY <1>1, <2>2, <2>3, <2>4 DEF HeardInv
<1> QED
    BY <1>6, <1>7, <1>8

LEMMA PublishedKeepsBus ==
    ASSUME ServicesAssumption, BusInv, UNCHANGED redis_client, NEW p \in Publishers, Bus!Published(p)
    PROVE  BusInv'
<1> USE DEF BusInv
<1>1. /\ UNCHANGED <<redis_client, subscribers, listening, listener, channels, wire, kind, owed, got>>
      /\ dispatch[p] # Bus!Idle /\ dispatch[p].next > Len(subscribers[kind[dispatch[p].event]])
      /\ dispatch' = [dispatch EXCEPT ![p] = Bus!Idle]
    BY DEF Bus!Published, Bus!listenerVars
<1>2. PICK e \in 1..Len(kind) : e = dispatch[p].event /\ dispatch[p].next \in 1..Len(subscribers[kind[e]]) + 1
    BY <1>1 DEF DispatchInv
<1>3. /\ dispatch \in [Publishers -> [event : Nat, next : Nat]] /\ Bus!Idle \in [event : Nat, next : Nat]
      /\ Bus!Idle.event = 0
    BY DEF BusType, Bus!Idle
<1>4. /\ dispatch' \in [Publishers -> [event : Nat, next : Nat]]
      /\ \A q \in Publishers : dispatch'[q] = IF q = p THEN Bus!Idle ELSE dispatch[q]
    BY <1>1, <1>3
<1>5. BusType' /\ SubscribedOnce' /\ ListenerInv' /\ HeardInv'
  <2>1. BusType'
      BY <1>1, <1>4 DEF BusType, GotTypes
  <2> QED
      BY <1>1, <2>1 DEF SubscribedOnce, ListenerInv, HeardInv
<1>6. DispatchInv'
    BY <1>1, <1>3, <1>4 DEF DispatchInv
<1>7. Through(e)
  <2> DEFINE list == subscribers[kind[e]]
  <2>1. Len(list) \in Nat /\ Len(list) < dispatch[p].next /\ dispatch[p].next \in Nat
      BY <1>1, <1>2, BusCounts
  <2>2. e # 0 /\ Midway(e, dispatch[p].next)
      BY <1>2 DEF ToldInv
  <2>3. \A cb : In(list, cb) => Before(list, dispatch[p].next, cb)
      BY <2>1 DEF In, Before
  <2> QED
      BY <2>2, <2>3 DEF Midway, Through
<1>8. ToldInv'
  <2>1. \A q \in Publishers : dispatch'[q].event # 0 => Midway(dispatch[q].event, dispatch[q].next)'
    <3> TAKE q \in Publishers
    <3> HAVE dispatch'[q].event # 0
    <3>1. dispatch'[q] = dispatch[q] /\ Midway(dispatch[q].event, dispatch[q].next)
        BY <1>3, <1>4 DEF ToldInv
    <3> QED
        BY <1>1, <3>1 DEF Midway
  <2>2. ASSUME NEW f \in 1..Len(kind), \A q \in Publishers : dispatch'[q].event # f PROVE Through(f)
    <3>1. CASE f = e
        BY <1>7, <3>1
    <3>2. CASE f # e
        BY <1>2, <1>4, <2>2, <3>2 DEF ToldInv
    <3> QED
        BY <3>1, <3>2
  <2> QED
      BY <1>1, <2>1, <2>2 DEF ToldInv, Through
<1> QED
    BY <1>5, <1>6, <1>8

LEMMA DispatchKeepsBus ==
    ASSUME ServicesAssumption, BusInv, UNCHANGED redis_client, NEW p \in Publishers, Bus!Dispatch(p)
    PROVE  BusInv'
<1> USE DEF BusInv
<1>1. UNCHANGED <<redis_client, subscribers, listening, listener, channels, wire, kind, owed>>
    BY DEF Bus!Dispatch, Bus!listenerVars
<1>2. PICK e \in 1..Len(kind), n \in Nat :
        /\ dispatch[p].event = e /\ dispatch[p].next = n /\ n >= 1 /\ n <= Len(subscribers[kind[e]])
        /\ dispatch' = [dispatch EXCEPT ![p] = [event |-> e, next |-> n + 1]]
        /\ got' = Told(got, e, {subscribers[kind[e]][n]}, 1, 0)
  <2>1. /\ dispatch[p] # Bus!Idle /\ dispatch[p].next <= Len(subscribers[kind[dispatch[p].event]])
        /\ dispatch' = [dispatch EXCEPT ![p] = [event |-> dispatch[p].event, next |-> dispatch[p].next + 1]]
        /\ got' = Told(got, dispatch[p].event, {subscribers[kind[dispatch[p].event]][dispatch[p].next]}, 1, 0)
      BY DEF Bus!Dispatch, Bus!Tell, Told
  <2>2. dispatch[p].event \in 1..Len(kind) /\ dispatch[p].next \in Nat /\ dispatch[p].next >= 1
      BY <2>1 DEF DispatchInv
  <2> QED
      BY <2>1, <2>2
<1>3. e \in 1..MaxEvents /\ kind[e] \in Types /\ Len(kind) \in Nat /\ MaxEvents \in Nat /\ e # 0
    BY BusCounts
<1>4. PICK list \in Seq(Callbacks) : list = subscribers[kind[e]]
    BY <1>3 DEF BusType
<1>5. Len(list) \in Nat /\ n \in 1..Len(list) /\ \A i, j \in 1..Len(list) : list[i] = list[j] => i = j
    BY <1>2, <1>3, <1>4, BusCounts DEF SubscribedOnce
<1>6. PICK told : told = list[n]
    OBVIOUS
<1>7. /\ got' \in GotTypes
      /\ \A f \in 1..MaxEvents : \A cb \in Callbacks :
            /\ got[f][cb].whole \in Nat
            /\ got'[f][cb].rebuilt = got[f][cb].rebuilt
            /\ got'[f][cb].whole = IF f = e /\ cb = told THEN got[f][cb].whole + 1 ELSE got[f][cb].whole
  <2>1. got \in GotTypes /\ 0 \in Nat /\ 1 \in Nat
      BY DEF BusType
  <2>2. OnlyThese(got, got', e, {told}, 1, 0)
      BY <1>2, <1>3, <1>4, <1>6, <2>1, ToldOnce
  <2> QED
      BY <2>2 DEF OnlyThese
<1>8. /\ dispatch' \in [Publishers -> [event : Nat, next : Nat]]
      /\ \A q \in Publishers : dispatch'[q] = IF q = p THEN [event |-> e, next |-> n + 1] ELSE dispatch[q]
    BY <1>2, <1>3 DEF BusType
<1>9. BusType' /\ SubscribedOnce' /\ ListenerInv'
  <2>1. BusType'
      BY <1>1, <1>7, <1>8 DEF BusType, GotTypes
  <2> QED
      BY <1>1, <2>1 DEF SubscribedOnce, ListenerInv
<1>10. DispatchInv'
  <2>1. ASSUME NEW q \in Publishers
        PROVE  /\ dispatch'[q].event = dispatch[q].event
               /\ \/ dispatch'[q] = Bus!Idle
                  \/ /\ dispatch'[q].event \in 1..Len(kind)
                     /\ dispatch'[q].next \in 1..Len(subscribers[kind[dispatch'[q].event]]) + 1
    <3>1. CASE q = p
      <4>1. n + 1 \in 1..Len(subscribers[kind[e]]) + 1
          BY <1>4, <1>5
      <4> QED
          BY <1>2, <1>8, <3>1, <4>1
    <3>2. CASE q # p
        BY <1>8, <3>2 DEF DispatchInv
    <3> QED
        BY <3>1, <3>2
  <2> QED
      BY <1>1, <2>1 DEF DispatchInv
<1>11. ToldInv'
  <2>1. ASSUME NEW q \in Publishers, dispatch'[q].event # 0 PROVE Midway(dispatch[q].event, dispatch[q].next)'
    <3>1. CASE q = p
      <4>1. Midway(e, n)
          BY <1>2, <1>3 DEF ToldInv
      <4>2. ASSUME NEW cb \in Callbacks
            PROVE  got'[e][cb].whole = IF Before(list, n + 1, cb) THEN 1 ELSE 0
        <5>1. got[e][cb].whole = IF Before(list, n, cb) THEN 1 ELSE 0
            BY <1>4, <4>1 DEF Midway
        <5>2. CASE cb = told
          <6>1. Before(list, n + 1, cb)
              BY <1>5, <1>6, <5>2 DEF Before
          <6>2. ~Before(list, n, cb)
              BY <1>5, <1>6, <5>2 DEF Before
          <6> QED
              BY <1>3, <1>7, <5>1, <5>2, <6>1, <6>2
        <5>3. CASE cb # told
          <6>1. Before(list, n + 1, cb) <=> Before(list, n, cb)
            <7>1. \A i \in 1..Len(list) : i < n + 1 <=> i < n \/ i = n
                BY <1>5
            <7> QED
                BY <1>6, <5>3, <7>1 DEF Before
          <6> QED
              BY <1>3, <1>7, <5>1, <5>3, <6>1
        <5> QED
            BY <5>2, <5>3
      <4>3. dispatch'[q].event = e /\ dispatch'[q].next = n + 1
          BY <1>8, <3>1
      <4>4. \A cb \in Callbacks : cb \in owed[e] => In(list, cb)
          BY <1>4, <4>1 DEF Midway
      <4> QED
          BY <1>1, <1>4, <4>2, <4>3, <4>4 DEF Midway
    <3>2. CASE q # p
      <4>1. dispatch'[q] = dispatch[q] /\ Midway(dispatch[q].event, dispatch[q].next)
          BY <1>8, <2>1, <3>2 DEF ToldInv
      <4>2. PICK f \in 1..MaxEvents : f = dispatch[q].event
          BY <2>1, <4>1, BusCounts DEF DispatchInv, Bus!Idle
      <4>3. f # e
          BY <1>2, <1>3, <3>2, <4>2 DEF DispatchInv
      <4>4. \A cb \in Callbacks : got'[f][cb].whole = got[f][cb].whole
          BY <1>7, <4>3
      <4> QED
          BY <1>1, <4>1, <4>2, <4>4 DEF Midway
    <3> QED
        BY <3>1, <3>2
  <2>2. ASSUME NEW f \in 1..Len(kind), \A q \in Publishers : dispatch'[q].event # f PROVE Through(f)'
    <3>1. f # e /\ f \in 1..MaxEvents
        BY <1>8, <2>2, BusCounts
    <3>2. \A q \in Publishers : dispatch[q].event # f
        BY <1>2, <1>8, <2>2, <3>1
    <3>3. Through(f)
        BY <3>2 DEF ToldInv
    <3>4. \A cb \in Callbacks : got'[f][cb].whole = got[f][cb].whole
        BY <1>7, <3>1
    <3> QED
        BY <1>1, <3>3, <3>4 DEF Through
  <2>3. ASSUME NEW f \in 1..MaxEvents, f > Len(kind), NEW cb \in Callbacks PROVE got'[f][cb].whole = 0
    <3>1. f # e /\ got[f][cb].whole = 0
        BY <1>3, <2>3 DEF ToldInv
    <3> QED
        BY <1>7, <3>1
  <2> QED
      BY <1>1, <2>1, <2>2, <2>3 DEF ToldInv
<1>12. HeardInv'
  <2>1. ASSUME NEW i \in 1..Len(wire) PROVE wire[i] \in 1..MaxEvents
      BY BusCounts DEF HeardInv
  <2>2. ASSUME NEW i \in 1..Len(wire), NEW cb \in Callbacks PROVE got'[wire[i]][cb].rebuilt = 0
      BY <1>7, <2>1 DEF HeardInv
  <2>3. \A f \in 1..MaxEvents : \A cb \in Callbacks :
            got'[f][cb].rebuilt <= 1 /\ (f > Len(kind) => got'[f][cb].rebuilt = 0)
      BY <1>7 DEF HeardInv
  <2> QED
      BY <1>1, <2>2, <2>3 DEF HeardInv
<1> QED
    BY <1>9, <1>10, <1>11, <1>12

LEMMA PublishKeepsBus ==
    ASSUME ServicesAssumption, BusInv, UNCHANGED redis_client, NEW p \in Publishers, NEW type \in Types,
           Bus!Publish(p, type)
    PROVE  BusInv'
<1> USE DEF BusInv
<1>1. PICK e \in Nat : e = Len(kind) + 1
    BY BusCounts
<1>2. /\ UNCHANGED <<redis_client, subscribers, listening, listener, channels, got>>
      /\ dispatch[p] = Bus!Idle /\ e <= MaxEvents /\ kind' = Append(kind, type)
      /\ dispatch' = [dispatch EXCEPT ![p] = [event |-> e, next |-> 1]]
      /\ owed' = [owed EXCEPT ![e] = Bus!ToSet(subscribers[type])]
      /\ wire' = wire \/ (wire' = Append(wire, e) /\ type \in channels)
    BY <1>1 DEF Bus!Publish, Bus!listenerVars, Bus!Of
<1>3. /\ e \in 1..MaxEvents /\ e # 0 /\ e > Len(kind) /\ Len(kind) \in Nat /\ MaxEvents \in Nat
      /\ \A f \in 1..Len(kind) : f \in 1..MaxEvents /\ f # e
      /\ \A f \in 1..e : f \in 1..Len(kind) \/ f = e
    BY <1>1, <1>2, BusCounts
<1>4. /\ kind' \in Seq(Types) /\ Len(kind') = e /\ kind'[e] = type
      /\ \A f \in 1..Len(kind) : kind'[f] = kind[f]
    BY <1>1, <1>2, AppendProperties DEF BusType
<1>5. /\ dispatch' \in [Publishers -> [event : Nat, next : Nat]]
      /\ \A q \in Publishers : dispatch'[q] = IF q = p THEN [event |-> e, next |-> 1] ELSE dispatch[q]
      /\ dispatch[p].event = 0
    BY <1>2 DEF BusType, Bus!Idle
<1>6. /\ subscribers[type] \in Seq(Callbacks) /\ Len(subscribers[type]) \in Nat
      /\ \A cb : cb \in Bus!ToSet(subscribers[type]) <=> In(subscribers[type], cb)
      /\ Bus!ToSet(subscribers[type]) \subseteq Callbacks
  <2>1. subscribers[type] \in Seq(Callbacks) /\ DOMAIN subscribers[type] = 1..Len(subscribers[type])
        /\ Len(subscribers[type]) \in Nat
      BY BusCounts DEF BusType
  <2>2. \A i \in 1..Len(subscribers[type]) : subscribers[type][i] \in Callbacks
      BY <2>1, ElementOfSeq
  <2> QED
      BY <2>1, <2>2 DEF Bus!ToSet, In
<1>7. /\ owed' \in [1..MaxEvents -> SUBSET Callbacks]
      /\ owed'[e] = Bus!ToSet(subscribers[type]) /\ \A f \in 1..Len(kind) : owed'[f] = owed[f]
    BY <1>2, <1>3, <1>6 DEF BusType
<1>8. /\ wire' \in Seq(Nat) /\ Len(wire) \in Nat
      /\ \A i \in 1..Len(wire') : \/ i \in 1..Len(wire) /\ wire'[i] = wire[i] /\ wire[i] \in 1..Len(kind)
                                  \/ i = Len(wire) + 1 /\ wire'[i] = e
  <2>1. wire \in Seq(Nat) /\ Len(wire) \in Nat /\ \A i \in 1..Len(wire) : wire[i] \in 1..Len(kind)
      BY BusCounts DEF BusType, HeardInv
  <2>2. CASE wire' = wire
      BY <2>1, <2>2
  <2>3. CASE wire' = Append(wire, e)
    <3>1. /\ wire' \in Seq(Nat) /\ Len(wire') = Len(wire) + 1 /\ wire'[Len(wire) + 1] = e
          /\ \A i \in 1..Len(wire) : wire'[i] = wire[i]
        BY <2>1, <2>3, AppendProperties
    <3>2. \A i \in 1..Len(wire) + 1 : i \in 1..Len(wire) \/ i = Len(wire) + 1
        BY <2>1
    <3> QED
        BY <2>1, <3>1, <3>2
  <2> QED
      BY <1>2, <2>2, <2>3
<1>9. BusType' /\ SubscribedOnce' /\ ListenerInv'
  <2>1. BusType'
      BY <1>2, <1>4, <1>5, <1>7, <1>8 DEF BusType, GotTypes
  <2> QED
      BY <1>2, <2>1 DEF SubscribedOnce, ListenerInv
<1>10. DispatchInv'
  <2>1. ASSUME NEW q \in Publishers, q # p
        PROVE  /\ dispatch'[q] = dispatch[q] /\ dispatch[q].event # e
               /\ \/ dispatch'[q] = Bus!Idle
                  \/ /\ dispatch'[q].event \in 1..e
                     /\ dispatch'[q].next \in 1..Len(subscribers[kind'[dispatch'[q].event]]) + 1
    <3>1. dispatch'[q] = dispatch[q]
        BY <1>5, <2>1
    <3>2. CASE dispatch[q] = Bus!Idle
        BY <1>3, <3>1, <3>2 DEF Bus!Idle
    <3>3. CASE dispatch[q] # Bus!Idle
      <4>1. PICK f \in 1..Len(kind) :
                f = dispatch[q].event /\ dispatch[q].next \in 1..Len(subscribers[kind[f]]) + 1
          BY <3>3 DEF DispatchInv
      <4>2. f \in 1..e /\ f # e /\ kind'[f] = kind[f]
          BY <1>1, <1>3, <1>4
      <4> QED
          BY <3>1, <4>1, <4>2
    <3> QED
        BY <3>2, <3>3
  <2>2. dispatch'[p].event = e /\ dispatch'[p].next = 1 /\ e \in 1..e
        /\ dispatch'[p].next \in 1..Len(subscribers[kind'[e]]) + 1
      BY <1>3, <1>4, <1>5, <1>6
  <2>3. ASSUME NEW q \in Publishers, NEW r \in Publishers, dispatch'[q].event = dispatch'[r].event,
               dispatch'[q].event # 0
        PROVE  q = r
      BY <2>1, <2>2, <2>3 DEF DispatchInv
  <2>4. subscribers' = subscribers
      BY <1>2
  <2> QED
      BY <1>4, <2>1, <2>2, <2>3, <2>4 DEF DispatchInv
<1>11. ToldInv'
  <2>1. ASSUME NEW q \in Publishers, dispatch'[q].event # 0 PROVE Midway(dispatch[q].event, dispatch[q].next)'
    <3>1. CASE q = p
      <4>1. dispatch'[q].event = e /\ dispatch'[q].next = 1
          BY <1>5, <3>1
      <4>2. \A cb \in Callbacks : got'[e][cb].whole = 0
          BY <1>2, <1>3 DEF ToldInv
      <4>3. \A cb : ~Before(subscribers[type], 1, cb)
          BY <1>6 DEF Before
      <4>4. subscribers' = subscribers
          BY <1>2
      <4> QED
          BY <1>4, <1>6, <1>7, <4>1, <4>2, <4>3, <4>4 DEF Midway
    <3>2. CASE q # p
      <4>1. dispatch'[q] = dispatch[q] /\ Midway(dispatch[q].event, dispatch[q].next)
          BY <1>5, <2>1, <3>2 DEF ToldInv
      <4>2. PICK f \in 1..Len(kind) : f = dispatch[q].event
          BY <2>1, <4>1 DEF DispatchInv, Bus!Idle
      <4>3. kind'[f] = kind[f] /\ owed'[f] = owed[f] /\ subscribers' = subscribers /\ got' = got
          BY <1>2, <1>4, <1>7
      <4> QED
          BY <4>1, <4>2, <4>3 DEF Midway
    <3> QED
        BY <3>1, <3>2
  <2>2. ASSUME NEW f \in 1..Len(kind'), \A q \in Publishers : dispatch'[q].event # f PROVE Through(f)'
    <3>1. f # e /\ f \in 1..Len(kind)
        BY <1>3, <1>4, <1>5, <2>2
    <3>2. \A q \in Publishers : dispatch[q].event # f
        BY <1>3, <1>5, <2>2, <3>1
    <3>3. Through(f)
        BY <3>1, <3>2 DEF ToldInv
    <3> QED
        BY <1>2, <1>7, <3>1, <3>3 DEF Through
  <2>3. ASSUME NEW f \in 1..MaxEvents, f > Len(kind'), NEW cb \in Callbacks PROVE got'[f][cb].whole = 0
    <3>1. f > Len(kind)
        BY <1>1, <1>4, <2>3
    <3> QED
        BY <1>2, <3>1 DEF ToldInv
  <2> QED
      BY <2>1, <2>2, <2>3 DEF ToldInv
<1>12. HeardInv'
  <2>1. ASSUME NEW i \in 1..Len(wire')
        PROVE  wire'[i] \in 1..Len(kind') /\ \A cb \in Callbacks : got'[wire'[i]][cb].rebuilt = 0
    <3>1. CASE i \in 1..Len(wire) /\ wire'[i] = wire[i] /\ wire[i] \in 1..Len(kind)
      <4>1. wire[i] \in 1..e
          BY <1>1, <3>1
      <4> QED
          BY <1>2, <1>4, <3>1, <4>1 DEF HeardInv
    <3>2. CASE i = Len(wire) + 1 /\ wire'[i] = e
      <4>1. e \in 1..e
          BY <1>3
      <4> QED
          BY <1>2, <1>3, <1>4, <3>2, <4>1 DEF HeardInv
    <3> QED
        BY <1>8, <3>1, <3>2
  <2>2. ASSUME NEW i \in 1..Len(wire'), NEW j \in 1..Len(wire'), wire'[i] = wire'[j] PROVE i = j
      BY <1>3, <1>8, <2>2 DEF HeardInv
  <2>3. ASSUME NEW f \in 1..MaxEvents, NEW cb \in Callbacks
        PROVE  got'[f][cb].rebuilt <= 1 /\ (f > Len(kind') => got'[f][cb].rebuilt = 0)
    <3>1. f > Len(kind') => f > Len(kind)
        BY <1>1, <1>4
    <3> QED
        BY <1>2, <3>1 DEF HeardInv
  <2> QED
      BY <2>1, <2>2, <2>3 DEF HeardInv
<1> QED
    BY <1>9, <1>10, <1>11, <1>12

LEMMA BusKept == ASSUME ServicesAssumption, BusInv, [ServicesNext]_servicesVars PROVE BusInv'
<1>1. CASE UNCHANGED <<redis_client, subscribers, listening, listener, channels, wire, kind, dispatch, owed, got>>
    BY <1>1 DEF BusInv, BusType, GotTypes, SubscribedOnce, ListenerInv, DispatchInv, ToldInv, Midway, Through, HeardInv
<1>2. CASE Bus!Next
  <2>1. CASE Bus!ClearHistory
      BY <1>1, <1>2, <2>1 DEF Bus!ClearHistory, Bus!Next, Bus!listenerVars
  <2> QED
      BY <1>2, <2>1, SubscribeKeepsBus, ListenerKeepsBus, DeliverKeepsBus, PublishKeepsBus, DispatchKeepsBus,
         PublishedKeepsBus DEF Bus!Next, Bus!Run, Bus!Listen, Bus!Calls
<1> QED
    BY <1>1, <1>2 DEF ServicesNext, servicesVars, busVars, EngineTurn, HarnessTurn, BusTurn

LEMMA BusStarts == ASSUME ServicesAssumption, ServicesInit PROVE BusInv
<1>1. /\ redis_client \in BOOLEAN /\ subscribers = [type \in Types |-> <<>>]
      /\ listening = FALSE /\ listener = "off" /\ channels = {} /\ wire = <<>> /\ kind = <<>>
      /\ dispatch = [p \in Publishers |-> Bus!Idle] /\ owed = [e \in 1..MaxEvents |-> {}]
      /\ got = [e \in 1..MaxEvents |-> [cb \in Callbacks |-> [whole |-> 0, rebuilt |-> 0]]]
    BY DEF ServicesInit, Bus!Init
<1>2. MaxEvents \in Nat /\ Len(<<>>) = 0
    BY DEF ServicesAssumption, Bus!BusAssumption
<1>3. BusType
  <2>1. kind \in Seq(Types) /\ wire \in Seq(Nat) /\ Len(kind) <= MaxEvents
      BY <1>1, <1>2
  <2>2. subscribers \in [Types -> Seq(Callbacks)]
    <3>1. <<>> \in Seq(Callbacks)
        OBVIOUS
    <3> QED
        BY <1>1, <3>1
  <2>3. owed \in [1..MaxEvents -> SUBSET Callbacks] /\ got \in GotTypes
      BY <1>1 DEF GotTypes
  <2>4. dispatch \in [Publishers -> [event : Nat, next : Nat]]
      BY <1>1 DEF Bus!Idle
  <2>5. listening \in BOOLEAN /\ listener \in {"off", "starting", "listening", "ended"} /\ channels \subseteq Types
      BY <1>1
  <2> QED
      BY <1>1, <2>1, <2>2, <2>3, <2>4, <2>5 DEF BusType
<1>4. SubscribedOnce /\ ListenerInv /\ DispatchInv
  <2>1. (\A type \in Types : Len(subscribers[type]) = 0) /\ \A p \in Publishers : dispatch[p] = Bus!Idle
      BY <1>1, <1>2
  <2>2. Bus!Idle.event = 0
      BY DEF Bus!Idle
  <2>3. SubscribedOnce
      BY <2>1 DEF SubscribedOnce
  <2>4. ListenerInv
      BY <1>1 DEF ListenerInv
  <2>5. DispatchInv
      BY <2>1, <2>2 DEF DispatchInv
  <2> QED
      BY <2>3, <2>4, <2>5
<1>5. /\ Len(kind) = 0 /\ Len(wire) = 0
      /\ \A p \in Publishers : dispatch[p].event = 0
      /\ \A e \in 1..MaxEvents : \A cb \in Callbacks : got[e][cb].whole = 0 /\ got[e][cb].rebuilt = 0
    BY <1>1, <1>2 DEF Bus!Idle
<1>6. ToldInv /\ HeardInv
    BY <1>5 DEF ToldInv, HeardInv
<1> QED
    BY <1>3, <1>4, <1>6 DEF BusInv

\* What the bus promises of its events, and that it is well formed.
LEMMA EveryoneTold == ASSUME ServicesAssumption, BusInv PROVE Bus!EachSubscriberOnce
<1> SUFFICES ASSUME NEW e \in Bus!Events, NEW cb \in Callbacks
             PROVE  /\ got[e][cb].whole <= 1 /\ got[e][cb].rebuilt <= 1
                    /\ cb \in owed[e] /\ (\A p \in Publishers : dispatch[p].event # e) => got[e][cb].whole = 1
    BY DEF Bus!EachSubscriberOnce
<1>1. e \in 1..Len(kind) /\ e \in 1..MaxEvents /\ e # 0
  <2>1. e \in 1..Len(kind)
      BY LenProperties DEF BusInv, BusType, Bus!Events
  <2> QED
      BY <2>1, BusCounts DEF BusInv
<1>2. CASE \A p \in Publishers : dispatch[p].event # e
    BY <1>1, <1>2 DEF BusInv, ToldInv, Through, HeardInv
<1>3. CASE \E p \in Publishers : dispatch[p].event = e
  <2>1. PICK p \in Publishers : dispatch[p].event = e
      BY <1>3
  <2>2. Midway(e, dispatch[p].next)
      BY <1>1, <2>1 DEF BusInv, ToldInv
  <2>3. got[e][cb].whole = 1 \/ got[e][cb].whole = 0
      BY <2>2 DEF Midway
  <2> QED
      BY <1>1, <2>1, <2>3 DEF BusInv, HeardInv
<1> QED
    BY <1>2, <1>3

LEMMA BusWellFormed == ASSUME ServicesAssumption, BusInv, StoreInv PROVE Bus!TypeOK
<1>1. Bus!Events = 1..Len(kind)
    BY LenProperties DEF BusInv, BusType, Bus!Events
<1>2. ASSUME NEW s \in {redis, memory} PROVE Len(s) <= Capacity /\ Bus!IsInjective(s)
  <2>1. s \in Seq(Nat) /\ DOMAIN s = 1..Len(s) /\ Len(s) <= Capacity /\ \A i \in 1..Len(s) : s[i] \in Nat
      BY LenProperties, ElementOfSeq DEF StoreInv, NewestFirst, OldestFirst
  <2>2. ASSUME NEW i \in 1..Len(s), NEW j \in 1..Len(s), s[i] = s[j] PROVE i = j
    <3>1. s[i] \in Nat /\ i \in Nat /\ j \in Nat
        BY <2>1
    <3>2. CASE s = redis
      <4>1. (i < j => s[j] < s[i]) /\ (j < i => s[i] < s[j])
          BY <3>2 DEF StoreInv, NewestFirst
      <4> QED
          BY <2>2, <3>1, <4>1
    <3>3. CASE s = memory
      <4>1. (i < j => s[i] < s[j]) /\ (j < i => s[j] < s[i])
          BY <3>3 DEF StoreInv, OldestFirst
      <4> QED
          BY <2>2, <3>1, <4>1
    <3> QED
        BY <3>2, <3>3
  <2> QED
      BY <2>1, <2>2 DEF Bus!IsInjective
<1>3. \A p \in Publishers : dispatch[p] = Bus!Idle \/ dispatch[p].event \in Bus!Events
    BY <1>1 DEF BusInv, DispatchInv
<1>4. \A e \in 1..MaxEvents : owed[e] \subseteq Callbacks /\ got[e] \in [Callbacks -> [whole : Nat, rebuilt : Nat]]
    BY DEF BusInv, BusType, GotTypes
<1> QED
    BY <1>2, <1>3, <1>4 DEF BusInv, BusType, ListenerInv, StoreInv, Bus!TypeOK

-----------------------------------------------------------------------------
\* The engine's invariant says what a controller that is alone finds at each of its steps, the
\* harness's who is inside the lock and what holds there, the bus's where each event is between
\* its publisher, the wire and the stores.
ServicesInv == LifeInv /\ HarnessInv /\ BusInv /\ StoreInv

THEOREM ServicesKept == ServicesSpec => []ServicesInv
<1>1. ServicesInit => ServicesInv
    BY ServicesAssumption, LifeStarts, HarnessStarts, BusStarts, StoresStart DEF ServicesInv
<1>2. ServicesInv /\ [ServicesNext]_servicesVars => ServicesInv'
    BY ServicesAssumption, LifeKept, HarnessKept, BusKept, StoresKept DEF ServicesInv
<1> QED
    BY <1>1, <1>2, PTL DEF ServicesSpec

\* As long as no join timed out and no two controllers met, the engine has one update loop, is
\* complete while it runs and flat when it was stopped; as long as the dashboard leaves it alone,
\* the harness owns one engine and knows whether it trades: for every number of controllers,
\* callers, signals and restarts.
THEOREM OneEngineAtATime == ServicesSpec => []EnginesInOrder
<1>1. ServicesInv => EnginesInOrder
  <2> SUFFICES ASSUME ServicesInv PROVE EnginesInOrder
      OBVIOUS
  <2>1. OneLoopInOrder /\ StoppedIsFlat /\ RunningIsComplete /\ TypeOK
      BY EngineOrdered DEF ServicesInv, LifeInv
  <2>2. Harness!TypeOK /\ Harness!OneEngine /\ Harness!HarnessKnows
      BY HarnessOrdered DEF ServicesInv
  <2>3. Bus!TypeOK
      BY ServicesAssumption, BusWellFormed DEF ServicesInv
  <2> QED
      BY <2>1, <2>2, <2>3 DEF EnginesInOrder, PartsWellFormed
<1> QED
    BY <1>1, ServicesKept, PTL

\* Every subscriber is told of an event once, by its publisher and by the listener; the latest
\* events are kept in one of the two stores and the queries find just them: for every number of
\* publishers, subscribers and types, and whatever fails or is cleared in between.
THEOREM EventsAreKept == ServicesSpec => []EventsKept
<1>1. ServicesInv => EventsKept
    BY ServicesAssumption, EveryoneTold, LatestStayStored, QueriesSee DEF ServicesInv, EventsKept
<1> QED
    BY <1>1, ServicesKept, PTL
=============================================================================
