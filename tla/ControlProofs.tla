--------------------------- MODULE ControlProofs ----------------------------
(* Theorems about the parts of MCControl, for every value of their constants. *)
EXTENDS MCControl, Recursion, SequenceTheorems, FiniteSetTheorems, TLAPS

-----------------------------------------------------------------------------
(* Circuit breakers. *)

CircuitType ==
    [state : States, failures : Nat, successes : Nat,
     age : Nat \cup {Never}, forced : BOOLEAN, probed : Nat]

\* What one breaker keeps, whatever is done to the others.
Sound(c, cb) ==
    /\ cb \in CircuitType
    /\ cb.age = Never <=> cb.state = "closed"
    /\ cb.state = "half_open" => cb.successes < SuccessThreshold /\ cb.probed = cb.successes
    /\ cb.state # "closed" /\ ~cb.forced => cb.failures = FailureThreshold[c]
    /\ cb.failures <= FailureThreshold[c]

Inv ==
    /\ circuit \in [Circuits -> CircuitType]
    /\ \A c \in Circuits : Sound(c, circuit[c])

LEMMA ClosedSound == ASSUME NEW c \in Circuits PROVE Sound(c, Closed)
BY BreakerAssumption DEF Sound, CircuitType, Closed, States, Never

LEMMA TripSound ==
    ASSUME NEW c \in Circuits, NEW cb \in CircuitType, cb.failures <= FailureThreshold[c],
           cb.forced \/ cb.failures = FailureThreshold[c]
    PROVE  Sound(c, Trip(cb))
<1>1. /\ Trip(cb).state = "open" /\ Trip(cb).age = 0 /\ Trip(cb) \in CircuitType
      /\ Trip(cb).failures = cb.failures /\ Trip(cb).forced = cb.forced
    BY DEF Trip, CircuitType, States, Never
<1> QED
    BY <1>1 DEF Sound, Never

LEMMA FailSound ==
    ASSUME NEW c \in Circuits, NEW cb, Sound(c, cb)
    PROVE  Sound(c, Fail(c, cb))
<1> DEFINE failures == AtMost(cb.failures + 1, FailureThreshold[c])
           counted == [cb EXCEPT !.failures = failures]
<1>1. failures \in Nat /\ failures <= FailureThreshold[c]
    BY BreakerAssumption DEF AtMost, Sound, CircuitType
<1>2. /\ counted \in CircuitType /\ counted.failures = failures
      /\ counted.state = cb.state /\ counted.age = cb.age /\ counted.forced = cb.forced
      /\ counted.successes = cb.successes /\ counted.probed = cb.probed
    BY <1>1 DEF Sound, CircuitType
<1>3. CASE failures >= FailureThreshold[c]
  <2>1. counted.failures = FailureThreshold[c]
    BY <1>1, <1>2, <1>3, BreakerAssumption
  <2>2. Sound(c, Trip(counted))
    <3> HIDE DEF counted
    <3> QED
        BY <1>1, <1>2, <2>1, TripSound
  <2> QED
    BY <1>3, <2>2 DEF Fail
<1>4. CASE ~(failures >= FailureThreshold[c])
  <2>1. cb.state # "closed" => cb.forced
    BY <1>4, BreakerAssumption DEF AtMost, Sound, CircuitType
  <2>2. Sound(c, counted)
    <3> HIDE DEF counted
    <3> QED
        BY <1>1, <1>2, <2>1 DEF Sound
  <2> QED
    BY <1>4, <2>2 DEF Fail
<1> QED
    BY <1>3, <1>4

LEMMA SucceedSound ==
    ASSUME NEW c \in Circuits, NEW cb, Sound(c, cb)
    PROVE  Sound(c, Succeed(c, cb))
<1> DEFINE successes == AtMost(cb.successes + 1, SuccessThreshold)
           probed == AtMost(cb.probed + 1, SuccessThreshold)
           counted == [cb EXCEPT !.successes = successes, !.probed = probed]
<1>1. successes \in Nat /\ probed \in Nat
    BY BreakerAssumption DEF AtMost, Sound, CircuitType
<1>2. CASE cb.state = "half_open" /\ successes >= SuccessThreshold
    BY <1>2, ClosedSound DEF Succeed
<1>3. CASE ~(cb.state = "half_open" /\ successes >= SuccessThreshold)
  <2>1. /\ counted \in CircuitType /\ counted.failures = cb.failures
        /\ counted.state = cb.state /\ counted.age = cb.age /\ counted.forced = cb.forced
        /\ counted.successes = successes /\ counted.probed = probed
    BY <1>1 DEF Sound, CircuitType
  <2>2. Succeed(c, cb) = counted
    BY <1>3 DEF Succeed
  <2>3. successes < SuccessThreshold \/ cb.state # "half_open"
    BY <1>1, <1>3, BreakerAssumption
  <2>4. cb.state = "half_open" => probed = successes
    BY DEF Sound
  <2> HIDE DEF counted, successes, probed
  <2> QED
    BY <2>1, <2>2, <2>3, <2>4 DEF Sound
<1> QED
    BY <1>2, <1>3

LEMMA AskSound ==
    ASSUME NEW c \in Circuits, NEW cb, Sound(c, cb)
    PROVE  Sound(c, Ask(c, cb))
<1> DEFINE asked == [cb EXCEPT !.state = "half_open", !.successes = 0, !.probed = 0]
<1>1. CASE cb.state = "open" /\ cb.age >= TimeoutDuration[c]
  <2>1. /\ asked \in CircuitType /\ asked.failures = cb.failures /\ asked.successes = 0 /\ asked.probed = 0
        /\ asked.state = "half_open" /\ asked.age = cb.age /\ asked.forced = cb.forced
    BY DEF Sound, CircuitType, States
  <2>2. Ask(c, cb) = asked
    BY <1>1 DEF Ask
  <2> HIDE DEF asked
  <2> QED
    BY <1>1, <2>1, <2>2, BreakerAssumption DEF Sound
<1>2. CASE ~(cb.state = "open" /\ cb.age >= TimeoutDuration[c])
    BY <1>2 DEF Ask
<1> QED
    BY <1>1, <1>2

LEMMA TickSound ==
    ASSUME NEW c \in Circuits, NEW cb, Sound(c, cb)
    PROVE  Sound(c, [cb EXCEPT !.age = IF @ = Never THEN @
                                       ELSE AtMost(@ + 1, TimeoutDuration[c])])
<1>1. AtMost(cb.age + 1, TimeoutDuration[c]) \in Nat \/ cb.age = Never
    BY BreakerAssumption DEF AtMost, Sound, CircuitType, Never
<1> QED
    BY <1>1 DEF Sound, CircuitType, Never

LEMMA InvInit == Init => Inv
BY ClosedSound DEF Init, Inv, Sound

\* One breaker is replaced by a sound one.
LEMMA OneReplaced ==
    ASSUME NEW c \in Circuits, NEW new, Inv, Sound(c, new), circuit' = [circuit EXCEPT ![c] = new]
    PROVE  Inv'
BY DEF Inv, Sound

LEMMA InvStep == Inv /\ [Next]_vars => Inv'
<1> SUFFICES ASSUME Inv, [Next]_vars PROVE Inv'
    OBVIOUS
<1>1. \A c \in Circuits : Sound(c, circuit[c])
    BY DEF Inv
<1>2. CASE UNCHANGED vars
    BY <1>2 DEF vars, Inv, Sound
<1>3. ASSUME NEW c \in Recorded, RecordFailure(c) \/ RecordSuccess(c)
      PROVE  Inv'
  <2>1. c \in Circuits
    BY BreakerAssumption
  <2> QED
    BY <1>1, <1>3, <2>1, FailSound, SucceedSound, OneReplaced DEF RecordFailure, RecordSuccess
<1>4. ASSUME NEW c \in Circuits, CheckAllowed(c)
      PROVE  Inv'
    BY <1>1, <1>4, AskSound, OneReplaced DEF CheckAllowed
<1>5. CASE GetStatus
  <2>1. \A c \in Circuits : Sound(c, Ask(c, circuit[c]))
    BY <1>1, AskSound
  <2> QED
    BY <1>5, <2>1 DEF GetStatus, Inv, Sound
<1>6. CASE ForceOpen
  <2> DEFINE Forced(c) == [Trip(circuit[c]) EXCEPT !.forced = TRUE]
  <2>1. ASSUME NEW c \in Circuits PROVE Sound(c, Forced(c))
    <3> DEFINE cb == circuit[c]
    <3>1. Sound(c, cb)
        BY <1>1
    <3>2. /\ Forced(c) \in CircuitType /\ Forced(c).forced = TRUE /\ Forced(c).age = 0
          /\ Forced(c).state = "open" /\ Forced(c).failures = cb.failures
        BY <3>1 DEF Trip, Sound, CircuitType, States, Never
    <3> HIDE DEF Forced, cb
    <3> QED
        BY <3>1, <3>2 DEF Sound, Never
  <2> QED
    BY <1>6, <2>1 DEF ForceOpen, Inv, Sound
<1>7. CASE ForceClose
    BY <1>7, ClosedSound DEF ForceClose, Inv, Sound
<1>8. CASE Tick
  <2>1. \A c \in Circuits :
          Sound(c, [circuit[c] EXCEPT !.age = IF @ = Never THEN @
                                              ELSE AtMost(@ + 1, TimeoutDuration[c])])
    BY <1>1, TickSound
  <2> QED
    BY <1>8, <2>1 DEF Tick, Inv, Sound
<1> QED
    BY <1>2, <1>3, <1>4, <1>5, <1>6, <1>7, <1>8 DEF Next

\* Every breaker is well formed: opened_at is known exactly while it is not closed.
THEOREM BreakerTypeCorrect == Spec => []TypeOK
<1>1. Inv => TypeOK
    BY DEF Inv, TypeOK, Sound, CircuitType
<1> QED
    BY <1>1, InvInit, InvStep, PTL DEF Spec

\* One failed probe is enough to open a half-open breaker again, whatever the
\* thresholds are, unless it was opened by hand.
THEOREM FailedProbe == Spec => []FailedProbeReopens
<1>1. Inv => FailedProbeReopens
    BY DEF Inv, FailedProbeReopens, Sound
<1> QED
    BY <1>1, InvInit, InvStep, PTL DEF Spec

\* What a step may do to one breaker unless it closes all of them by force: a breaker that
\* closes was half open and had its successes.
LEMMA SucceedCloses ==
    ASSUME NEW c \in Circuits, NEW cb, Sound(c, cb), cb.state # "closed", Succeed(c, cb).state = "closed"
    PROVE  cb.state = "half_open" /\ cb.probed >= SuccessThreshold - 1
<1> DEFINE counted == [cb EXCEPT !.successes = AtMost(cb.successes + 1, SuccessThreshold),
                                 !.probed = AtMost(@ + 1, SuccessThreshold)]
<1>1. counted.state = cb.state
    BY DEF Sound, CircuitType
<1>2. cb.state = "half_open" /\ AtMost(cb.successes + 1, SuccessThreshold) >= SuccessThreshold
    BY <1>1 DEF Succeed
<1> QED
    BY <1>2, BreakerAssumption DEF AtMost, Sound, CircuitType

LEMMA FailOpens ==
    ASSUME NEW c \in Circuits, NEW cb, Sound(c, cb), cb.state # "closed"
    PROVE  Fail(c, cb).state # "closed"
BY DEF Fail, Trip, Sound, CircuitType

LEMMA AskOpens ==
    ASSUME NEW c \in Circuits, NEW cb, Sound(c, cb), cb.state # "closed"
    PROVE  Ask(c, cb).state # "closed"
BY DEF Ask, Sound, CircuitType

\* A breaker that closes by itself was half open and had its good probes (record_success),
\* whoever asks, fails and forces the others meanwhile.
THEOREM ClosingEarned == Spec => ClosesAfterProbes
<1> DEFINE Earned == (\E c \in Circuits : circuit'[c] # Closed) =>
               \A c \in Circuits :
                 circuit[c].state # "closed" /\ circuit'[c].state = "closed"
                 => circuit[c].state = "half_open" /\ circuit[c].probed >= SuccessThreshold - 1
<1>1. Inv /\ [Next]_vars => [Earned]_vars
  <2> SUFFICES ASSUME Inv, Next, NEW d \in Circuits, circuit'[d] # Closed,
                      NEW c \in Circuits, circuit[c].state # "closed", circuit'[c].state = "closed"
               PROVE  circuit[c].state = "half_open" /\ circuit[c].probed >= SuccessThreshold - 1
      OBVIOUS
  <2>1. Sound(c, circuit[c]) /\ DOMAIN circuit = Circuits
      BY DEF Inv
  <2>2. ASSUME NEW b \in Recorded, RecordFailure(b) PROVE FALSE
      BY <2>1, <2>2, FailOpens DEF RecordFailure
  <2>3. ASSUME NEW b \in Recorded, RecordSuccess(b)
        PROVE  circuit[c].state = "half_open" /\ circuit[c].probed >= SuccessThreshold - 1
    <3>1. circuit'[c] = Succeed(c, circuit[c])
        BY <2>1, <2>3, BreakerAssumption DEF RecordSuccess
    <3> QED
        BY <2>1, <3>1, SucceedCloses
  <2>4. ASSUME NEW b \in Circuits, CheckAllowed(b) PROVE FALSE
      BY <2>1, <2>4, AskOpens DEF CheckAllowed
  <2>5. CASE GetStatus
      BY <2>1, <2>5, AskOpens DEF GetStatus
  <2>6. CASE ForceOpen
    <3>1. circuit'[c] = [Trip(circuit[c]) EXCEPT !.forced = TRUE]
        BY <2>6 DEF ForceOpen
    <3>2. circuit'[c].state = "open"
        BY <2>1, <3>1 DEF Trip, Sound, CircuitType
    <3> QED
        BY <3>2
  <2>7. CASE ForceClose
      BY <2>7 DEF ForceClose
  <2>8. CASE Tick
    <3> DEFINE aged == IF circuit[c].age = Never THEN circuit[c].age
                       ELSE AtMost(circuit[c].age + 1, TimeoutDuration[c])
    <3>1. circuit'[c] = [circuit[c] EXCEPT !.age = aged]
        BY <2>8 DEF Tick
    <3>2. circuit'[c].state = circuit[c].state
        BY <2>1, <3>1 DEF Sound, CircuitType
    <3> QED
        BY <3>2
  <2> QED
      BY <2>2, <2>3, <2>4, <2>5, <2>6, <2>7, <2>8 DEF Next
<1> QED
    BY <1>1, InvInit, InvStep, PTL DEF Spec, ClosesAfterProbes

-----------------------------------------------------------------------------
(* The emergency stops. *)

Wishes == {Nothing} \cup [op : {"trigger", "reset"}, stop : Stops]

Telling == [todo : SUBSET Callbacks, calls : [Callbacks -> 0 .. 2]]

TellingType ==
    /\ triggered \in [Stops -> BOOLEAN]
    /\ holder \in [Stops -> Callers \cup {Nobody}]
    /\ told \in [Stops -> Telling]
    /\ wants \in [Callers -> Wishes]

\* A lock is held only by a thread inside trigger of that stop, which is latched by then.
HeldByTeller ==
    \A s \in Stops :
        /\ holder[s] = Nobody => told[s].todo = {}
        /\ holder[s] # Nobody => triggered[s] /\ wants[holder[s]].op = "trigger" /\ wants[holder[s]].stop = s

\* A callback has had its call if the stop is latched and the callback's turn is over.
TurnTaken(s, c) == told[s].calls[c] = IF triggered[s] /\ c \notin told[s].todo THEN 1 ELSE 0
TurnsTaken == \A s \in Stops, c \in Callbacks : TurnTaken(s, c)

TellingInv == TellingType /\ HeldByTeller /\ TurnsTaken

LEMMA TellingInit == SwitchInit => TellingInv
BY DEF SwitchInit, TellingInv, TellingType, HeldByTeller, TurnsTaken, TurnTaken, Wishes, Telling

\* What a caller wants is nobody's lock before it has it.
LEMMA AskKeepsTelling ==
    ASSUME KillSwitchAssumption, TellingInv, NEW t \in Callers, NEW s \in Stops, NEW op \in {"trigger", "reset"},
           Want(t, op, s) \/ UNCHANGED wants, UNCHANGED <<triggered, holder, told>>
    PROVE  TellingInv'
<1>1. TellingType'
    BY DEF Want, TellingInv, TellingType, Wishes
<1>2. ASSUME NEW r \in Stops, holder[r] # Nobody
      PROVE  wants'[holder[r]] = wants[holder[r]]
  <2>1. holder[r] \in Callers /\ wants[holder[r]].op = "trigger"
      BY <1>2 DEF TellingInv, TellingType, HeldByTeller
  <2>2. wants[t] = Nothing => holder[r] # t
      BY <2>1 DEF Nothing
  <2> QED
      BY <2>1, <2>2 DEF Want, TellingInv, TellingType
<1> QED
    BY <1>1, <1>2 DEF TellingInv, HeldByTeller, TurnsTaken, TurnTaken

LEMMA StepKeepsTelling ==
    ASSUME KillSwitchAssumption, TellingInv, NEW t \in Callers, Step(t)
    PROVE  TellingInv'
<1> DEFINE s == wants[t].stop
<1>1. wants[t].op \in {"trigger", "reset"}
    BY DEF Step, EnterTrigger, ExecuteCallback, Leave, EnterReset
<1>2. wants[t] \in [op : {"trigger", "reset"}, stop : Stops]
  <2>1. wants[t] \in Wishes /\ wants[t] # Nothing
      BY <1>1 DEF TellingInv, TellingType, Nothing
  <2> QED
      BY <2>1 DEF Wishes
<1>3. s \in Stops /\ t # Nobody /\ told[s] \in Telling
    BY <1>2 DEF KillSwitchAssumption, TellingInv, TellingType
<1>4. \A r \in Stops : holder[r] = t => r = s
    BY <1>3 DEF TellingInv, HeldByTeller
<1>5. [wants EXCEPT ![t] = Nothing] \in [Callers -> Wishes]
    BY DEF TellingInv, TellingType, Wishes
<1>6. CASE EnterTrigger(t) /\ triggered[s]
  <2>1. holder[s] = Nobody /\ wants' = [wants EXCEPT ![t] = Nothing] /\ UNCHANGED <<triggered, holder, told>>
      BY <1>6 DEF EnterTrigger
  <2>2. ASSUME NEW r \in Stops, holder[r] # Nobody PROVE wants'[holder[r]] = wants[holder[r]]
      BY <1>4, <2>1, <2>2 DEF TellingInv, TellingType
  <2>3. HeldByTeller'
      BY <2>1, <2>2 DEF TellingInv, HeldByTeller
  <2> QED
      BY <1>5, <2>1, <2>3 DEF TellingInv, TellingType, TurnsTaken, TurnTaken
<1>7. CASE EnterTrigger(t) /\ ~triggered[s]
  <2>1. wants[t].op = "trigger"
      BY <1>7 DEF EnterTrigger
  <2>2. /\ holder[s] = Nobody /\ UNCHANGED wants
        /\ triggered' = [triggered EXCEPT ![s] = TRUE] /\ holder' = [holder EXCEPT ![s] = t]
        /\ told' = [told EXCEPT ![s].todo = Callbacks]
      BY <1>7 DEF EnterTrigger
  <2>3. /\ told' \in [Stops -> Telling]
        /\ told'[s].todo = Callbacks /\ told'[s].calls = told[s].calls
        /\ \A r \in Stops : r # s => told'[r] = told[r]
      BY <1>3, <2>2 DEF TellingInv, TellingType, Telling
  <2>4. TellingType'
      BY <2>2, <2>3 DEF TellingInv, TellingType
  <2>5. /\ triggered'[s] /\ holder'[s] = t
        /\ \A r \in Stops : r # s => triggered'[r] = triggered[r] /\ holder'[r] = holder[r]
      BY <1>3, <2>2 DEF TellingInv, TellingType
  <2>6. HeldByTeller'
      BY <1>3, <2>1, <2>2, <2>3, <2>5 DEF TellingInv, HeldByTeller
  <2>7. ASSUME NEW r \in Stops, NEW c \in Callbacks PROVE TurnTaken(r, c)'
    <3>1. CASE r = s
      BY <1>7, <2>3, <2>5, <3>1 DEF TellingInv, TurnsTaken, TurnTaken
    <3>2. CASE r # s
      BY <2>3, <2>5, <3>2 DEF TellingInv, TurnsTaken, TurnTaken
    <3> QED
      BY <3>1, <3>2
  <2> QED
      BY <2>4, <2>6, <2>7 DEF TellingInv, TurnsTaken
<1>8. CASE ExecuteCallback(t)
  <2>1. PICK c \in told[s].todo :
          told' = [told EXCEPT ![s] = [todo |-> told[s].todo \ {c}, calls |-> Called(told[s].calls, c)]]
    BY <1>8 DEF ExecuteCallback
  <2>2. holder[s] = t /\ UNCHANGED <<triggered, holder, wants>>
    BY <1>8 DEF ExecuteCallback
  <2>3. c \in Callbacks
    BY <1>3, <2>1 DEF Telling
  <2>4. triggered[s]
    BY <1>3, <2>2 DEF TellingInv, HeldByTeller
  <2>5. told[s].calls[c] = 0
    BY <1>3, <2>1, <2>3 DEF TellingInv, TurnsTaken, TurnTaken
  <2>6. told'[s].todo = told[s].todo \ {c} /\ \A r \in Stops : r # s => told'[r] = told[r]
    BY <1>3, <2>1 DEF TellingInv, TellingType
  <2>7. told'[s].calls = Called(told[s].calls, c)
    BY <1>3, <2>1 DEF TellingInv, TellingType
  <2>8. told'[s].calls[c] = 1 /\ \A d \in Callbacks : d # c => told'[s].calls[d] = told[s].calls[d]
    BY <1>3, <2>3, <2>5, <2>7 DEF Telling, Called
  <2>9. told' \in [Stops -> Telling]
    <3>1. [todo |-> told[s].todo \ {c}, calls |-> Called(told[s].calls, c)] \in Telling
      BY <1>3, <2>3 DEF Telling, Called
    <3> QED
      BY <2>1, <3>1 DEF TellingInv, TellingType
  <2>10. ASSUME NEW r \in Stops, NEW d \in Callbacks PROVE TurnTaken(r, d)'
    <3>1. CASE r # s
      BY <2>2, <2>6, <3>1 DEF TellingInv, TurnsTaken, TurnTaken
    <3>2. CASE r = s /\ d = c
      BY <2>2, <2>4, <2>6, <2>8, <3>2 DEF TurnTaken
    <3>3. CASE r = s /\ d # c
      BY <2>2, <2>6, <2>8, <3>3 DEF TellingInv, TurnsTaken, TurnTaken
    <3> QED
      BY <3>1, <3>2, <3>3
  <2>11. HeldByTeller'
    BY <1>3, <2>2, <2>6 DEF TellingInv, HeldByTeller
  <2> QED
    BY <2>2, <2>9, <2>10, <2>11 DEF TellingInv, TellingType, TurnsTaken
<1>9. CASE Leave(t)
  <2>1. /\ told[s].todo = {} /\ holder' = [holder EXCEPT ![s] = Nobody]
        /\ wants' = [wants EXCEPT ![t] = Nothing] /\ UNCHANGED <<triggered, told>>
      BY <1>9 DEF Leave
  <2>2. TellingType'
      BY <1>5, <2>1 DEF TellingInv, TellingType
  <2>3. ASSUME NEW r \in Stops, holder'[r] # Nobody
        PROVE  holder'[r] = holder[r] /\ wants'[holder[r]] = wants[holder[r]]
      BY <1>3, <1>4, <2>1, <2>3 DEF TellingInv, TellingType
  <2>4. ASSUME NEW r \in Stops, holder'[r] = Nobody PROVE told[r].todo = {}
      BY <2>1, <2>4 DEF TellingInv, TellingType, HeldByTeller
  <2>5. HeldByTeller'
      BY <2>1, <2>3, <2>4 DEF TellingInv, HeldByTeller
  <2> QED
      BY <2>1, <2>2, <2>5 DEF TellingInv, TurnsTaken, TurnTaken
<1>10. CASE EnterReset(t)
  <2>1. /\ holder[s] = Nobody /\ UNCHANGED holder
        /\ triggered' = [triggered EXCEPT ![s] = FALSE] /\ wants' = [wants EXCEPT ![t] = Nothing]
        /\ told' = [told EXCEPT ![s].calls = [c \in Callbacks |-> 0]]
      BY <1>10 DEF EnterReset
  <2>2. /\ told' \in [Stops -> Telling]
        /\ told'[s].todo = told[s].todo /\ told'[s].calls = [c \in Callbacks |-> 0]
        /\ \A r \in Stops : r # s => told'[r] = told[r]
    <3>1. told \in [Stops -> Telling]
        BY DEF TellingInv, TellingType
    <3>2. [c \in Callbacks |-> 0] \in [Callbacks -> 0 .. 2]
        OBVIOUS
    <3> QED
        BY <1>3, <2>1, <3>1, <3>2 DEF Telling
  <2>3. TellingType'
      BY <1>5, <2>1, <2>2 DEF TellingInv, TellingType
  <2>4. ~triggered'[s] /\ \A r \in Stops : r # s => triggered'[r] = triggered[r]
      BY <1>3, <2>1 DEF TellingInv, TellingType
  <2>5. ASSUME NEW r \in Stops, holder[r] # Nobody PROVE r # s /\ wants'[holder[r]] = wants[holder[r]]
      BY <1>4, <2>1, <2>5 DEF TellingInv, TellingType
  <2>6. HeldByTeller'
      BY <2>1, <2>2, <2>4, <2>5 DEF TellingInv, HeldByTeller
  <2>7. ASSUME NEW r \in Stops, NEW c \in Callbacks PROVE TurnTaken(r, c)'
    <3>1. CASE r = s
      BY <2>2, <2>4, <3>1 DEF TurnTaken
    <3>2. CASE r # s
      BY <2>2, <2>4, <3>2 DEF TellingInv, TurnsTaken, TurnTaken
    <3> QED
      BY <3>1, <3>2
  <2> QED
      BY <2>3, <2>6, <2>7 DEF TellingInv, TurnsTaken
<1> QED
    BY <1>6, <1>7, <1>8, <1>9, <1>10 DEF Step

\* Every callback of a latched stop has run once when the lock is free, whoever triggers and
\* resets the stops in whatever order (EmergencyStop.trigger, reset and the three counters).
THEOREM CallbacksToldOnce == ASSUME KillSwitchAssumption PROVE SwitchSpec => []ToldOnce
<1>1. TellingInv /\ [SwitchNext]_switchVars => TellingInv'
  <2> SUFFICES ASSUME TellingInv, [SwitchNext]_switchVars PROVE TellingInv'
      OBVIOUS
  <2>1. CASE UNCHANGED switchVars
      BY <2>1 DEF switchVars, TellingInv, TellingType, HeldByTeller, TurnsTaken, TurnTaken
  <2>2. ASSUME NEW t \in Callers, NEW s \in Stops, Trigger(t, s) \/ Reset(t, s) PROVE TellingInv'
      BY <2>2, AskKeepsTelling DEF Trigger, Reset
  <2>3. Counting \in Stops
      BY DEF Counting, KillSwitchAssumption
  <2>4. ASSUME NEW t \in Callers,
               RecordTradePnl(t, Counting) \/ CheckMetrics(t, Counting) \/ CheckDataFeed(t, Counting)
        PROVE  TellingInv'
    <3>1. /\ Want(t, "trigger", Counting) \/ UNCHANGED wants
          /\ UNCHANGED <<triggered, holder, told>>
        BY <2>4 DEF RecordTradePnl, CheckMetrics, CheckDataFeed
    <3> QED
        BY <2>3, <3>1, AskKeepsTelling
  <2> QED
      BY <2>1, <2>2, <2>4, StepKeepsTelling DEF SwitchNext
<1>2. TellingInv => ToldOnce
  BY DEF TellingInv, TellingType, HeldByTeller, TurnsTaken, TurnTaken, ToldOnce
<1> QED
  BY <1>1, <1>2, TellingInit, PTL DEF SwitchSpec

-----------------------------------------------------------------------------
(* The goals. *)

LEMMA GoalsStand == [ControlNext]_controlVars => Aware!GoalsNext \/ UNCHANGED goalsVars
BY DEF ControlNext, controlVars, BreakersTurn, HealingTurn, RestartTurn, ReloadTurn, AwareTurn,
       GoalsTurn, SwitchTurn, BridgeTurn, OptTurn, ToldTurn

\* goal_manager.py: the peak of the drawdown is the highest capital of all, through every
\* trimming of the capitals it was found in.
THEOREM PeakKept == ControlSpec => []PeakIsHighest
<1>1. ControlInit => PeakIsHighest
  BY DEF ControlInit, Aware!GoalsInit, PeakIsHighest, Aware!PeakIsHighest
<1>2. PeakIsHighest /\ [ControlNext]_controlVars => PeakIsHighest'
  <2>1. PeakIsHighest /\ Aware!GoalsNext => PeakIsHighest'
    BY DEF Aware!GoalsNext, Aware!UpdateTradeResult, Aware!UpdateMaxDrawdown, Aware!UpdateModelAccuracy,
           Aware!UpdateReturns, Aware!UpdateCalmarRatio, Aware!RaisePeak, Aware!Greater,
           PeakIsHighest, Aware!PeakIsHighest
  <2>2. PeakIsHighest /\ UNCHANGED goalsVars => PeakIsHighest'
    BY DEF goalsVars, PeakIsHighest, Aware!PeakIsHighest
  <2>3. QED
    BY <2>1, <2>2, GoalsStand
<1>3. QED
  BY <1>1, <1>2, PTL DEF ControlSpec

-----------------------------------------------------------------------------
(* The budgets of healing. *)

LEMMA SameCounts ==
    ASSUME NEW S
    PROVE  /\ Healing!Cardinality(S) = Cardinality(S) /\ Restart!Cardinality(S) = Cardinality(S)
           /\ (Healing!IsFiniteSet(S) <=> IsFiniteSet(S)) /\ (Restart!IsFiniteSet(S) <=> IsFiniteSet(S))
BY DEF Healing!Cardinality, Restart!Cardinality, Cardinality,
       Healing!IsFiniteSet, Restart!IsFiniteSet, IsFiniteSet

\* A part of a finite set that gains or loses an element, and one that is as large as can be.
LEMMA Counted ==
    ASSUME NEW S, IsFiniteSet(S), NEW T \in SUBSET S
    PROVE  /\ Cardinality(T) \in 0..Cardinality(S) /\ Cardinality(S) \in Nat
           /\ \A x \in T : Cardinality(T \ {x}) = Cardinality(T) - 1
BY FS_Subset, FS_RemoveElement, FS_CardinalityType

\* The callers inside handle_failure.
Waiting == {t \in Callers : caller[t] = "waiting"}

\* Whoever waits found the budget unspent: every caller may wait while one restart is left.
RestartInv ==
    /\ restarts \in Nat /\ caller \in [Callers -> {"idle", "waiting"}]
    /\ restarts + Cardinality(Waiting) <= MaxRestarts + Cardinality(Callers) - 1

LEMMA CallersCounted ==
    /\ IsFiniteSet(Callers) /\ MaxRestarts \in Nat /\ Cardinality(Callers) \in Nat \ {0}
    /\ \A T \in SUBSET Callers : /\ Cardinality(T) \in 0..Cardinality(Callers)
                                 /\ \A x \in T : Cardinality(T \ {x}) = Cardinality(T) - 1
<1>1. IsFiniteSet(Callers) /\ Callers # {} /\ MaxRestarts \in Nat
  BY ControlAssumption, SameCounts DEF Restart!AutoRestartAssumption
<1>2. Cardinality(Callers) \in Nat /\ Cardinality(Callers) # 0
  BY <1>1, FS_EmptySet, FS_CardinalityType
<1>3. QED
  BY <1>1, <1>2, Counted

LEMMA RestartStep == RestartInv /\ Restart!Next => RestartInv'
<1> SUFFICES ASSUME RestartInv, Restart!Next PROVE RestartInv'
  OBVIOUS
<1> USE CallersCounted
<1>0. Waiting \in SUBSET Callers /\ Waiting' \in SUBSET Callers
  BY DEF Waiting
<1>1. ASSUME NEW t \in Callers, Restart!HandleFailure(t), restarts' = restarts PROVE RestartInv'
  <2>1. caller' \in [Callers -> {"idle", "waiting"}]
    BY <1>1 DEF RestartInv, Restart!HandleFailure
  <2>2. CASE restarts >= MaxRestarts
    <3>1. caller' = caller
      BY <1>1, <2>2 DEF RestartInv, Restart!HandleFailure
    <3>2. QED
      BY <1>1, <3>1 DEF RestartInv, Waiting
  <2>3. CASE restarts < MaxRestarts
    BY <1>0, <1>1, <2>1, <2>3 DEF RestartInv
  <2>4. QED
    BY <2>2, <2>3 DEF RestartInv
<1>2. ASSUME NEW t \in Callers, Restart!OnHealthAlert(t) PROVE RestartInv'
  BY <1>1, <1>2 DEF Restart!OnHealthAlert
<1>3. ASSUME NEW t \in Callers, Restart!Restart(t) PROVE RestartInv'
  <2>1. /\ caller[t] = "waiting" /\ caller' = [caller EXCEPT ![t] = "idle"]
        /\ restarts' = restarts \/ restarts' = Restart!Inc(restarts)
    BY <1>3 DEF Restart!Restart
  <2>2. restarts' \in Nat /\ restarts' <= restarts + 1
    BY <2>1 DEF RestartInv, Restart!Inc
  <2>3. t \in Waiting /\ Waiting' = Waiting \ {t}
    BY <2>1 DEF RestartInv, Waiting
  <2>4. Cardinality(Waiting') = Cardinality(Waiting) - 1
    BY <1>0, <2>3
  <2>5. caller' \in [Callers -> {"idle", "waiting"}]
    BY <2>1 DEF RestartInv
  <2>6. QED
    BY <1>0, <2>2, <2>4, <2>5 DEF RestartInv
<1>4. ASSUME NEW t \in Callers, Restart!CheckAndHeal(t) PROVE RestartInv'
  <2>1. CASE restarts' = 0 /\ caller' = caller
    <3>1. Waiting' = Waiting
      BY <2>1 DEF Waiting
    <3>2. QED
      BY <1>0, <2>1, <3>1 DEF RestartInv
  <2>2. QED
    BY <1>1, <1>4, <2>1 DEF Restart!CheckAndHeal, Restart!ResetRestartCount
<1>5. ASSUME NEW t \in Callers, Restart!AutoRestartComponent(t) PROVE RestartInv'
  <2>1. restarts' = 0 /\ caller' = [caller EXCEPT ![t] = IF MaxRestarts = 0 THEN @ ELSE "waiting"]
    BY <1>5 DEF Restart!AutoRestartComponent
  <2>2. caller' \in [Callers -> {"idle", "waiting"}]
    BY <2>1 DEF RestartInv
  <2>3. CASE MaxRestarts = 0
    <3>1. caller' = caller
      BY <2>1, <2>3 DEF RestartInv
    <3>2. Waiting' = Waiting
      BY <3>1 DEF Waiting
    <3>3. QED
      BY <1>0, <2>1, <2>2, <3>2 DEF RestartInv
  <2>4. CASE MaxRestarts # 0
    BY <1>0, <2>1, <2>2, <2>4 DEF RestartInv
  <2>5. QED
    BY <2>3, <2>4
<1>6. CASE Restart!Breaks
  BY <1>6 DEF Restart!Breaks, RestartInv, Waiting
<1>7. QED
  BY <1>2, <1>3, <1>4, <1>5, <1>6 DEF Restart!Next

\* The threads that restart a component because of an alert.
HealersOf(c) ==
    {t \in Healing!Threads : thread[t].at = "healing" /\ thread[t].heals = c /\ c \in thread[t].todo}

ThreadStates == [at : {"gone", "asleep", "round", "healing"}, todo : SUBSET Components,
                 heals : Components \cup {Healing!Nobody}]
Plausible(r) == /\ r \in ThreadStates
                /\ r.at = "gone" => r.todo = {}
                /\ r.at = "healing" => r.heals \in Components

\* Whoever restarts on an alert found the budget unspent.
HealInv ==
    /\ DOMAIN thread = Healing!Threads /\ thread = [t \in Healing!Threads |-> thread[t]]
    /\ \A t \in Healing!Threads : Plausible(thread[t])
    /\ healing \in [Components -> [restarts : 0..MaxRestarts, byAlert : Nat]]
    /\ \A c \in Components : healing[c].restarts < MaxRestarts => healing[c].byAlert <= healing[c].restarts
    /\ \A c \in Components :
          healing[c].byAlert + Cardinality(HealersOf(c)) <= MaxRestarts + Cardinality(Loops)

LEMMA HealersCounted ==
    /\ MaxRestarts \in Nat /\ Cardinality(Loops) \in Nat
    /\ \A T \in SUBSET Healing!Threads :
          /\ IsFiniteSet(T) /\ Cardinality(T) \in 0..Cardinality(Loops) + 1
          /\ \A x \in T : Cardinality(T \ {x}) = Cardinality(T) - 1
          /\ \A U \in SUBSET T : Cardinality(U) <= Cardinality(T)
<1>1. IsFiniteSet(Loops) /\ MaxRestarts \in Nat
  BY ControlAssumption, SameCounts DEF Healing!HealingAssumption
<1>2. /\ IsFiniteSet(Loops \cup {Operator}) /\ Cardinality(Loops) \in Nat
      /\ Cardinality(Loops \cup {Operator}) <= Cardinality(Loops) + 1
  BY <1>1, FS_AddElement, FS_CardinalityType
<1>3. ASSUME NEW T \in SUBSET (Loops \cup {Operator})
      PROVE  /\ IsFiniteSet(T) /\ Cardinality(T) \in 0..Cardinality(Loops \cup {Operator})
             /\ Cardinality(Loops \cup {Operator}) \in Nat
  BY <1>2, FS_Subset, Counted
<1>4. \A T \in SUBSET (Loops \cup {Operator}) :
          /\ \A x \in T : Cardinality(T \ {x}) = Cardinality(T) - 1
          /\ \A U \in SUBSET T : Cardinality(U) <= Cardinality(T)
  BY <1>2, <1>3, Counted, FS_Subset
<1>5. QED
  BY <1>1, <1>2, <1>3, <1>4 DEF Healing!Threads

\* A thread that does anything else than to begin a restart on an alert.
LEMMA QuietThread ==
    ASSUME HealInv, NEW t \in Healing!Threads, NEW r, Plausible(r), r.at = "healing" => r.heals \notin r.todo,
           thread' = [thread EXCEPT ![t] = r], healing' = healing
    PROVE  HealInv'
<1>1. /\ DOMAIN thread' = Healing!Threads /\ thread' = [u \in Healing!Threads |-> thread'[u]]
      /\ thread'[t] = r /\ \A u \in Healing!Threads : u # t => thread'[u] = thread[u]
  BY DEF HealInv
<1>2. \A u \in Healing!Threads : Plausible(thread'[u])
  BY <1>1 DEF HealInv
<1>3. ASSUME NEW c \in Components PROVE healing[c].byAlert + Cardinality(HealersOf(c)') <= MaxRestarts + Cardinality(Loops)
  <2>1. HealersOf(c)' \subseteq HealersOf(c) /\ HealersOf(c) \in SUBSET Healing!Threads
    BY <1>1 DEF HealersOf
  <2>2. /\ Cardinality(HealersOf(c)') <= Cardinality(HealersOf(c))
        /\ Cardinality(HealersOf(c)) \in Nat /\ Cardinality(HealersOf(c)') \in Nat
    BY <2>1, HealersCounted
  <2>3. /\ healing[c].byAlert \in Nat
        /\ healing[c].byAlert + Cardinality(HealersOf(c)) <= MaxRestarts + Cardinality(Loops)
    BY DEF HealInv
  <2>4. QED
    BY <2>2, <2>3, HealersCounted
<1>4. QED
  BY <1>1, <1>2, <1>3 DEF HealInv

\* _handle_component_failure, with the budget looked at.
LEMMA AlertKeepsBudget ==
    ASSUME HealInv, NEW t \in Healing!Threads, NEW c \in thread[t].todo, thread[t].at = "round",
           ~Healing!OverBudget(c),
           thread' = [thread EXCEPT ![t] = [@ EXCEPT !.at = "healing", !.heals = c]], healing' = healing
    PROVE  HealInv'
<1> DEFINE r == [thread[t] EXCEPT !.at = "healing", !.heals = c]
<1>0. c \in Components /\ Plausible(thread[t])
  BY DEF HealInv, Plausible, ThreadStates
<1>1. Plausible(r) /\ r.heals = c
  BY <1>0 DEF Plausible, ThreadStates
<1>2. thread' = [thread EXCEPT ![t] = r]
  OBVIOUS
<1> HIDE DEF r
<1>3. /\ DOMAIN thread' = Healing!Threads /\ thread' = [u \in Healing!Threads |-> thread'[u]]
      /\ thread'[t] = r /\ \A u \in Healing!Threads : u # t => thread'[u] = thread[u]
  BY <1>2 DEF HealInv
<1>4. \A u \in Healing!Threads : Plausible(thread'[u])
  BY <1>1, <1>3 DEF HealInv
<1>5. ASSUME NEW d \in Components PROVE healing[d].byAlert + Cardinality(HealersOf(d)') <= MaxRestarts + Cardinality(Loops)
  <2>0. /\ healing[d].byAlert \in Nat /\ healing[d].restarts \in Nat
        /\ healing[d].byAlert + Cardinality(HealersOf(d)) <= MaxRestarts + Cardinality(Loops)
        /\ healing[d].restarts < MaxRestarts => healing[d].byAlert <= healing[d].restarts
        /\ HealersOf(d) \in SUBSET Healing!Threads /\ HealersOf(d)' \in SUBSET Healing!Threads
    BY DEF HealInv, HealersOf
  <2>1. CASE d = c
    <3>1. healing[c].restarts < MaxRestarts
      BY <2>0, <2>1, HealersCounted DEF Healing!OverBudget
    <3>2. Cardinality(HealersOf(d)') \in 0..Cardinality(Loops) + 1
      BY <2>0, HealersCounted
    <3>3. QED
      BY <2>0, <2>1, <3>1, <3>2, HealersCounted
  <2>2. CASE d # c
    <3>1. HealersOf(d)' \subseteq HealersOf(d)
      BY <1>1, <1>3, <2>2 DEF HealersOf
    <3>2. /\ Cardinality(HealersOf(d)') <= Cardinality(HealersOf(d))
          /\ Cardinality(HealersOf(d)) \in Nat /\ Cardinality(HealersOf(d)') \in Nat
      BY <2>0, <3>1, HealersCounted
    <3>3. QED
      BY <2>0, <3>2, HealersCounted
  <2>3. QED
    BY <2>1, <2>2
<1>6. QED
  BY <1>3, <1>4, <1>5 DEF HealInv

\* The restart has returned, and is counted if it helped.
LEMMA HealedKeepsBudget == ASSUME HealInv, NEW t \in Healing!Threads, Healing!ExecuteHealing(t) PROVE HealInv'
<1> DEFINE c == thread[t].heals
           alerted == c \in thread[t].todo
           r == IF alerted THEN Healing!AllOf(thread[t].todo \ {c}) ELSE Healing!Gone
<1>1. PICK success \in BOOLEAN : Healing!Healed(c, success, alerted)
  BY DEF Healing!ExecuteHealing
<1>2. thread[t].at = "healing" /\ thread' = [thread EXCEPT ![t] = r]
  BY DEF Healing!ExecuteHealing, HealInv
<1>3. c \in Components /\ Plausible(thread[t])
  BY <1>2 DEF HealInv, Plausible
<1>4. Plausible(r) /\ r.at # "healing"
  BY <1>3 DEF Plausible, ThreadStates, Healing!AllOf, Healing!Gone
<1>5. alerted => t \in HealersOf(c)
  BY <1>2 DEF HealersOf
<1>c. alerted \in BOOLEAN
  OBVIOUS
<1> HIDE DEF c, r, alerted
<1>6. /\ DOMAIN thread' = Healing!Threads /\ thread' = [u \in Healing!Threads |-> thread'[u]]
      /\ thread'[t] = r /\ \A u \in Healing!Threads : u # t => thread'[u] = thread[u]
  BY <1>2 DEF HealInv
<1>7. \A u \in Healing!Threads : Plausible(thread'[u])
  BY <1>4, <1>6 DEF HealInv
<1>8. \A d \in Components : HealersOf(d)' = HealersOf(d) \ {t}
  BY <1>4, <1>6 DEF HealersOf
<1> DEFINE old == healing[c]
           new == [restarts |-> IF success THEN Healing!Inc(old.restarts, MaxRestarts) ELSE old.restarts,
                   byAlert |-> IF alerted /\ success
                               THEN Healing!Inc(old.byAlert, MaxRestarts + Healing!Cardinality(Healing!Threads))
                               ELSE old.byAlert]
<1>9. old \in [restarts : 0..MaxRestarts, byAlert : Nat]
  BY <1>3 DEF HealInv
<1>10. healing' = [healing EXCEPT ![c] = new]
  BY <1>1, <1>3 DEF Healing!Healed, HealInv
<1>11. /\ new \in [restarts : 0..MaxRestarts, byAlert : Nat] /\ old.restarts <= new.restarts
       /\ new.byAlert <= old.byAlert + 1 /\ (~alerted => new.byAlert = old.byAlert)
       /\ old.restarts < MaxRestarts /\ new.byAlert # old.byAlert => new.restarts = old.restarts + 1
       /\ old.byAlert <= new.byAlert
  BY <1>9, HealersCounted DEF Healing!Inc
<1> HIDE DEF old, new
<1>12. healing' \in [Components -> [restarts : 0..MaxRestarts, byAlert : Nat]] /\ healing'[c] = new
       /\ \A d \in Components : d # c => healing'[d] = healing[d]
  BY <1>3, <1>10, <1>11 DEF HealInv
<1>13. ASSUME NEW d \in Components, healing'[d].restarts < MaxRestarts
       PROVE  healing'[d].byAlert <= healing'[d].restarts
  <2>1. CASE d = c
    <3>1. old.restarts < MaxRestarts
      BY <1>9, <1>11, <1>12, <1>13, <2>1, HealersCounted
    <3>2. old.byAlert <= old.restarts
      BY <1>3, <3>1 DEF HealInv, old
    <3>3. QED
      BY <1>9, <1>11, <1>12, <2>1, <3>1, <3>2
  <2>2. QED
    BY <1>12, <1>13, <2>1 DEF HealInv
<1>14. ASSUME NEW d \in Components
       PROVE  healing'[d].byAlert + Cardinality(HealersOf(d)') <= MaxRestarts + Cardinality(Loops)
  <2>1. /\ healing[d].byAlert + Cardinality(HealersOf(d)) <= MaxRestarts + Cardinality(Loops)
        /\ healing[d].byAlert \in Nat
        /\ HealersOf(d) \in SUBSET Healing!Threads /\ HealersOf(d) \ {t} \in SUBSET HealersOf(d)
    BY DEF HealInv, HealersOf
  <2>2. /\ Cardinality(HealersOf(d)) \in Nat /\ Cardinality(HealersOf(d) \ {t}) \in Nat
        /\ Cardinality(HealersOf(d) \ {t}) <= Cardinality(HealersOf(d))
        /\ t \in HealersOf(d) => Cardinality(HealersOf(d) \ {t}) = Cardinality(HealersOf(d)) - 1
    BY <2>1, HealersCounted
  <2>3. CASE d = c /\ alerted
    <3>1. healing'[d].byAlert \in Nat /\ healing'[d].byAlert <= healing[d].byAlert + 1
      BY <1>11, <1>12, <2>3 DEF old
    <3>2. QED
      BY <1>5, <1>8, <2>1, <2>2, <2>3, <3>1, HealersCounted
  <2>4. CASE ~(d = c /\ alerted)
    <3>1. healing'[d].byAlert = healing[d].byAlert
      BY <1>11, <1>12, <2>4 DEF old
    <3>2. QED
      BY <1>8, <2>1, <2>2, <3>1, HealersCounted
  <2>5. QED
    BY <2>3, <2>4
<1>15. QED
  BY <1>6, <1>7, <1>12, <1>13, <1>14 DEF HealInv

LEMMA ResumedPlausible ==
    ASSUME HealInv, NEW t \in Healing!Threads, thread[t].at = "round", NEW c
    PROVE  Plausible([thread[t] EXCEPT !.todo = thread[t].todo \ {c}])
BY DEF HealInv, Plausible, ThreadStates

LEMMA HealStep == HealInv /\ Healing!Next => HealInv'
<1> SUFFICES ASSUME HealInv, Healing!Next PROVE HealInv'
  OBVIOUS
<1>1. /\ Plausible(Healing!Gone) /\ Plausible(Healing!Asleep) /\ Plausible(Healing!AllOf(Components))
      /\ "healing" \notin {Healing!Gone.at, Healing!Asleep.at, Healing!AllOf(Components).at}
      /\ Operator \in Healing!Threads /\ Loops \subseteq Healing!Threads
  BY DEF Plausible, ThreadStates, Healing!Gone, Healing!Asleep, Healing!AllOf, Healing!Threads
<1>2. CASE Healing!Start
  BY <1>1, <1>2, QuietThread DEF Healing!Start
<1>3. ASSUME NEW l \in Loops, Healing!Wake(l) PROVE HealInv'
  BY <1>1, <1>3, QuietThread DEF Healing!Wake
<1>4. CASE Healing!ForceHealthCheck
  BY <1>1, <1>4, QuietThread DEF Healing!ForceHealthCheck
<1>5. ASSUME NEW t \in Healing!Threads, Healing!EndRound(t) PROVE HealInv'
  BY <1>1, <1>5, QuietThread DEF Healing!EndRound
<1>6. ASSUME NEW t \in Healing!Threads, Healing!CheckComponent(t) PROVE HealInv'
  <2>1. PICK c \in thread[t].todo : Healing!FindsHealthy(t, c) \/ Healing!FindsError(t, c) \/ Healing!FindsFailing(t, c)
    BY <1>6 DEF Healing!CheckComponent
  <2>2. thread[t].at = "round" /\ healing' = healing
    BY <1>6 DEF Healing!CheckComponent
  <2>3. ASSUME thread' = Healing!Checked(t, c) PROVE HealInv'
    <3> DEFINE r == [thread[t] EXCEPT !.todo = thread[t].todo \ {c}]
    <3>1. thread' = [thread EXCEPT ![t] = r]
      BY <2>3 DEF Healing!Checked
    <3>2. Plausible(r) /\ r.at = "round"
      BY <2>2, ResumedPlausible DEF HealInv, Plausible, ThreadStates
    <3> HIDE DEF r
    <3>3. QED
      BY <2>2, <3>1, <3>2, QuietThread
  <2>4. ASSUME ~Healing!OverBudget(c),
               thread' = [thread EXCEPT ![t] = [@ EXCEPT !.at = "healing", !.heals = c]]
        PROVE  HealInv'
    BY <2>2, <2>4, AlertKeepsBudget
  <2>5. QED
    BY <2>1, <2>3, <2>4
       DEF Healing!FindsHealthy, Healing!FindsError, Healing!FindsFailing, Healing!OnHealthAlert
<1>7. ASSUME NEW c \in Components, Healing!CheckAndHeal(c) PROVE HealInv'
  <2> DEFINE r == [thread[Operator] EXCEPT !.at = "healing", !.heals = c]
  <2>1. thread[Operator].at = "gone" /\ thread' = [thread EXCEPT ![Operator] = r] /\ healing' = healing
    BY <1>7 DEF Healing!CheckAndHeal
  <2>2. Plausible(r) /\ r.heals \notin r.todo
    BY <1>1, <2>1 DEF HealInv, Plausible, ThreadStates
  <2> HIDE DEF r
  <2>3. QED
    BY <1>1, <2>1, <2>2, QuietThread
<1>8. CASE UNCHANGED <<thread, healing>>
  BY <1>8 DEF HealInv, HealersOf
<1>9. ASSUME NEW c \in Components, Healing!Changes(c) PROVE HealInv'
  BY <1>8, <1>9 DEF Healing!Changes
<1>10. CASE Healing!Stop
  BY <1>8, <1>10 DEF Healing!Stop
<1>11. QED
  BY <1>2, <1>3, <1>4, <1>5, <1>6, <1>7, <1>9, <1>10, HealedKeepsBudget DEF Healing!Next, Healing!Step

\* integrated_healing.py and auto_restart.py: the budget of restarts is read before a restart
\* that takes seconds and counted after it, and still it is overdrawn by no more than the
\* threads that can be inside one together, less one.
THEOREM BudgetsHold == ControlSpec => []BudgetNearlyKept
<1>1. ControlInit => HealInv /\ RestartInv
  <2> SUFFICES ASSUME Healing!Init, Restart!Init PROVE HealInv /\ RestartInv
    BY DEF ControlInit
  <2>1. /\ thread = [t \in Healing!Threads |-> Healing!Gone] /\ Plausible(Healing!Gone)
        /\ healing = [c \in Components |-> [restarts |-> 0, byAlert |-> 0]]
    BY DEF Healing!Init, Healing!Unhurt, Healing!Gone, Plausible, ThreadStates
  <2>2. \A c \in Components : HealersOf(c) = {}
    BY <2>1 DEF HealersOf, Healing!Gone
  <2>3. HealInv
    BY <2>1, <2>2, HealersCounted, FS_EmptySet DEF HealInv
  <2>4. restarts = 0 /\ caller = [t \in Callers |-> "idle"] /\ Waiting = {}
    BY DEF Restart!Init, Waiting
  <2>5. QED
    BY <2>3, <2>4, CallersCounted, FS_EmptySet DEF RestartInv
<1>2. HealInv /\ [ControlNext]_controlVars => HealInv'
  <2>1. [ControlNext]_controlVars => Healing!Next \/ UNCHANGED <<thread, healing>>
    BY DEF ControlNext, controlVars, healingVars, BreakersTurn, HealingTurn, RestartTurn, ReloadTurn,
           AwareTurn, GoalsTurn, SwitchTurn, BridgeTurn, OptTurn, ToldTurn
  <2>2. HealInv /\ UNCHANGED <<thread, healing>> => HealInv'
    BY DEF HealInv, HealersOf
  <2>3. QED
    BY <2>1, <2>2, HealStep
<1>3. RestartInv /\ [ControlNext]_controlVars => RestartInv'
  <2>1. [ControlNext]_controlVars => Restart!Next \/ UNCHANGED <<restarts, caller>>
    BY DEF ControlNext, controlVars, restartVars, BreakersTurn, HealingTurn, RestartTurn, ReloadTurn,
           AwareTurn, GoalsTurn, SwitchTurn, BridgeTurn, OptTurn, ToldTurn
  <2>2. RestartInv /\ UNCHANGED <<restarts, caller>> => RestartInv'
    BY DEF RestartInv, Waiting
  <2>3. QED
    BY <2>1, <2>2, RestartStep
<1>4. HealInv /\ RestartInv => BudgetNearlyKept
  <2> SUFFICES ASSUME HealInv, RestartInv PROVE BudgetNearlyKept
    OBVIOUS
  <2>1. ASSUME NEW c \in Components PROVE healing[c].byAlert <= MaxRestarts + Healing!Cardinality(Loops)
    <3>1. /\ healing[c].byAlert + Cardinality(HealersOf(c)) <= MaxRestarts + Cardinality(Loops)
          /\ healing[c].byAlert \in Nat /\ HealersOf(c) \in SUBSET Healing!Threads
      BY DEF HealInv, HealersOf
    <3>2. QED
      BY <3>1, HealersCounted, SameCounts
  <2>2. restarts <= MaxRestarts + Restart!Cardinality(Callers) - 1
    <3>1. Waiting \in SUBSET Callers
      BY DEF Waiting
    <3>2. QED
      BY <3>1, CallersCounted, SameCounts DEF RestartInv
  <2>3. QED
    BY <2>1, <2>2 DEF BudgetNearlyKept, Healing!BudgetNearlyKept, Restart!BudgetNearlyKept
<1>5. QED
  BY <1>1, <1>2, <1>3, <1>4, PTL DEF ControlSpec
-----------------------------------------------------------------------------
(* Alerts and the statistics of healing. *)

\* The healing events there are: those published, and what the bus rebuilds.
HealingEvents == [type : {"healing"}, component : Told!Known,
                  action : Actions \cup {"unknown"}, success : BOOLEAN]
RealEvents == [type : {"healing"}, component : Healable, action : Actions, success : BOOLEAN]
About(c) == {e \in HealingEvents : e.component = c}
Ended(c, ok) == {e \in HealingEvents : e.component = c /\ e.success = ok}

Rates == {r \in [action : Actions \cup {"unknown"}, uses : Nat, good : Nat, total : Nat \ {0}] :
             r.good <= r.total}
Statistics == [good : Nat, bad : Nat, streak : Nat, rates : Seq(Rates)]

\* What the statistics of one component keep.
StatsKept(s) ==
    /\ s \in Statistics /\ s.streak <= s.bad
    /\ Told!Total(s) > 0 => s.rates # <<>>

LEMMA RateStored ==
    ASSUME NEW rates \in Seq(Rates), NEW a \in Actions \cup {"unknown"},
           NEW good \in Nat, NEW total \in Nat \ {0}, good <= total
    PROVE  Told!WithRate(rates, a, good, total) \in Seq(Rates)
           /\ Told!WithRate(rates, a, good, total) # <<>>
<1> DEFINE known == {i \in DOMAIN rates : rates[i].action = a}
           uses == IF known = {} THEN 0 ELSE rates[CHOOSE i \in known : TRUE].uses
           stored == [action |-> a, uses |-> uses + 1, good |-> good, total |-> total]
           at == CHOOSE i \in known : TRUE
<1>1. known # {} => at \in DOMAIN rates
    OBVIOUS
<1>2. known # {} => rates[at] \in Rates
    BY <1>1
<1>3. uses \in Nat
    BY <1>2 DEF Rates
<1>4. stored \in Rates
  <2> HIDE DEF uses
  <2> QED
      BY <1>3 DEF Rates
<1>5. Told!WithRate(rates, a, good, total) = IF known = {} THEN Append(rates, stored) ELSE [rates EXCEPT ![at] = stored]
    BY DEF Told!WithRate
<1> HIDE DEF stored, at, known
<1>6. CASE known = {}
    BY <1>4, <1>5, <1>6
<1>7. CASE known # {}
  <2>1. [rates EXCEPT ![at] = stored] \in Seq(Rates)
      BY <1>1, <1>4, <1>7
  <2>2. Len(rates) > 0 /\ Len([rates EXCEPT ![at] = stored]) = Len(rates)
      BY <1>1, <1>7
  <2> QED
      BY <1>5, <1>7, <2>1, <2>2
<1> QED
    BY <1>6, <1>7

\* One more action is one more success or failure.
LEMMA StatsRecorded ==
    ASSUME NEW s, StatsKept(s), NEW r \in HealingEvents
    PROVE  LET n == Told!RecordAction(s, r)
           IN  /\ StatsKept(n)
               /\ n.good = s.good + (IF r.success THEN 1 ELSE 0)
               /\ n.bad = s.bad + (IF r.success THEN 0 ELSE 1)
               /\ Told!Total(n) = Told!Total(s) + 1
<1> DEFINE n == Told!RecordAction(s, r)
           good == s.good + (IF r.success THEN 1 ELSE 0)
           total == s.good + s.bad + 1
           rates == Told!WithRate(s.rates, r.action, good, total)
<1>1. /\ s.good \in Nat /\ s.bad \in Nat /\ s.streak \in Nat /\ s.streak <= s.bad
      /\ s.rates \in Seq(Rates) /\ r.success \in BOOLEAN /\ r.action \in Actions \cup {"unknown"}
    BY DEF StatsKept, Statistics, HealingEvents
<1>2. good \in Nat /\ total \in Nat \ {0} /\ good <= total
    BY <1>1
<1>3. rates \in Seq(Rates) /\ rates # <<>>
  <2> HIDE DEF good, total
  <2> QED
      BY <1>1, <1>2, RateStored
<1>4. n = [good |-> good, bad |-> total - good, streak |-> IF r.success THEN 0 ELSE s.streak + 1, rates |-> rates]
    BY <1>1 DEF Told!RecordAction, Told!Total
<1>5. total - good = s.bad + (IF r.success THEN 0 ELSE 1)
    BY <1>1
<1>6. total - good \in Nat /\ (IF r.success THEN 0 ELSE s.streak + 1) \in Nat
      /\ (IF r.success THEN 0 ELSE s.streak + 1) <= total - good
      /\ good + (total - good) = (s.good + s.bad) + 1
  <2>1. CASE r.success
      BY <1>1, <2>1
  <2>2. CASE ~r.success
      BY <1>1, <2>2
  <2> QED
      BY <2>1, <2>2
<1> HIDE DEF good, total, rates, n
<1>7. /\ n.good = good /\ n.bad = total - good /\ n.rates = rates
      /\ n.streak = (IF r.success THEN 0 ELSE s.streak + 1) /\ n \in Statistics
    BY <1>2, <1>3, <1>4, <1>6 DEF Statistics
<1>8. Told!Total(n) = (s.good + s.bad) + 1 /\ Told!Total(s) = s.good + s.bad
    BY <1>6, <1>7 DEF Told!Total
<1>9. StatsKept(n)
    BY <1>3, <1>6, <1>7 DEF StatsKept
<1> QED
    BY <1>5, <1>7, <1>8, <1>9 DEF n, good
Places == [at : {"outside", "recorded", "cut"}, cut : Seq(HealingEvents)]
Often(s, W) == Cardinality(Occurrences(s, W))
Kind(type, whole) == {a \in Told!Alerts : a.type = type /\ a.whole = whole}
TotalsOf(stats) == [c \in Told!Known |-> Told!Total(stats[c])]

\* The records of s that end so are among what the statistics count.
Honest(s, stats) ==
    \A c \in Told!Known : /\ Often(s, Ended(c, TRUE)) <= stats[c].good
                          /\ Often(s, Ended(c, FALSE)) <= stats[c].bad

\* The newest of s is the newest healing.
EndsWith(s, all) == s # <<>> /\ all # <<>> /\ s[Len(s)] = all[Len(all)]

ToldTyped ==
    /\ redis_up \in BOOLEAN /\ pending \in Seq(Told!Types)
    /\ reported \in [Told!Types -> Nat] /\ sent \in [Told!Alerts -> Nat]
    /\ healings \in Seq(RealEvents) /\ component_stats \in [Told!Known -> Statistics]
    /\ healing_history \in Seq(HealingEvents) /\ recording \in [Told!Threads -> Places]
    /\ ~redis_up => pending = <<>>

\* Of each kind of alert there are no more than events that lead to it: the empty ones
\* follow what the listener has taken.
AlertsTrue ==
    /\ \A type \in {"breach", "order"} :
          /\ SumFunctionOnSet(sent, Kind(type, TRUE)) <= reported[type]
          /\ SumFunctionOnSet(sent, Kind(type, FALSE))
               <= IF redis_up THEN reported[type] - Often(pending, {type}) ELSE 0
    /\ \A a \in Told!Alerts : a.type = "breach" /\ sent[a] > 0 => (a.whole <=> a.level = "critical")

\* The statistics follow the healings, and those of "unknown" what the listener has taken.
StatsTrue ==
    /\ \A c \in Told!Known : StatsKept(component_stats[c])
    /\ \A c \in Healable : Told!Total(component_stats[c]) = Often(healings, About(c))
    /\ component_stats["unknown"].good = 0
    /\ component_stats["unknown"].bad
         = IF redis_up THEN Len(healings) - Often(pending, {"healing"}) ELSE 0
    /\ SumFunctionOnSet(TotalsOf(component_stats), Told!Known)
         = Len(healings) + component_stats["unknown"].bad

\* A history that is too long is somebody's to cut; what was cut already is as good as it.
HistoryTrue ==
    /\ Len(healing_history) > MaxHistory => \E t \in Told!Threads : recording[t].at # "outside"
    /\ Honest(healing_history, component_stats)
    /\ \A t \in Told!Threads : recording[t].at = "cut" =>
          Honest(recording[t].cut, component_stats) /\ Len(recording[t].cut) <= MaxHistory
    /\ ~redis_up => recording["listener"].at = "outside"
    /\ ~redis_up /\ healings # <<>> =>
          /\ EndsWith(healing_history, healings)
          /\ recording["healer"].at = "cut" => EndsWith(recording["healer"].cut, healings)

ToldInv == ToldTyped /\ AlertsTrue /\ StatsTrue /\ HistoryTrue

LEMMA ToldConstants ==
    /\ IsFiniteSet(Told!Known) /\ "unknown" \in Told!Known /\ Healable \subseteq Told!Known
    /\ "unknown" \notin Healable /\ RealEvents \subseteq HealingEvents
    /\ MaxHistory \in Nat \ {0, 1} /\ MaxHistory \div 2 \in Nat \ {0} /\ MaxHistory \div 2 <= MaxHistory
    /\ MinSamples \in Nat \ {0} /\ MinUses \in Nat \ {0} /\ EffectivePercent \in 1..100
<1>1. Told!AlertsAssumption
    BY ControlAssumption
<1>2. IsFiniteSet(Healable)
    BY <1>1 DEF Told!AlertsAssumption, Told!IsFiniteSet, IsFiniteSet
<1>3. IsFiniteSet(Told!Known)
  <2>1. IsFiniteSet({"unknown"})
      BY FS_Singleton
  <2> QED
      BY <1>2, <2>1, FS_Union DEF Told!Known
<1>4. MaxHistory \in Nat \ {0, 1}
    BY <1>1 DEF Told!AlertsAssumption
<1>5. MaxHistory \div 2 \in Nat \ {0} /\ MaxHistory \div 2 <= MaxHistory
    BY <1>4
<1> QED
    BY <1>1, <1>3, <1>4, <1>5 DEF Told!AlertsAssumption, Told!Known, HealingEvents, RealEvents

\* The kinds of alerts are few.
LEMMA KindsFinite == \A type, whole : IsFiniteSet(Kind(type, whole)) /\ Kind(type, whole) \subseteq Told!Alerts
<1> SUFFICES ASSUME NEW type, NEW whole
             PROVE  IsFiniteSet(Kind(type, whole)) /\ Kind(type, whole) \subseteq Told!Alerts
    OBVIOUS
<1> DEFINE levels == {"info", "medium", "high", "critical"}
           made == {[type |-> type, level |-> l, whole |-> whole] : l \in levels}
<1>1. IsFiniteSet(levels)
  <2>2. IsFiniteSet({"info"}) /\ IsFiniteSet({"medium"}) /\ IsFiniteSet({"high"}) /\ IsFiniteSet({"critical"})
      BY FS_Singleton
  <2>3. IsFiniteSet({"info"} \cup {"medium"}) /\ IsFiniteSet({"high"} \cup {"critical"})
      BY <2>2, FS_Union
  <2>4. IsFiniteSet(({"info"} \cup {"medium"}) \cup ({"high"} \cup {"critical"}))
      BY <2>3, FS_Union
  <2>5. levels = ({"info"} \cup {"medium"}) \cup ({"high"} \cup {"critical"})
      OBVIOUS
  <2> QED
      BY <2>4, <2>5
<1>2. IsFiniteSet(made)
  <2> DEFINE make == [l \in levels |-> [type |-> type, level |-> l, whole |-> whole]]
  <2> HIDE DEF levels
  <2>1. make \in Surjection(levels, made)
      BY DEF Surjection
  <2> HIDE DEF make, made
  <2> QED
      BY <1>1, <2>1, FS_Surjection
<1>3. Kind(type, whole) \in SUBSET made
    BY DEF Kind, Told!Alerts
<1> HIDE DEF made
<1> QED
    BY <1>2, <1>3, FS_Subset DEF Kind
\* What a publication adds.
LEMMA PublicationCounted ==
    ASSUME ToldTyped, NEW e, e.type \in Told!Types, Told!Publish(e)
    PROVE  /\ redis_up' = redis_up /\ pending' \in Seq(Told!Types) /\ reported' \in [Told!Types -> Nat]
           /\ ~redis_up => pending' = <<>>
           /\ \A type \in Told!Types :
                 /\ reported'[type] = reported[type] + (IF type = e.type THEN 1 ELSE 0)
                 /\ redis_up => Often(pending', {type}) = Often(pending, {type}) + (IF type = e.type THEN 1 ELSE 0)
<1>1. /\ reported' = [reported EXCEPT ![e.type] = @ + 1] /\ redis_up' = redis_up
      /\ pending' = IF redis_up THEN Append(pending, e.type) ELSE pending
    BY DEF Told!Publish
<1>2. \A type : Often(Append(pending, e.type), {type}) = Often(pending, {type}) + (IF type = e.type THEN 1 ELSE 0)
  <2> SUFFICES ASSUME NEW type
               PROVE  Often(Append(pending, e.type), {type}) = Often(pending, {type}) + (IF type = e.type THEN 1 ELSE 0)
      OBVIOUS
  <2>1. pending \in Seq(Told!Types)
      BY DEF ToldTyped
  <2>2. e.type \in {type} <=> type = e.type
      OBVIOUS
  <2> HIDE DEF Often
  <2> QED
      BY <2>1, <2>2, CountAppended DEF Often
<1>3. /\ redis_up \in BOOLEAN /\ pending \in Seq(Told!Types) /\ reported \in [Told!Types -> Nat]
      /\ ~redis_up => pending = <<>>
    BY DEF ToldTyped
<1>4. pending' \in Seq(Told!Types) /\ (~redis_up => pending' = <<>>)
    BY <1>1, <1>3
<1>5. reported' \in [Told!Types -> Nat]
      /\ \A type \in Told!Types : reported'[type] = reported[type] + (IF type = e.type THEN 1 ELSE 0)
    BY <1>1, <1>3
<1> QED
    BY <1>1, <1>2, <1>4, <1>5

\* What one alert, sent or lost, adds.
LEMMA AlertCounted ==
    ASSUME ToldTyped, NEW a \in Told!Alerts, sent' \in {sent, [sent EXCEPT ![a] = @ + 1]}
    PROVE  /\ sent' \in [Told!Alerts -> Nat]
           /\ \A b \in Told!Alerts : b # a => sent'[b] = sent[b]
           /\ \A type, whole : SumFunctionOnSet(sent', Kind(type, whole)) <=
                 SumFunctionOnSet(sent, Kind(type, whole)) + (IF a.type = type /\ a.whole = whole THEN 1 ELSE 0)
<1>1. sent \in [Told!Alerts -> Nat] /\ sent' \in [Told!Alerts -> Nat]
      /\ \A b \in Told!Alerts : b # a => sent'[b] = sent[b]
      /\ (sent'[a] = sent[a] \/ sent'[a] = sent[a] + 1)
    BY DEF ToldTyped
<1>2. ASSUME NEW type, NEW whole
      PROVE  SumFunctionOnSet(sent', Kind(type, whole)) <=
                 SumFunctionOnSet(sent, Kind(type, whole)) + (IF a.type = type /\ a.whole = whole THEN 1 ELSE 0)
  <2> DEFINE K == Kind(type, whole)
  <2>1. IsFiniteSet(K) /\ K \subseteq Told!Alerts
      BY KindsFinite
  <2>2. \A b \in K : sent[b] \in Int /\ sent'[b] \in Int
      BY <1>1, <2>1
  <2>3. SumFunctionOnSet(sent, K) \in Int
      BY <2>1, <2>2, SumOnType
  <2>4. a \in K <=> a.type = type /\ a.whole = whole
      BY DEF Kind
  <2> HIDE DEF K
  <2>5. CASE a \in K /\ sent'[a] = sent[a] + 1
    <3>1. \A b \in K : b # a => sent'[b] = sent[b]
        BY <1>1, <2>1
    <3>2. SumFunctionOnSet(sent', K) = SumFunctionOnSet(sent, K) + 1
      <4>1. IsFiniteSet(K) /\ a \in K /\ (\A b \in K : sent[b] \in Int) /\ 1 \in Int
            /\ sent'[a] = sent[a] + 1
          BY <2>1, <2>2, <2>5
      <4>2. SUFFICES ASSUME NEW F, NEW G, F = sent, G = sent'
                     PROVE  SumFunctionOnSet(G, K) = SumFunctionOnSet(F, K) + 1
          OBVIOUS
      <4>3. (\A b \in K : F[b] \in Int) /\ G[a] = F[a] + 1 /\ (\A b \in K : a # b => G[b] = F[b])
          BY <3>1, <4>1, <4>2
      <4> QED
          BY <4>1, <4>3, SumOnAdded
    <3> QED
        BY <2>3, <2>4, <2>5, <3>2 DEF K
  <2>6. CASE ~(a \in K /\ sent'[a] = sent[a] + 1)
    <3>1. \A b \in K : sent'[b] = sent[b]
        BY <1>1, <2>1, <2>6
    <3>2. SumFunctionOnSet(sent', K) = SumFunctionOnSet(sent, K)
        BY <2>1, <2>2, <3>1, SumOnSame
    <3> QED
        BY <2>3, <3>2 DEF K
  <2> QED
      BY <2>5, <2>6
<1> QED
    BY <1>1, <1>2
\* One more record, and one more healing in the statistics of its component.
RecordedStats(stats, r) == [stats EXCEPT ![r.component] = Told!RecordAction(@, r)]

LEMMA StatsOfRecord ==
    ASSUME NEW stats \in [Told!Known -> Statistics], \A c \in Told!Known : StatsKept(stats[c]),
           NEW r \in HealingEvents
    PROVE  LET new == RecordedStats(stats, r)
           IN  /\ new \in [Told!Known -> Statistics] /\ \A c \in Told!Known : StatsKept(new[c])
               /\ \A c \in Told!Known : c # r.component => new[c] = stats[c]
               /\ new[r.component].good = stats[r.component].good + (IF r.success THEN 1 ELSE 0)
               /\ new[r.component].bad = stats[r.component].bad + (IF r.success THEN 0 ELSE 1)
               /\ Told!Total(new[r.component]) = Told!Total(stats[r.component]) + 1
               /\ SumFunctionOnSet(TotalsOf(new), Told!Known) = SumFunctionOnSet(TotalsOf(stats), Told!Known) + 1
<1> DEFINE new == RecordedStats(stats, r)
           d == r.component
<1>1. d \in Told!Known
    BY DEF HealingEvents
<1>2. \A c \in Told!Known : c # d => new[c] = stats[c]
    BY DEF RecordedStats
<1>3. new[d] = Told!RecordAction(stats[d], r)
    BY <1>1 DEF RecordedStats
<1>4. /\ StatsKept(new[d])
      /\ new[d].good = stats[d].good + (IF r.success THEN 1 ELSE 0)
      /\ new[d].bad = stats[d].bad + (IF r.success THEN 0 ELSE 1)
      /\ Told!Total(new[d]) = Told!Total(stats[d]) + 1
    BY <1>1, <1>3, StatsRecorded
<1>5. \A c \in Told!Known : StatsKept(new[c])
    BY <1>1, <1>2, <1>4
<1>6. new = [c \in Told!Known |-> new[c]]
    BY DEF RecordedStats
<1> HIDE DEF new, d
<1>7. new \in [Told!Known -> Statistics]
    BY <1>5, <1>6 DEF StatsKept
<1>8. SumFunctionOnSet(TotalsOf(new), Told!Known) = SumFunctionOnSet(TotalsOf(stats), Told!Known) + 1
  <2> DEFINE F == TotalsOf(stats)
             G == TotalsOf(new)
  <2>1. \A c \in Told!Known : F[c] \in Int
      BY DEF TotalsOf, Told!Total, Statistics
  <2>2. G[d] = F[d] + 1
      BY <1>1, <1>4 DEF TotalsOf
  <2>3. \A c \in Told!Known : d # c => G[c] = F[c]
      BY <1>2 DEF TotalsOf
  <2> HIDE DEF F, G
  <2>4. IsFiniteSet(Told!Known) /\ 1 \in Int
      BY ToldConstants
  <2>5. SUFFICES ASSUME NEW f, NEW g, f = F, g = G
                 PROVE  SumFunctionOnSet(g, Told!Known) = SumFunctionOnSet(f, Told!Known) + 1
      BY DEF F, G
  <2>6. (\A c \in Told!Known : f[c] \in Int) /\ g[d] = f[d] + 1
        /\ (\A c \in Told!Known : d # c => g[c] = f[c])
      BY <2>1, <2>2, <2>3, <2>5
  <2> QED
      BY <1>1, <2>4, <2>6, SumOnAdded
<1> QED
    BY <1>2, <1>4, <1>5, <1>7, <1>8 DEF new, d

\* Statistics only grow, so what was honest stays so.
LEMMA HonestStays ==
    ASSUME NEW stats \in [Told!Known -> Statistics], \A c \in Told!Known : StatsKept(stats[c]),
           NEW r \in HealingEvents, NEW s \in Seq(HealingEvents), Honest(s, stats)
    PROVE  Honest(s, RecordedStats(stats, r)) /\ Honest(Append(s, r), RecordedStats(stats, r))
<1> DEFINE new == RecordedStats(stats, r)
           d == r.component
<1>1. /\ new \in [Told!Known -> Statistics]
      /\ \A c \in Told!Known : c # d => new[c] = stats[c]
      /\ new[d].good = stats[d].good + (IF r.success THEN 1 ELSE 0)
      /\ new[d].bad = stats[d].bad + (IF r.success THEN 0 ELSE 1)
    BY StatsOfRecord
<1>2. d \in Told!Known /\ r.success \in BOOLEAN
    BY DEF HealingEvents
<1> HIDE DEF new, d
<1>3. ASSUME NEW c \in Told!Known
      PROVE  /\ Often(s, Ended(c, TRUE)) <= new[c].good /\ Often(s, Ended(c, FALSE)) <= new[c].bad
             /\ Often(Append(s, r), Ended(c, TRUE)) <= new[c].good
             /\ Often(Append(s, r), Ended(c, FALSE)) <= new[c].bad
  <2> DEFINE good == Often(s, Ended(c, TRUE))
             bad == Often(s, Ended(c, FALSE))
             more == Often(Append(s, r), Ended(c, TRUE))
             worse == Often(Append(s, r), Ended(c, FALSE))
  <2>1. good <= stats[c].good /\ bad <= stats[c].bad
      BY DEF Honest
  <2>2. /\ r \in Ended(c, TRUE) <=> d = c /\ r.success
        /\ r \in Ended(c, FALSE) <=> d = c /\ ~r.success
      BY <1>2 DEF Ended, d
  <2>3. /\ more = good + (IF r \in Ended(c, TRUE) THEN 1 ELSE 0)
        /\ worse = bad + (IF r \in Ended(c, FALSE) THEN 1 ELSE 0)
      BY CountAppended DEF Often
  <2>4. good \in Nat /\ bad \in Nat /\ stats[c].good \in Nat /\ stats[c].bad \in Nat
      BY OccurrencesType DEF Often, Statistics
  <2> SUFFICES good <= new[c].good /\ bad <= new[c].bad /\ more <= new[c].good /\ worse <= new[c].bad
      OBVIOUS
  <2> HIDE DEF good, bad, more, worse
  <2>5. CASE d = c /\ r.success
      BY <1>1, <2>1, <2>2, <2>3, <2>4, <2>5
  <2>6. CASE d = c /\ ~r.success
    <3>1. /\ new[c].good = stats[c].good + 0 /\ new[c].bad = stats[c].bad + 1
        BY <1>1, <2>6
    <3>2. more = good + 0 /\ worse = bad + 1
        BY <2>2, <2>3, <2>6
    <3> QED
        BY <2>1, <2>4, <3>1, <3>2
  <2>7. CASE d # c
    <3>1. new[c] = stats[c]
        BY <1>1, <2>7
    <3>2. more = good + 0 /\ worse = bad + 0
        BY <2>2, <2>3, <2>7
    <3> QED
        BY <2>1, <2>4, <3>1, <3>2
  <2> QED
      BY <1>2, <2>5, <2>6, <2>7
<1> QED
    BY <1>3 DEF Honest, new
LEMMA RecordStep ==
    ASSUME ToldInv, NEW t \in Told!Threads, NEW r \in HealingEvents, Told!Record(t, r)
    PROVE  /\ component_stats' = RecordedStats(component_stats, r)
           /\ healing_history' = Append(healing_history, r) /\ healing_history' \in Seq(HealingEvents)
           /\ recording' \in [Told!Threads -> Places] /\ recording'[t].at = "recorded"
           /\ \A u \in Told!Threads : u # t => recording'[u] = recording[u]
           /\ Honest(healing_history', component_stats')
           /\ \A u \in Told!Threads : recording'[u].at = "cut" =>
                 Honest(recording'[u].cut, component_stats') /\ Len(recording'[u].cut) <= MaxHistory
<1>1. /\ component_stats' = RecordedStats(component_stats, r)
      /\ healing_history' = Append(healing_history, r)
      /\ recording' = [recording EXCEPT ![t].at = "recorded"]
    BY DEF Told!Record, RecordedStats
<1>2. /\ component_stats \in [Told!Known -> Statistics] /\ healing_history \in Seq(HealingEvents)
      /\ recording \in [Told!Threads -> Places]
      /\ \A c \in Told!Known : StatsKept(component_stats[c])
    BY DEF ToldInv, ToldTyped, StatsTrue
<1>3. /\ recording' \in [Told!Threads -> Places] /\ recording'[t].at = "recorded"
      /\ \A u \in Told!Threads : u # t => recording'[u] = recording[u]
    BY <1>1, <1>2 DEF Places
<1>4. Honest(healing_history', component_stats')
    BY <1>1, <1>2, HonestStays DEF ToldInv, HistoryTrue
<1>5. ASSUME NEW u \in Told!Threads, recording'[u].at = "cut"
      PROVE  Honest(recording'[u].cut, component_stats') /\ Len(recording'[u].cut) <= MaxHistory
  <2>1. u # t /\ recording'[u] = recording[u] /\ recording[u].at = "cut"
      BY <1>3, <1>5
  <2>2. recording[u].cut \in Seq(HealingEvents)
      BY <1>2 DEF Places
  <2>3. Honest(recording[u].cut, component_stats) /\ Len(recording[u].cut) <= MaxHistory
      BY <2>1 DEF ToldInv, HistoryTrue
  <2> QED
      BY <1>1, <1>2, <2>1, <2>2, <2>3, HonestStays
<1> QED
    BY <1>1, <1>2, <1>3, <1>4, <1>5

LEMMA HealingReportedStep ==
    ASSUME ToldInv, Told!HealingReported PROVE ToldInv'
<1>1. PICK c \in Healable, a \in Actions, ok \in BOOLEAN :
          /\ Told!Publish(Told!HealingAction(c, a, ok))
          /\ Told!Record("healer", Told!HealingAction(c, a, ok))
          /\ healings' = Append(healings, Told!HealingAction(c, a, ok)) /\ sent' = sent
    BY DEF Told!HealingReported
<1> DEFINE e == Told!HealingAction(c, a, ok)
<1>2. e \in RealEvents /\ e \in HealingEvents /\ e.component = c /\ e.type = "healing" /\ e.type \in Told!Types
      /\ c \in Told!Known /\ c # "unknown" /\ "healer" \in Told!Threads /\ "listener" \in Told!Threads
    BY ToldConstants DEF Told!HealingAction, RealEvents, Told!Types, Told!Threads
<1> HIDE DEF e
<1>3. /\ Told!Publish(e) /\ Told!Record("healer", e) /\ healings' = Append(healings, e) /\ sent' = sent
    BY <1>1 DEF e
<1>4. ToldTyped /\ AlertsTrue /\ StatsTrue /\ HistoryTrue
    BY DEF ToldInv
<1>5. /\ redis_up' = redis_up /\ pending' \in Seq(Told!Types) /\ reported' \in [Told!Types -> Nat]
      /\ ~redis_up => pending' = <<>>
      /\ \A type \in Told!Types :
            /\ reported'[type] = reported[type] + (IF type = "healing" THEN 1 ELSE 0)
            /\ redis_up => Often(pending', {type}) = Often(pending, {type}) + (IF type = "healing" THEN 1 ELSE 0)
    BY <1>2, <1>3, <1>4, PublicationCounted
<1>6. /\ component_stats' = RecordedStats(component_stats, e)
      /\ healing_history' = Append(healing_history, e) /\ healing_history' \in Seq(HealingEvents)
      /\ recording' \in [Told!Threads -> Places] /\ recording'["healer"].at = "recorded"
      /\ recording'["listener"] = recording["listener"]
      /\ Honest(healing_history', component_stats')
      /\ \A u \in Told!Threads : recording'[u].at = "cut" =>
            Honest(recording'[u].cut, component_stats') /\ Len(recording'[u].cut) <= MaxHistory
    BY <1>2, <1>3, RecordStep
<1>7. healings' \in Seq(RealEvents) /\ Len(healings') = Len(healings) + 1 /\ Len(healings) \in Nat
      /\ healings'[Len(healings')] = e /\ healings' # <<>>
    BY <1>2, <1>3, <1>4 DEF ToldTyped
<1>8. /\ component_stats' \in [Told!Known -> Statistics] /\ \A k \in Told!Known : StatsKept(component_stats'[k])
      /\ \A k \in Told!Known : k # c => component_stats'[k] = component_stats[k]
      /\ Told!Total(component_stats'[c]) = Told!Total(component_stats[c]) + 1
      /\ SumFunctionOnSet(TotalsOf(component_stats'), Told!Known)
           = SumFunctionOnSet(TotalsOf(component_stats), Told!Known) + 1
    BY <1>2, <1>4, <1>6, StatsOfRecord DEF ToldTyped, StatsTrue
<1>9. ToldTyped'
    BY <1>3, <1>4, <1>5, <1>6, <1>7, <1>8 DEF ToldTyped
<1>10. AlertsTrue'
  <2>1. \A type \in {"breach", "order"} :
           reported'[type] = reported[type] + 0
           /\ (redis_up => Often(pending', {type}) = Often(pending, {type}) + 0)
      BY <1>5 DEF Told!Types
  <2>2. \A type \in {"breach", "order"} : reported[type] \in Nat /\ Often(pending, {type}) \in Nat
      BY <1>4, OccurrencesType DEF ToldTyped, Told!Types, Often
  <2>3. \A type \in {"breach", "order"} :
           reported'[type] = reported[type] /\ (redis_up => Often(pending', {type}) = Often(pending, {type}))
      BY <2>1, <2>2
  <2> QED
      BY <1>3, <1>4, <1>5, <2>3 DEF AlertsTrue
<1>11. StatsTrue'
  <2>1. \A k \in Healable : Told!Total(component_stats'[k]) = Often(healings', About(k))
    <3> SUFFICES ASSUME NEW k \in Healable PROVE Told!Total(component_stats'[k]) = Often(healings', About(k))
        OBVIOUS
    <3>1. healings \in Seq(HealingEvents)
        BY <1>4, ToldConstants DEF ToldTyped
    <3>2. Often(healings', About(k)) = Often(healings, About(k)) + (IF e \in About(k) THEN 1 ELSE 0)
        BY <1>2, <1>3, <3>1, CountAppended DEF Often
    <3>3. e \in About(k) <=> k = c
        BY <1>2 DEF About
    <3>4. Told!Total(component_stats[k]) = Often(healings, About(k)) /\ Often(healings, About(k)) \in Nat
        BY <1>4, <3>1, OccurrencesType DEF StatsTrue, Often
    <3>5. k \in Told!Known
        BY ToldConstants
    <3> QED
        BY <1>8, <3>2, <3>3, <3>4, <3>5
  <2>2. component_stats'["unknown"] = component_stats["unknown"]
      BY <1>2, <1>8, ToldConstants
  <2>3. component_stats'["unknown"].bad = IF redis_up' THEN Len(healings') - Often(pending', {"healing"}) ELSE 0
    <3>1. Often(pending, {"healing"}) \in Nat
        BY <1>4, OccurrencesType DEF Often, ToldTyped
    <3>2. redis_up => Often(pending', {"healing"}) = Often(pending, {"healing"}) + 1
        BY <1>5 DEF Told!Types
    <3>3. redis_up \in BOOLEAN
        BY <1>4 DEF ToldTyped
    <3> QED
        BY <1>4, <1>5, <1>7, <2>2, <3>1, <3>2, <3>3 DEF StatsTrue
  <2>4. component_stats["unknown"].bad \in Nat
      BY <1>4, ToldConstants DEF ToldTyped, Statistics
  <2>5. SumFunctionOnSet(TotalsOf(component_stats'), Told!Known) = Len(healings') + component_stats'["unknown"].bad
      BY <1>4, <1>7, <1>8, <2>2, <2>4 DEF StatsTrue
  <2> QED
      BY <1>4, <1>8, <2>1, <2>2, <2>3, <2>5 DEF StatsTrue
<1>12. HistoryTrue'
  <2>1. EndsWith(healing_history', healings')
    <3>1. healing_history \in Seq(HealingEvents)
        BY <1>4 DEF ToldTyped
    <3> QED
        BY <1>2, <1>6, <1>7, <3>1 DEF EndsWith
  <2>2. recording'["healer"].at # "outside" /\ recording'["healer"].at # "cut"
      BY <1>6
  <2>3. ~redis_up' => recording'["listener"].at = "outside"
      BY <1>4, <1>5, <1>6 DEF HistoryTrue
  <2> QED
      BY <1>2, <1>6, <2>1, <2>2, <2>3 DEF HistoryTrue
<1> QED
    BY <1>9, <1>10, <1>11, <1>12 DEF ToldInv
\* What the listener takes from Redis.
LEMMA OneTaken ==
    ASSUME ToldInv, pending # <<>>, pending' = Tail(pending)
    PROVE  /\ redis_up /\ pending' \in Seq(Told!Types) /\ Head(pending) \in Told!Types
           /\ \A type : /\ Often(pending, {type}) \in Nat /\ Often(pending', {type}) \in Nat
                        /\ Often(pending, {type}) = Often(pending', {type}) + (IF Head(pending) = type THEN 1 ELSE 0)
<1>1. pending \in Seq(Told!Types) /\ (~redis_up => pending = <<>>) /\ redis_up \in BOOLEAN
    BY DEF ToldInv, ToldTyped
<1>2. Tail(pending) \in Seq(Told!Types) /\ Head(pending) \in Told!Types
    BY <1>1
<1>3. ASSUME NEW type
      PROVE  /\ Often(pending, {type}) \in Nat /\ Often(Tail(pending), {type}) \in Nat
             /\ Often(pending, {type}) = Often(Tail(pending), {type}) + (IF Head(pending) = type THEN 1 ELSE 0)
  <2>1. Often(pending, {type}) \in Nat /\ Often(Tail(pending), {type}) \in Nat
      BY <1>1, <1>2, OccurrencesType DEF Often
  <2>2. Head(pending) \in {type} <=> Head(pending) = type
      OBVIOUS
  <2>3. Often(pending, {type}) = Often(Tail(pending), {type}) + (IF Head(pending) \in {type} THEN 1 ELSE 0)
      BY <1>1, CountTail DEF Often
  <2> QED
      BY <2>1, <2>2, <2>3
<1> QED
    BY <1>1, <1>2, <1>3

LEMMA ListenerRecords ==
    ASSUME ToldInv, Told!ListenerCalls, Head(pending) = "healing" PROVE ToldInv'
<1> DEFINE e == Told!Rebuilt(Head(pending))
<1>1. e = [type |-> "healing", component |-> "unknown", action |-> "unknown", success |-> FALSE]
    BY DEF Told!Rebuilt, Told!HealingAction
<1>2. /\ pending # <<>> /\ pending' = Tail(pending)
      /\ (e.type = "healing" /\ Told!Record("listener", e) /\ sent' = sent) \/ e.type # "healing"
      /\ redis_up' = redis_up /\ reported' = reported /\ healings' = healings
    BY DEF Told!ListenerCalls
<1>3. /\ e \in HealingEvents /\ e.component = "unknown" /\ e.success = FALSE /\ e.type = "healing"
      /\ "unknown" \in Told!Known /\ "healer" \in Told!Threads /\ "listener" \in Told!Threads
  <2>1. "unknown" \in Told!Known /\ "healer" \in Told!Threads /\ "listener" \in Told!Threads
      BY ToldConstants DEF Told!Threads
  <2> HIDE DEF e
  <2>2. e.component = "unknown" /\ e.success = FALSE /\ e.type = "healing"
      BY <1>1
  <2>3. e \in HealingEvents
      BY <1>1, <2>1 DEF HealingEvents
  <2> QED
      BY <2>1, <2>2, <2>3
<1> HIDE DEF e
<1>4. ToldTyped /\ AlertsTrue /\ StatsTrue /\ HistoryTrue
    BY DEF ToldInv
<1>5. Told!Record("listener", e) /\ sent' = sent
    BY <1>2, <1>3
<1>6. /\ redis_up /\ pending' \in Seq(Told!Types)
      /\ \A type : /\ Often(pending, {type}) \in Nat /\ Often(pending', {type}) \in Nat
                   /\ Often(pending, {type}) = Often(pending', {type}) + (IF Head(pending) = type THEN 1 ELSE 0)
    BY <1>2, OneTaken
<1>7. /\ component_stats' = RecordedStats(component_stats, e)
      /\ healing_history' = Append(healing_history, e) /\ healing_history' \in Seq(HealingEvents)
      /\ recording' \in [Told!Threads -> Places] /\ recording'["listener"].at = "recorded"
      /\ recording'["healer"] = recording["healer"]
      /\ Honest(healing_history', component_stats')
      /\ \A u \in Told!Threads : recording'[u].at = "cut" =>
            Honest(recording'[u].cut, component_stats') /\ Len(recording'[u].cut) <= MaxHistory
    BY <1>3, <1>5, RecordStep
<1>8. /\ component_stats' \in [Told!Known -> Statistics] /\ \A k \in Told!Known : StatsKept(component_stats'[k])
      /\ \A k \in Told!Known : k # "unknown" => component_stats'[k] = component_stats[k]
      /\ component_stats'["unknown"].good = component_stats["unknown"].good + 0
      /\ component_stats'["unknown"].bad = component_stats["unknown"].bad + 1
      /\ SumFunctionOnSet(TotalsOf(component_stats'), Told!Known)
           = SumFunctionOnSet(TotalsOf(component_stats), Told!Known) + 1
  <2>1. component_stats \in [Told!Known -> Statistics] /\ \A k \in Told!Known : StatsKept(component_stats[k])
      BY <1>4 DEF ToldTyped, StatsTrue
  <2> DEFINE new == RecordedStats(component_stats, e)
  <2>2. /\ new \in [Told!Known -> Statistics] /\ \A k \in Told!Known : StatsKept(new[k])
        /\ \A k \in Told!Known : k # e.component => new[k] = component_stats[k]
        /\ new[e.component].good = component_stats[e.component].good + (IF e.success THEN 1 ELSE 0)
        /\ new[e.component].bad = component_stats[e.component].bad + (IF e.success THEN 0 ELSE 1)
        /\ SumFunctionOnSet(TotalsOf(new), Told!Known) = SumFunctionOnSet(TotalsOf(component_stats), Told!Known) + 1
      BY <1>3, <2>1, StatsOfRecord
  <2>3. component_stats' = new
      BY <1>7
  <2> HIDE DEF new
  <2> QED
      BY <1>3, <2>2, <2>3
<1>9. ToldTyped'
    BY <1>2, <1>4, <1>5, <1>6, <1>7, <1>8 DEF ToldTyped
<1>10. AlertsTrue'
  <2>1. \A type \in {"breach", "order"} : Often(pending', {type}) = Often(pending, {type})
    <3> SUFFICES ASSUME NEW type \in {"breach", "order"}
                 PROVE  Often(pending', {type}) = Often(pending, {type})
        OBVIOUS
    <3>1. Head(pending) # type
        OBVIOUS
    <3>2. /\ Often(pending, {type}) \in Nat /\ Often(pending', {type}) \in Nat
          /\ Often(pending, {type}) = Often(pending', {type}) + (IF Head(pending) = type THEN 1 ELSE 0)
        BY <1>6
    <3>3. Often(pending, {type}) = Often(pending', {type}) + 0
        BY <3>1, <3>2
    <3> QED
        BY <3>2, <3>3
  <2> QED
      BY <1>2, <1>4, <1>5, <2>1 DEF AlertsTrue
<1>11. StatsTrue'
  <2>1. \A k \in Healable : component_stats'[k] = component_stats[k]
      BY <1>8, ToldConstants
  <2>2. component_stats["unknown"].bad \in Nat /\ component_stats["unknown"].good = 0
        /\ component_stats["unknown"].bad = Len(healings) - Often(pending, {"healing"}) /\ Len(healings) \in Nat
      BY <1>3, <1>4, <1>6 DEF ToldTyped, Statistics, StatsTrue
  <2>3. Often(pending, {"healing"}) = Often(pending', {"healing"}) + 1 /\ Often(pending', {"healing"}) \in Nat
      BY <1>6
  <2>4. component_stats'["unknown"].bad = Len(healings') - Often(pending', {"healing"})
        /\ component_stats'["unknown"].good = 0
      BY <1>2, <1>8, <2>2, <2>3
  <2>5. SumFunctionOnSet(TotalsOf(component_stats'), Told!Known) = Len(healings') + component_stats'["unknown"].bad
      BY <1>2, <1>4, <1>8, <2>2 DEF StatsTrue
  <2> QED
      BY <1>2, <1>4, <1>6, <1>8, <2>1, <2>4, <2>5 DEF StatsTrue
<1>12. HistoryTrue'
  <2>1. recording'["listener"].at # "outside"
      BY <1>7
  <2> QED
      BY <1>2, <1>3, <1>6, <1>7, <2>1 DEF HistoryTrue
<1> QED
    BY <1>9, <1>10, <1>11, <1>12 DEF ToldInv
\* The level of an alert: critical of a breach exactly when it has a score.
LEMMA Graded ==
    ASSUME NEW e, e.type \in {"breach", "order"}, e.score \in {0, 80, 100}
    PROVE  /\ Told!LevelOf(e) \in {"info", "medium", "high", "critical"}
           /\ e.type = "breach" => (Told!LevelOf(e) = "critical" <=> e.score # 0)
<1>1. CASE e.type = "order"
    BY <1>1 DEF Told!LevelOf
<1>2. CASE e.type = "breach"
    BY <1>2 DEF Told!LevelOf
<1> QED
    BY <1>1, <1>2

\* Whatever was raised and counted: no more alerts than their bounds, which grew at least as much.
LEMMA AlertsStay ==
    ASSUME ToldInv, NEW a \in Told!Alerts, a.type = "breach" => (a.whole <=> a.level = "critical"),
           sent' \in {sent, [sent EXCEPT ![a] = @ + 1]}, redis_up' = redis_up,
           reported' \in [Told!Types -> Nat], pending' \in Seq(Told!Types),
           \A type \in {"breach", "order"} :
              /\ reported'[type] >= reported[type] + (IF a.type = type /\ a.whole THEN 1 ELSE 0)
              /\ redis_up => reported'[type] - Often(pending', {type})
                    >= (reported[type] - Often(pending, {type})) + (IF a.type = type /\ ~a.whole THEN 1 ELSE 0)
              /\ ~redis_up => a.whole
    PROVE  AlertsTrue' /\ sent' \in [Told!Alerts -> Nat]
<1>1. ToldTyped /\ AlertsTrue
    BY DEF ToldInv
<1>2. /\ sent' \in [Told!Alerts -> Nat]
      /\ \A b \in Told!Alerts : b # a => sent'[b] = sent[b]
      /\ \A type, whole : SumFunctionOnSet(sent', Kind(type, whole)) <=
             SumFunctionOnSet(sent, Kind(type, whole)) + (IF a.type = type /\ a.whole = whole THEN 1 ELSE 0)
    BY <1>1, AlertCounted
<1>3. \A f, type, whole : f \in [Told!Alerts -> Nat] => SumFunctionOnSet(f, Kind(type, whole)) \in Int
  <2> SUFFICES ASSUME NEW f \in [Told!Alerts -> Nat], NEW type, NEW whole
               PROVE  SumFunctionOnSet(f, Kind(type, whole)) \in Int
      OBVIOUS
  <2>1. \A x \in Kind(type, whole) : f[x] \in Int
      BY KindsFinite
  <2> QED
      BY <2>1, KindsFinite, SumOnType
<1>4. a.whole \in BOOLEAN /\ redis_up \in BOOLEAN
    BY <1>1 DEF Told!Alerts, ToldTyped
<1>5. ASSUME NEW type \in {"breach", "order"}
      PROVE  /\ SumFunctionOnSet(sent', Kind(type, TRUE)) <= reported'[type]
             /\ SumFunctionOnSet(sent', Kind(type, FALSE))
                  <= IF redis_up' THEN reported'[type] - Often(pending', {type}) ELSE 0
  <2> DEFINE w == SumFunctionOnSet(sent, Kind(type, TRUE))
             n == SumFunctionOnSet(sent, Kind(type, FALSE))
             w1 == SumFunctionOnSet(sent', Kind(type, TRUE))
             n1 == SumFunctionOnSet(sent', Kind(type, FALSE))
             left == Often(pending, {type})
             left1 == Often(pending', {type})
  <2>1. w \in Int /\ n \in Int /\ w1 \in Int /\ n1 \in Int
      BY <1>1, <1>2, <1>3 DEF ToldTyped
  <2>2. left \in Nat /\ left1 \in Nat /\ reported[type] \in Nat /\ reported'[type] \in Nat
      BY <1>1, OccurrencesType DEF ToldTyped, Often, Told!Types
  <2>3. w <= reported[type] /\ n <= IF redis_up THEN reported[type] - left ELSE 0
      BY <1>1 DEF AlertsTrue
  <2>4. w1 <= w + (IF a.type = type /\ a.whole = TRUE THEN 1 ELSE 0)
        /\ n1 <= n + (IF a.type = type /\ a.whole = FALSE THEN 1 ELSE 0)
      BY <1>2
  <2>5. /\ reported'[type] >= reported[type] + (IF a.type = type /\ a.whole THEN 1 ELSE 0)
        /\ redis_up => reported'[type] - left1 >= (reported[type] - left) + (IF a.type = type /\ ~a.whole THEN 1 ELSE 0)
        /\ ~redis_up => a.whole
      OBVIOUS
  <2> SUFFICES w1 <= reported'[type] /\ n1 <= IF redis_up THEN reported'[type] - left1 ELSE 0
      OBVIOUS
  <2> HIDE DEF w, n, w1, n1, left, left1
  <2>6. CASE a.type = type /\ a.whole = TRUE
      BY <1>4, <2>1, <2>2, <2>3, <2>4, <2>5, <2>6
  <2>7. CASE a.type = type /\ a.whole = FALSE
      BY <1>4, <2>1, <2>2, <2>3, <2>4, <2>5, <2>7
  <2>8. CASE a.type # type
      BY <1>4, <2>1, <2>2, <2>3, <2>4, <2>5, <2>8
  <2> QED
      BY <1>4, <2>6, <2>7, <2>8
<1>6. \A b \in Told!Alerts : b.type = "breach" /\ sent'[b] > 0 => (b.whole <=> b.level = "critical")
    BY <1>1, <1>2 DEF AlertsTrue
<1> QED
    BY <1>2, <1>5, <1>6 DEF AlertsTrue
\* A breach or an executed order is published, and alerts at once.
Raised(e) ==
    /\ e.type \in {"breach", "order"} /\ e.score \in {0, 80, 100} /\ (e.type = "breach" => e.score # 0)
    /\ Told!Publish(e) /\ Told!Alerted(e, TRUE)
    /\ UNCHANGED <<healings, component_stats, healing_history, recording>>

LEMMA AlertPublished ==
    ASSUME ToldInv, NEW e, Raised(e) PROVE ToldInv'
<1> USE DEF Raised
<1> DEFINE a == [type |-> e.type, level |-> Told!LevelOf(e), whole |-> TRUE]
<1>1. ToldTyped /\ AlertsTrue /\ StatsTrue /\ HistoryTrue
    BY DEF ToldInv
<1>2. e.type \in Told!Types
    BY DEF Told!Types
<1>3. /\ redis_up' = redis_up /\ pending' \in Seq(Told!Types) /\ reported' \in [Told!Types -> Nat]
      /\ ~redis_up => pending' = <<>>
      /\ \A type \in Told!Types :
            /\ reported'[type] = reported[type] + (IF type = e.type THEN 1 ELSE 0)
            /\ redis_up => Often(pending', {type}) = Often(pending, {type}) + (IF type = e.type THEN 1 ELSE 0)
    BY <1>1, <1>2, PublicationCounted
<1>4. a \in Told!Alerts /\ (a.type = "breach" => (a.whole <=> a.level = "critical"))
  <2>1. Told!LevelOf(e) \in {"info", "medium", "high", "critical"}
        /\ (e.type = "breach" => Told!LevelOf(e) = "critical")
      BY Graded
  <2> QED
      BY <2>1 DEF Told!Alerts
<1>5. a.type = e.type /\ a.whole = TRUE
    OBVIOUS
<1>6. sent' \in {sent, [sent EXCEPT ![a] = @ + 1]}
    BY DEF Told!Alerted
<1> HIDE DEF a
<1>7. ASSUME NEW type \in {"breach", "order"}
      PROVE  /\ reported'[type] >= reported[type] + (IF a.type = type /\ a.whole THEN 1 ELSE 0)
             /\ redis_up => reported'[type] - Often(pending', {type})
                    >= (reported[type] - Often(pending, {type})) + (IF a.type = type /\ ~a.whole THEN 1 ELSE 0)
             /\ ~redis_up => a.whole
  <2> DEFINE left == Often(pending, {type})
             left1 == Often(pending', {type})
  <2>1. left \in Nat /\ left1 \in Nat /\ reported[type] \in Nat /\ reported'[type] \in Nat
      BY <1>1, <1>3, OccurrencesType DEF ToldTyped, Often, Told!Types
  <2>2. reported'[type] = reported[type] + (IF type = e.type THEN 1 ELSE 0)
        /\ (redis_up => left1 = left + (IF type = e.type THEN 1 ELSE 0))
      BY <1>3 DEF Told!Types
  <2> SUFFICES /\ reported'[type] >= reported[type] + (IF type = e.type THEN 1 ELSE 0)
               /\ redis_up => reported'[type] - left1 >= (reported[type] - left) + 0
      BY <1>5
  <2> HIDE DEF left, left1
  <2>3. CASE type = e.type
      BY <2>1, <2>2, <2>3
  <2>4. CASE type # e.type
      BY <2>1, <2>2, <2>4
  <2> QED
      BY <2>3, <2>4
<1>8. AlertsTrue' /\ sent' \in [Told!Alerts -> Nat]
    BY <1>3, <1>4, <1>6, <1>7, AlertsStay
<1>9. ToldTyped'
    BY <1>1, <1>3, <1>8 DEF ToldTyped
<1>10. redis_up => Often(pending', {"healing"}) = Often(pending, {"healing"})
  <2>1. "healing" # e.type /\ "healing" \in Told!Types
      BY DEF Told!Types
  <2>2. redis_up => Often(pending', {"healing"}) = Often(pending, {"healing"}) + 0
      BY <1>3, <2>1
  <2>3. Often(pending, {"healing"}) \in Nat
      BY <1>1, OccurrencesType DEF ToldTyped, Often
  <2> QED
      BY <2>2, <2>3
<1>11. StatsTrue'
    BY <1>1, <1>3, <1>10 DEF StatsTrue
<1>12. HistoryTrue'
    BY <1>1, <1>3 DEF HistoryTrue
<1> QED
    BY <1>8, <1>9, <1>11, <1>12 DEF ToldInv

LEMMA ListenerAlerts ==
    ASSUME ToldInv, Told!ListenerCalls, Head(pending) # "healing" PROVE ToldInv'
<1> DEFINE e == Told!Rebuilt(Head(pending))
           a == [type |-> e.type, level |-> Told!LevelOf(e), whole |-> FALSE]
<1>1. ToldTyped /\ AlertsTrue /\ StatsTrue /\ HistoryTrue
    BY DEF ToldInv
<1>2. pending # <<>> /\ pending' = Tail(pending)
    BY DEF Told!ListenerCalls
<1>3. /\ redis_up /\ pending' \in Seq(Told!Types) /\ Head(pending) \in Told!Types
      /\ \A type : /\ Often(pending, {type}) \in Nat /\ Often(pending', {type}) \in Nat
                   /\ Often(pending, {type}) = Often(pending', {type}) + (IF Head(pending) = type THEN 1 ELSE 0)
    BY <1>2, OneTaken
<1>4. e = [type |-> Head(pending), score |-> 0] /\ Head(pending) \in {"breach", "order"}
    BY <1>3 DEF Told!Rebuilt, Told!Types
<1>5. e.type = Head(pending) /\ e.score = 0
    BY <1>4
<1>6. a \in Told!Alerts /\ (a.type = "breach" => (a.whole <=> a.level = "critical"))
  <2> HIDE DEF e
  <2>1. e.type \in {"breach", "order"} /\ e.score \in {0, 80, 100}
      BY <1>4, <1>5
  <2>2. Told!LevelOf(e) \in {"info", "medium", "high", "critical"}
        /\ (e.type = "breach" => Told!LevelOf(e) # "critical")
      BY <1>5, <2>1, Graded
  <2> QED
      BY <2>1, <2>2 DEF Told!Alerts
<1>7. a.type = Head(pending) /\ a.whole = FALSE
    BY <1>5
<1>8. /\ sent' \in {sent, [sent EXCEPT ![a] = @ + 1]}
      /\ redis_up' = redis_up /\ reported' = reported /\ healings' = healings
      /\ component_stats' = component_stats /\ healing_history' = healing_history /\ recording' = recording
  <2>1. e.type # "healing"
      BY <1>5
  <2> HIDE DEF e
  <2>2. Told!Alerted(e, FALSE)
      BY <2>1 DEF Told!ListenerCalls, e
  <2> QED
      BY <2>1, <2>2 DEF Told!ListenerCalls, Told!Alerted, Told!tracker, e
<1> HIDE DEF a, e
<1>9. ASSUME NEW type \in {"breach", "order"}
      PROVE  /\ reported'[type] >= reported[type] + (IF a.type = type /\ a.whole THEN 1 ELSE 0)
             /\ redis_up => reported'[type] - Often(pending', {type})
                    >= (reported[type] - Often(pending, {type})) + (IF a.type = type /\ ~a.whole THEN 1 ELSE 0)
             /\ ~redis_up => a.whole
  <2> DEFINE left == Often(pending, {type})
             left1 == Often(pending', {type})
  <2>1. left \in Nat /\ left1 \in Nat /\ reported[type] \in Nat
      BY <1>1, <1>3 DEF ToldTyped, Told!Types
  <2>2. left = left1 + (IF Head(pending) = type THEN 1 ELSE 0)
      BY <1>3
  <2> SUFFICES reported[type] >= reported[type] + 0
               /\ reported[type] - left1 >= (reported[type] - left) + (IF Head(pending) = type THEN 1 ELSE 0)
      BY <1>3, <1>7, <1>8
  <2> HIDE DEF left, left1
  <2>3. CASE Head(pending) = type
      BY <2>1, <2>2, <2>3
  <2>4. CASE Head(pending) # type
      BY <2>1, <2>2, <2>4
  <2> QED
      BY <2>3, <2>4
<1>10. AlertsTrue' /\ sent' \in [Told!Alerts -> Nat]
  <2>1. reported' \in [Told!Types -> Nat]
      BY <1>1, <1>8 DEF ToldTyped
  <2> QED
      BY <1>3, <1>6, <1>8, <1>9, <2>1, AlertsStay
<1>11. ToldTyped'
    BY <1>1, <1>3, <1>8, <1>10 DEF ToldTyped
<1>12. Often(pending', {"healing"}) = Often(pending, {"healing"})
  <2>1. Often(pending, {"healing"}) = Often(pending', {"healing"}) + 0 /\ Often(pending', {"healing"}) \in Nat
      BY <1>3
  <2> QED
      BY <2>1
<1>13. StatsTrue'
    BY <1>1, <1>8, <1>12 DEF StatsTrue
<1>14. HistoryTrue'
    BY <1>1, <1>8 DEF HistoryTrue
<1> QED
    BY <1>10, <1>11, <1>13, <1>14 DEF ToldInv
LEMMA CutStep ==
    ASSUME ToldInv, NEW t \in Told!Threads, Told!Cut(t) PROVE ToldInv'
<1>1. ToldTyped /\ AlertsTrue /\ StatsTrue /\ HistoryTrue
    BY DEF ToldInv
<1> DEFINE n == Len(healing_history)
           half == MaxHistory \div 2
           newer == SubSeq(healing_history, n - half + 1, n)
           place == IF n > MaxHistory THEN [at |-> "cut", cut |-> newer] ELSE Told!Outside
<1>2. /\ recording' = [recording EXCEPT ![t] = place] /\ redis_up' = redis_up /\ pending' = pending
      /\ reported' = reported /\ healings' = healings /\ sent' = sent
      /\ component_stats' = component_stats /\ healing_history' = healing_history
      /\ recording[t].at = "recorded"
    BY DEF Told!Cut, Told!Newer
<1>3. /\ MaxHistory \in Nat /\ half \in Nat \ {0} /\ half <= MaxHistory /\ n \in Nat
      /\ healing_history \in Seq(HealingEvents) /\ recording \in [Told!Threads -> Places]
    BY <1>1, ToldConstants DEF ToldTyped
<1>4. n > MaxHistory =>
        /\ newer \in Seq(HealingEvents) /\ Len(newer) = half /\ newer # <<>>
        /\ newer[half] = healing_history[n]
        /\ Honest(newer, component_stats)
  <2> SUFFICES ASSUME n > MaxHistory
               PROVE  /\ newer \in Seq(HealingEvents) /\ Len(newer) = half /\ newer # <<>>
                      /\ newer[half] = healing_history[n]
                      /\ Honest(newer, component_stats)
      OBVIOUS
  <2> DEFINE m == n - half + 1
  <2> HIDE DEF half
  <2>1. m \in Nat \ {0} /\ m <= n /\ n - m + 1 = half /\ m + half - 1 = n
      BY <1>3
  <2> HIDE DEF n, m
  <2>2. \A i \in m..n : healing_history[i] \in HealingEvents
    <3>1. \A i \in m..n : i \in 1..Len(healing_history)
        BY <1>3, <2>1 DEF n
    <3> QED
        BY <1>3, <3>1, ElementOfSeq
  <2>3. /\ SubSeq(healing_history, m, n) \in Seq(HealingEvents) /\ Len(SubSeq(healing_history, m, n)) = half
        /\ SubSeq(healing_history, m, n)[half] = healing_history[n]
    <3>1. m \in Int /\ n \in Int /\ half \in 1..(n - m + 1)
        BY <1>3, <2>1
    <3>2. /\ SubSeq(healing_history, m, n) \in Seq(HealingEvents)
          /\ Len(SubSeq(healing_history, m, n)) = (IF m <= n THEN n - m + 1 ELSE 0)
          /\ \A i \in 1..(n - m + 1) : SubSeq(healing_history, m, n)[i] = healing_history[m + i - 1]
        BY <2>2, <3>1, SubSeqProperties
    <3> QED
        BY <2>1, <3>1, <3>2
  <2>4. SubSeq(healing_history, m, n) # <<>>
      BY <1>3, <2>3
  <2>5. Honest(SubSeq(healing_history, m, n), component_stats)
    <3> SUFFICES ASSUME NEW c \in Told!Known
                 PROVE  /\ Often(SubSeq(healing_history, m, n), Ended(c, TRUE)) <= component_stats[c].good
                        /\ Often(SubSeq(healing_history, m, n), Ended(c, FALSE)) <= component_stats[c].bad
        BY DEF Honest
    <3>1. n \in Nat /\ n <= Len(healing_history)
        BY <1>3 DEF n
    <3>2. /\ Often(SubSeq(healing_history, m, n), Ended(c, TRUE)) <= Often(healing_history, Ended(c, TRUE))
          /\ Often(SubSeq(healing_history, m, n), Ended(c, FALSE)) <= Often(healing_history, Ended(c, FALSE))
        BY <1>3, <2>1, <3>1, CountPart DEF Often
    <3>3. /\ Often(healing_history, Ended(c, TRUE)) <= component_stats[c].good
          /\ Often(healing_history, Ended(c, FALSE)) <= component_stats[c].bad
        BY <1>1 DEF HistoryTrue, Honest
    <3>4. /\ Often(healing_history, Ended(c, TRUE)) \in Nat /\ Often(healing_history, Ended(c, FALSE)) \in Nat
          /\ Often(SubSeq(healing_history, m, n), Ended(c, TRUE)) \in Nat
          /\ Often(SubSeq(healing_history, m, n), Ended(c, FALSE)) \in Nat
          /\ component_stats[c].good \in Nat /\ component_stats[c].bad \in Nat
        BY <1>1, <1>3, <2>3, OccurrencesType DEF Often, ToldTyped, Statistics
    <3>5. \A i, j, k \in Nat : i <= j /\ j <= k => i <= k
        OBVIOUS
    <3> DEFINE some(ok) == Often(SubSeq(healing_history, m, n), Ended(c, ok))
               all(ok) == Often(healing_history, Ended(c, ok))
    <3>6. /\ some(TRUE) <= all(TRUE) /\ some(FALSE) <= all(FALSE)
          /\ all(TRUE) <= component_stats[c].good /\ all(FALSE) <= component_stats[c].bad
          /\ some(TRUE) \in Nat /\ some(FALSE) \in Nat /\ all(TRUE) \in Nat /\ all(FALSE) \in Nat
        BY <3>2, <3>3, <3>4
    <3> SUFFICES some(TRUE) <= component_stats[c].good /\ some(FALSE) <= component_stats[c].bad
        OBVIOUS
    <3> HIDE DEF some, all
    <3> QED
        BY <3>4, <3>5, <3>6
  <2> QED
      BY <2>3, <2>4, <2>5 DEF m, n
<1> HIDE DEF n, newer, half
<1>5. place \in Places
    BY <1>4 DEF Places, Told!Outside
<1>6. /\ recording' \in [Told!Threads -> Places] /\ recording'[t] = place
      /\ \A u \in Told!Threads : u # t => recording'[u] = recording[u]
    BY <1>2, <1>3, <1>5
<1>7. /\ n > MaxHistory => place.at = "cut" /\ place.cut = newer
      /\ ~(n > MaxHistory) => place.at = "outside"
    BY DEF Told!Outside
<1> HIDE DEF place
<1>8. HistoryTrue'
  <2>1. Len(healing_history') > MaxHistory => \E u \in Told!Threads : recording'[u].at # "outside"
      BY <1>2, <1>6, <1>7 DEF n
  <2>2. Honest(healing_history', component_stats')
      BY <1>1, <1>2 DEF HistoryTrue
  <2>3. ASSUME NEW u \in Told!Threads, recording'[u].at = "cut"
        PROVE  Honest(recording'[u].cut, component_stats') /\ Len(recording'[u].cut) <= MaxHistory
    <3>1. CASE u = t
        BY <1>2, <1>3, <1>4, <1>6, <1>7, <2>3, <3>1
    <3>2. CASE u # t
        BY <1>1, <1>2, <1>6, <2>3, <3>2 DEF HistoryTrue
    <3> QED
        BY <3>1, <3>2
  <2>4. ~redis_up' => recording'["listener"].at = "outside"
    <3>1. "listener" \in Told!Threads
        BY DEF Told!Threads
    <3>2. ~redis_up => recording["listener"].at = "outside"
        BY <1>1 DEF HistoryTrue
    <3> QED
        BY <1>2, <1>6, <3>1, <3>2
  <2>5. ASSUME ~redis_up', healings' # <<>>
        PROVE  /\ EndsWith(healing_history', healings')
               /\ recording'["healer"].at = "cut" => EndsWith(recording'["healer"].cut, healings')
    <3>1. /\ EndsWith(healing_history, healings)
          /\ recording["healer"].at = "cut" => EndsWith(recording["healer"].cut, healings)
        BY <1>1, <1>2, <2>5 DEF HistoryTrue
    <3>2. recording["listener"].at = "outside"
        BY <1>1, <1>2, <2>5 DEF HistoryTrue
    <3>3. t = "healer"
        BY <1>2, <3>2 DEF Told!Threads
    <3>4. n > MaxHistory => EndsWith(newer, healings)
        BY <1>4, <3>1 DEF EndsWith, n
    <3> QED
        BY <1>2, <1>6, <1>7, <3>1, <3>3, <3>4
  <2> QED
      BY <2>1, <2>2, <2>3, <2>4, <2>5 DEF HistoryTrue
<1>9. ToldTyped'
    BY <1>1, <1>2, <1>6 DEF ToldTyped
<1>10. AlertsTrue' /\ StatsTrue'
    BY <1>1, <1>2 DEF AlertsTrue, StatsTrue
<1> QED
    BY <1>8, <1>9, <1>10 DEF ToldInv

LEMMA AssignStep ==
    ASSUME ToldInv, NEW t \in Told!Threads, Told!Assign(t) PROVE ToldInv'
<1>1. ToldTyped /\ AlertsTrue /\ StatsTrue /\ HistoryTrue
    BY DEF ToldInv
<1>2. /\ recording' = [recording EXCEPT ![t] = Told!Outside] /\ redis_up' = redis_up /\ pending' = pending
      /\ reported' = reported /\ healings' = healings /\ sent' = sent
      /\ component_stats' = component_stats /\ healing_history' = recording[t].cut
      /\ recording[t].at = "cut"
    BY DEF Told!Assign
<1>3. recording \in [Told!Threads -> Places] /\ recording[t].cut \in Seq(HealingEvents) /\ MaxHistory \in Nat
    BY <1>1, ToldConstants DEF ToldTyped, Places
<1>4. Told!Outside \in Places /\ Told!Outside.at = "outside"
    BY DEF Places, Told!Outside
<1>5. /\ recording' \in [Told!Threads -> Places] /\ recording'[t].at = "outside"
      /\ \A u \in Told!Threads : u # t => recording'[u] = recording[u]
    BY <1>2, <1>3, <1>4
<1>6. Honest(recording[t].cut, component_stats) /\ Len(recording[t].cut) <= MaxHistory
    BY <1>1, <1>2 DEF HistoryTrue
<1>7. HistoryTrue'
  <2>1. ~(Len(healing_history') > MaxHistory)
    <3>1. Len(recording[t].cut) \in Nat
        BY <1>3
    <3> QED
        BY <1>2, <1>3, <1>6, <3>1
  <2>2. Honest(healing_history', component_stats')
      BY <1>2, <1>6
  <2>3. ASSUME NEW u \in Told!Threads, recording'[u].at = "cut"
        PROVE  Honest(recording'[u].cut, component_stats') /\ Len(recording'[u].cut) <= MaxHistory
      BY <1>1, <1>2, <1>5, <2>3 DEF HistoryTrue
  <2>4. ~redis_up' => recording'["listener"].at = "outside"
    <3>1. "listener" \in Told!Threads
        BY DEF Told!Threads
    <3>2. ~redis_up => recording["listener"].at = "outside"
        BY <1>1 DEF HistoryTrue
    <3> QED
        BY <1>2, <1>5, <3>1, <3>2
  <2>5. ASSUME ~redis_up', healings' # <<>>
        PROVE  /\ EndsWith(healing_history', healings')
               /\ recording'["healer"].at = "cut" => EndsWith(recording'["healer"].cut, healings')
    <3>1. /\ recording["healer"].at = "cut" => EndsWith(recording["healer"].cut, healings)
          /\ recording["listener"].at = "outside"
        BY <1>1, <1>2, <2>5 DEF HistoryTrue
    <3>2. t = "healer"
        BY <1>2, <3>1 DEF Told!Threads
    <3> QED
        BY <1>2, <1>5, <3>1, <3>2
  <2> QED
      BY <2>1, <2>2, <2>3, <2>4, <2>5 DEF HistoryTrue
<1>8. ToldTyped'
    BY <1>1, <1>2, <1>3, <1>5 DEF ToldTyped
<1>9. AlertsTrue' /\ StatsTrue'
    BY <1>1, <1>2 DEF AlertsTrue, StatsTrue
<1> QED
    BY <1>7, <1>8, <1>9 DEF ToldInv

LEMMA ToldStep == ToldInv /\ Told!Next => ToldInv'
<1> SUFFICES ASSUME ToldInv, Told!Next PROVE ToldInv'
    OBVIOUS
<1>1. CASE Told!RiskBreached
  <2>1. PICK score \in {80, 100} : /\ Told!Publish(Told!Breach(score)) /\ Told!Alerted(Told!Breach(score), TRUE)
                                   /\ UNCHANGED <<healings, Told!tracker>>
      BY <1>1 DEF Told!RiskBreached
  <2> DEFINE e == Told!Breach(score)
  <2>2. e.type = "breach" /\ e.score = score
      BY DEF Told!Breach
  <2> HIDE DEF e
  <2>3. Told!Publish(e) /\ Told!Alerted(e, TRUE)
      BY <2>1 DEF e
  <2>4. UNCHANGED <<healings, component_stats, healing_history, recording>>
      BY <2>1 DEF Told!tracker
  <2>5. e.type \in {"breach", "order"} /\ e.score \in {0, 80, 100} /\ (e.type = "breach" => e.score # 0)
      BY <2>2
  <2> QED
      BY <2>3, <2>4, <2>5, AlertPublished DEF Raised
<1>2. CASE Told!OrderReported
  <2> DEFINE e == Told!OrderExecuted
  <2>1. Told!Publish(e) /\ Told!Alerted(e, TRUE)
      BY <1>2 DEF Told!OrderReported
  <2>2. UNCHANGED <<healings, component_stats, healing_history, recording>>
      BY <1>2 DEF Told!OrderReported, Told!tracker
  <2>3. e.type = "order" /\ e.score = 0
      BY DEF Told!OrderExecuted
  <2> HIDE DEF e
  <2>4. e.type \in {"breach", "order"} /\ e.score \in {0, 80, 100} /\ (e.type = "breach" => e.score # 0)
      BY <2>3
  <2> QED
      BY <2>1, <2>2, <2>4, AlertPublished DEF Raised
<1>3. CASE Told!HealingReported
    BY <1>3, HealingReportedStep
<1>4. CASE Told!ListenerCalls
    BY <1>4, ListenerRecords, ListenerAlerts
<1>5. ASSUME NEW t \in Told!Threads, Told!Cut(t) \/ Told!Assign(t) PROVE ToldInv'
    BY <1>5, CutStep, AssignStep
<1> QED
    BY <1>1, <1>2, <1>3, <1>4, <1>5 DEF Told!Next
LEMMA ToldStarts == Told!Init => ToldInv
<1> SUFFICES ASSUME Told!Init PROVE ToldInv
    OBVIOUS
<1> DEFINE none == [c \in Told!Known |-> Told!NoStats]
<1>1. /\ redis_up \in BOOLEAN /\ pending = <<>> /\ healings = <<>>
      /\ reported = [type \in Told!Types |-> 0] /\ sent = [a \in Told!Alerts |-> 0]
      /\ component_stats = none /\ healing_history = <<>>
      /\ recording = [t \in Told!Threads |-> Told!Outside]
    BY DEF Told!Init
<1>2. StatsKept(Told!NoStats) /\ Told!NoStats.good = 0 /\ Told!NoStats.bad = 0 /\ Told!Total(Told!NoStats) = 0
  <2>1. <<>> \in Seq(Rates)
      OBVIOUS
  <2> QED
      BY <2>1 DEF StatsKept, Statistics, Told!NoStats, Told!Total
<1>3. none \in [Told!Known -> Statistics]
    BY <1>2 DEF StatsKept
<1>4. Told!Outside \in Places /\ Told!Outside.at = "outside"
    BY DEF Places, Told!Outside
<1>5. \A W : Often(<<>>, W) = 0
    BY NoOccurrence DEF Often
<1>6. ToldTyped
    BY <1>1, <1>3, <1>4 DEF ToldTyped
<1>7. AlertsTrue
  <2>1. \A type, whole : SumFunctionOnSet(sent, Kind(type, whole)) = 0
    <3> SUFFICES ASSUME NEW type, NEW whole PROVE SumFunctionOnSet(sent, Kind(type, whole)) = 0
        OBVIOUS
    <3> DEFINE K == Kind(type, whole)
    <3>1. IsFiniteSet(K) /\ K \subseteq Told!Alerts
        BY KindsFinite
    <3>2. \A x \in K : sent[x] = 0
        BY <1>1, <3>1
    <3> HIDE DEF K
    <3>3. SumFunctionOnSet(sent, K) = 0 * Cardinality(K) /\ Cardinality(K) \in Nat
        BY <3>1, <3>2, SumOnConstant, FS_CardinalityType
    <3> QED
        BY <3>3 DEF K
  <2>2. \A type \in {"breach", "order"} : reported[type] = 0 /\ Often(pending, {type}) = 0
      BY <1>1, <1>5 DEF Told!Types
  <2>3. \A a \in Told!Alerts : ~(sent[a] > 0)
      BY <1>1
  <2>4. ASSUME NEW type \in {"breach", "order"}
        PROVE  /\ SumFunctionOnSet(sent, Kind(type, TRUE)) <= reported[type]
               /\ SumFunctionOnSet(sent, Kind(type, FALSE))
                    <= IF redis_up THEN reported[type] - Often(pending, {type}) ELSE 0
    <3>1. /\ SumFunctionOnSet(sent, Kind(type, TRUE)) = 0 /\ SumFunctionOnSet(sent, Kind(type, FALSE)) = 0
          /\ reported[type] = 0 /\ Often(pending, {type}) = 0
        BY <2>1, <2>2
    <3>2. (IF redis_up THEN reported[type] - Often(pending, {type}) ELSE 0) = 0
        BY <3>1
    <3>3. \A i, j : i = 0 /\ j = 0 => i <= j
        OBVIOUS
    <3> QED
        BY <3>1, <3>2, <3>3, Zenon
  <2> QED
      BY <2>3, <2>4 DEF AlertsTrue
<1>8. StatsTrue
  <2>1. SumFunctionOnSet(TotalsOf(none), Told!Known) = 0
    <3>1. \A c \in Told!Known : TotalsOf(none)[c] = 0
        BY <1>2 DEF TotalsOf
    <3>2. IsFiniteSet(Told!Known)
        BY ToldConstants
    <3> DEFINE F == TotalsOf(none)
    <3> HIDE DEF F
    <3>3. \A c \in Told!Known : F[c] = 0
        BY <3>1 DEF F
    <3>4. SumFunctionOnSet(F, Told!Known) = 0 * Cardinality(Told!Known) /\ Cardinality(Told!Known) \in Nat
        BY <3>2, <3>3, SumOnConstant, FS_CardinalityType
    <3> QED
        BY <3>4 DEF F
  <2>2. Len(<<>>) = 0
      OBVIOUS
  <2> QED
      BY <1>1, <1>2, <1>5, <2>1, <2>2, ToldConstants DEF StatsTrue
<1>9. HistoryTrue
  <2>1. Honest(<<>>, none)
    <3> SUFFICES ASSUME NEW c \in Told!Known
                 PROVE  Often(<<>>, Ended(c, TRUE)) <= none[c].good /\ Often(<<>>, Ended(c, FALSE)) <= none[c].bad
        BY DEF Honest
    <3>1. none[c].good = 0 /\ none[c].bad = 0
        BY <1>2
    <3>2. Often(<<>>, Ended(c, TRUE)) = 0 /\ Often(<<>>, Ended(c, FALSE)) = 0
        BY <1>5
    <3> HIDE DEF none
    <3>3. /\ 0 <= none[c].good /\ 0 <= none[c].bad
        BY <3>1
    <3> QED
        BY <3>2, <3>3
  <2>2. ~(Len(<<>>) > MaxHistory)
      BY ToldConstants
  <2>3. \A t \in Told!Threads : recording[t].at = "outside"
      BY <1>1, <1>4
  <2>4. "listener" \in Told!Threads
      BY DEF Told!Threads
  <2> QED
      BY <1>1, <2>1, <2>2, <2>3, <2>4 DEF HistoryTrue
<1> QED
    BY <1>6, <1>7, <1>8, <1>9 DEF ToldInv

\* The first of the highest rates is there to be found.
LEMMA BestRated ==
    ASSUME NEW rates \in Seq(Rates), rates # <<>>
    PROVE  \E i \in DOMAIN rates : \A j \in DOMAIN rates :
               Told!AtLeast(rates[i].good, rates[i].total, rates[j].good, rates[j].total)
<1> DEFINE AtLeast(i, j) == rates[i].good * rates[j].total >= rates[j].good * rates[i].total
           P == {n \in Nat : n + 1 <= Len(rates) => \E i \in 1..(n + 1) : \A j \in 1..(n + 1) : AtLeast(i, j)}
<1>1. /\ DOMAIN rates = 1..Len(rates) /\ Len(rates) \in Nat \ {0}
      /\ \A i \in 1..Len(rates) : rates[i].good \in Nat /\ rates[i].total \in Nat \ {0}
  <2>1. \A i \in 1..Len(rates) : rates[i] \in Rates
      OBVIOUS
  <2> QED
      BY <2>1 DEF Rates
<1>2. 0 \in P
  <2>1. \A i, j \in 1..(0 + 1) : i = 1 /\ j = 1
      OBVIOUS
  <2>2. Len(rates) >= 1 => AtLeast(1, 1)
      BY <1>1
  <2> HIDE DEF AtLeast
  <2> QED
      BY <1>1, <2>1, <2>2
<1>3. ASSUME NEW n \in P PROVE n + 1 \in P
  <2> SUFFICES ASSUME (n + 1) + 1 <= Len(rates)
               PROVE  \E i \in 1..((n + 1) + 1) : \A j \in 1..((n + 1) + 1) : AtLeast(i, j)
      OBVIOUS
  <2> DEFINE m == (n + 1) + 1
  <2>1. n \in Nat /\ n + 1 <= Len(rates) /\ m \in 1..Len(rates)
      BY <1>1
  <2>2. PICK i \in 1..(n + 1) : \A j \in 1..(n + 1) : AtLeast(i, j)
      BY <2>1
  <2>3. i \in 1..Len(rates) /\ i \in 1..m /\ m \in 1..m /\ \A j \in 1..m : j \in 1..(n + 1) \/ j = m
      BY <1>1, <2>1
  <2>4. AtLeast(m, m) /\ AtLeast(i, i)
      BY <1>1, <2>1, <2>3
  <2>5. AtLeast(i, m) \/ AtLeast(m, i)
    <3>1. /\ rates[i].good * rates[m].total \in Int /\ rates[m].good * rates[i].total \in Int
        BY <1>1, <2>1, <2>3
    <3> QED
        BY <3>1
  <2>6. CASE AtLeast(i, m)
    <3>1. \A j \in 1..m : AtLeast(i, j)
        BY <2>2, <2>3, <2>6
    <3> QED
        BY <2>3, <3>1
  <2>7. CASE AtLeast(m, i)
    <3>1. ASSUME NEW j \in 1..(n + 1) PROVE AtLeast(m, j)
      <4>1. j \in 1..Len(rates)
          BY <1>1, <2>1
      <4>2. AtLeast(i, j)
          BY <2>2
      <4> QED
          BY <1>1, <2>1, <2>3, <2>7, <4>1, <4>2, FractionsOrdered
    <3>2. \A j \in 1..m : AtLeast(m, j)
        BY <2>3, <2>4, <3>1
    <3> QED
        BY <2>3, <3>2
  <2> QED
      BY <2>5, <2>6, <2>7
<1>4. \A n \in Nat : n \in P
  <2> HIDE DEF AtLeast
  <2>1. P \in SUBSET Nat
      OBVIOUS
  <2> HIDE DEF P
  <2> QED
      BY <1>2, <1>3, <2>1, Induction
<1>5. Len(rates) - 1 \in Nat /\ (Len(rates) - 1) + 1 = Len(rates)
    BY <1>1
<1>6. \E i \in 1..Len(rates) : \A j \in 1..Len(rates) : AtLeast(i, j)
  <2> HIDE DEF AtLeast
  <2>1. Len(rates) - 1 \in P
      BY <1>4, <1>5
  <2> QED
      BY <1>5, <2>1
<1> QED
    BY <1>1, <1>6 DEF Told!AtLeast

LEMMA BestIsUsed ==
    ASSUME NEW s \in Statistics, s.rates # <<>>
    PROVE  \E i \in DOMAIN s.rates : s.rates[i].action = Told!BestAction(s)
<1> DEFINE Best(i) == \A j \in DOMAIN s.rates :
               Told!AtLeast(s.rates[i].good, s.rates[i].total, s.rates[j].good, s.rates[j].total)
           all == {i \in DOMAIN s.rates : Best(i)}
           first == CHOOSE i \in DOMAIN s.rates : Best(i) /\ \A j \in 1..(i - 1) : ~Best(j)
<1>1. s.rates \in Seq(Rates)
    BY DEF Statistics
<1>2. DOMAIN s.rates = 1..Len(s.rates) /\ Len(s.rates) \in Nat
    BY <1>1
<1>3. \E i \in DOMAIN s.rates : Best(i)
    BY <1>1, BestRated
<1> HIDE DEF Best
<1>4. all \subseteq Nat /\ all # {}
    BY <1>2, <1>3
<1>5. PICK m \in all : \A k \in all : m <= k
  <2> HIDE DEF all
  <2>1. PICK k \in all : TRUE
      BY <1>4
  <2> QED
      BY <1>4, <2>1, LeastNatural
<1>6. ASSUME NEW j \in 1..(m - 1) PROVE ~Best(j)
  <2>1. m \in 1..Len(s.rates) /\ j \in DOMAIN s.rates /\ ~(m <= j)
      BY <1>2, <1>5
  <2> QED
      BY <1>5, <2>1
<1>7. first \in DOMAIN s.rates
    BY <1>5, <1>6
<1>8. Told!BestAction(s) = s.rates[first].action
    BY DEF Told!BestAction, Best
<1> QED
    BY <1>7, <1>8
LEMMA CountIs ==
    ASSUME ToldInv, NEW c \in Told!Known, NEW ok \in BOOLEAN
    PROVE  Told!Count(healing_history, LAMBDA r : r.component = c /\ r.success = ok) = Often(healing_history, Ended(c, ok))
<1>1. \A i \in DOMAIN healing_history : healing_history[i] \in HealingEvents
    BY DEF ToldInv, ToldTyped
<1>2. {i \in DOMAIN healing_history : healing_history[i].component = c /\ healing_history[i].success = ok}
        = Occurrences(healing_history, Ended(c, ok))
    BY <1>1 DEF Occurrences, Ended
<1> QED
    BY <1>2 DEF Told!Count, Often, Told!Cardinality, Cardinality

LEMMA HealingsAre ==
    ASSUME ToldInv, NEW c \in Healable PROVE Told!HealingsOf(c) = Often(healings, About(c))
<1>1. \A i \in DOMAIN healings : healings[i] \in HealingEvents
    BY ToldConstants DEF ToldInv, ToldTyped
<1>2. {i \in DOMAIN healings : healings[i].component = c} = Occurrences(healings, About(c))
    BY <1>1 DEF Occurrences, About
<1> QED
    BY <1>2 DEF Told!HealingsOf, Told!Count, Often, Told!Cardinality, Cardinality

LEMMA WaitingIs == \A type : Told!Waiting(type) = Often(pending, {type})
<1> SUFFICES ASSUME NEW type PROVE Told!Waiting(type) = Often(pending, {type})
    OBVIOUS
<1>1. {i \in DOMAIN pending : pending[i] = type} = Occurrences(pending, {type})
    BY DEF Occurrences
<1> QED
    BY <1>1 DEF Told!Waiting, Told!Count, Often, Told!Cardinality, Cardinality

LEMMA AlertsAre == \A type, whole : Told!AlertsOf(type, whole) = SumFunctionOnSet(sent, Kind(type, whole))
BY DEF Told!AlertsOf, Kind, Told!MapThenSumSet, Told!MapThenFoldSet,
       SumFunctionOnSet, FoldFunctionOnSet, MapThenFoldSet

LEMMA ReportIs == Told!Report.actions = SumFunctionOnSet(TotalsOf(component_stats), Told!Known)
BY DEF Told!Report, TotalsOf, Told!MapThenSumSet, Told!MapThenFoldSet,
       SumFunctionOnSet, FoldFunctionOnSet, MapThenFoldSet
\* What people and later decisions can rely on.
ToldTrue ==
    /\ Told!AlertsMatchEvents /\ Told!StatsAddUp /\ Told!HistoryBounded
    /\ Told!AdviceIsEarned /\ Told!EveryActionCondemned

LEMMA ToldIsTrue == ToldInv => ToldTrue
<1> SUFFICES ASSUME ToldInv PROVE ToldTrue
    OBVIOUS
<1>1. ToldTyped /\ AlertsTrue /\ StatsTrue /\ HistoryTrue
    BY DEF ToldInv
<1>2. Told!AlertsMatchEvents
  <2>1. \A type \in {"breach", "order"} :
          /\ Told!AlertsOf(type, TRUE) <= reported[type]
          /\ Told!AlertsOf(type, FALSE) <= IF redis_up THEN reported[type] - Told!Waiting(type) ELSE 0
      BY <1>1, AlertsAre, WaitingIs DEF AlertsTrue
  <2>2. \A a \in Told!Alerts : a.type = "breach" /\ sent[a] > 0 => a.whole = (a.level = "critical")
    <3> SUFFICES ASSUME NEW a \in Told!Alerts, a.type = "breach", sent[a] > 0
                 PROVE  a.whole = (a.level = "critical")
        OBVIOUS
    <3>1. a.whole <=> a.level = "critical"
        BY <1>1 DEF AlertsTrue
    <3>2. a.whole \in BOOLEAN
        BY DEF Told!Alerts
    <3> DEFINE critical == (a.level = "critical")
    <3>3. critical \in BOOLEAN /\ (a.whole <=> critical)
        BY <3>1
    <3> HIDE DEF critical
    <3>4. a.whole = critical
        BY <3>2, <3>3, Zenon
    <3> QED
        BY <3>4 DEF critical
  <2> QED
      BY <2>1, <2>2 DEF Told!AlertsMatchEvents
<1>3. Told!StatsAddUp
  <2>1. \A c \in Healable :
          /\ Told!Total(component_stats[c]) = Told!HealingsOf(c)
          /\ component_stats[c].streak <= component_stats[c].bad
      BY <1>1, HealingsAre, ToldConstants DEF StatsTrue, StatsKept
  <2>2. Told!Report.actions = Len(healings) + component_stats["unknown"].bad
      BY <1>1, ReportIs DEF StatsTrue
  <2>3. component_stats["unknown"].good = 0
        /\ component_stats["unknown"].bad = IF redis_up THEN Len(healings) - Told!Waiting("healing") ELSE 0
      BY <1>1, WaitingIs DEF StatsTrue
  <2> QED
      BY <2>1, <2>2, <2>3 DEF Told!StatsAddUp
<1>4. Told!HistoryBounded
  <2>1. Told!Settled => Len(healing_history) <= MaxHistory
    <3>1. Told!Outside.at = "outside"
        BY DEF Told!Outside
    <3>2. Len(healing_history) \in Nat /\ MaxHistory \in Nat
        BY <1>1, ToldConstants DEF ToldTyped
    <3>3. Told!Settled => ~(Len(healing_history) > MaxHistory)
        BY <1>1, <3>1 DEF HistoryTrue, Told!Settled
    <3> QED
        BY <3>2, <3>3
  <2>2. ~redis_up /\ Len(healings) > 0 => Told!Last(healing_history) = Told!Last(healings)
    <3>1. Len(healings) > 0 => healings # <<>>
        BY <1>1 DEF ToldTyped
    <3> QED
        BY <1>1, <3>1 DEF HistoryTrue, EndsWith, Told!Last
  <2>3. ASSUME NEW c \in Told!Known
        PROVE  Told!FailurePattern(c).failures <= component_stats[c].bad
               /\ Told!FailurePattern(c).successes <= component_stats[c].good
    <3>1. Told!FailurePattern(c).failures = Often(healing_history, Ended(c, FALSE))
          /\ Told!FailurePattern(c).successes = Often(healing_history, Ended(c, TRUE))
        BY CountIs DEF Told!FailurePattern
    <3> QED
        BY <1>1, <3>1 DEF HistoryTrue, Honest
  <2> QED
      BY <2>1, <2>2, <2>3 DEF Told!HistoryBounded
<1>5. Told!AdviceIsEarned
  <2> SUFFICES ASSUME NEW c \in Told!Known, NEW failures \in {1, 2, 4},
                      Told!Recommended(c, failures) # Told!Heuristic(failures)
               PROVE  /\ c # "unknown" /\ Told!Succeeds(component_stats[c])
                      /\ \E i \in DOMAIN component_stats[c].rates :
                            component_stats[c].rates[i].action = Told!Recommended(c, failures)
      BY DEF Told!AdviceIsEarned
  <2> DEFINE s == component_stats[c]
  <2>1. Told!Total(s) >= MinSamples /\ Told!Succeeds(s) /\ Told!Recommended(c, failures) = Told!BestAction(s)
      BY DEF Told!Recommended
  <2>2. s \in Statistics /\ (Told!Total(s) > 0 => s.rates # <<>>)
      BY <1>1 DEF StatsTrue, StatsKept
  <2>3. \E i \in DOMAIN s.rates : s.rates[i].action = Told!BestAction(s)
      BY <2>1, <2>2, BestIsUsed DEF Told!Succeeds
  <2>4. ASSUME c = "unknown" PROVE FALSE
    <3>1. s.good = 0 /\ s.bad \in Nat
        BY <1>1, <2>2, <2>4 DEF StatsTrue, Statistics
    <3>2. Told!Total(s) = s.bad /\ s.bad > 0 /\ 0 * 100 >= EffectivePercent * s.bad
        BY <2>1, <3>1 DEF Told!Succeeds, Told!Total, Told!AtLeast
    <3>3. EffectivePercent \in Nat \ {0} /\ s.bad \in Nat \ {0}
        BY <3>1, <3>2, ToldConstants
    <3>4. \A i, j \in Nat \ {0} : i * j > 0
        BY SMT
    <3> QED
        BY <3>2, <3>3, <3>4
  <2> QED
      BY <2>1, <2>3, <2>4
<1>6. Told!EveryActionCondemned
  <2> SUFFICES ASSUME NEW c \in Told!Known, NEW i \in DOMAIN component_stats[c].rates,
                      Told!Total(component_stats[c]) >= MinSamples, component_stats[c].rates[i].uses >= MinUses
               PROVE  <<c, component_stats[c].rates[i].action>> \in Told!Learnings
      BY DEF Told!EveryActionCondemned
  <2>1. component_stats[c].rates \in Seq(Rates)
      BY <1>1 DEF ToldTyped, Statistics
  <2>2. component_stats[c].rates[i] \in Rates
      BY <2>1
  <2>3. Told!LowSuccess(component_stats[c].rates[i])
      BY <2>2 DEF Rates, Told!LowSuccess
  <2> QED
      BY <2>3 DEF Told!Learnings
<1> QED
    BY <1>2, <1>3, <1>4, <1>5, <1>6 DEF ToldTrue

LEMMA ToldStands == [ControlNext]_controlVars => Told!Next \/ UNCHANGED toldVars
BY DEF ControlNext, controlVars, BreakersTurn, HealingTurn, RestartTurn, ReloadTurn, AwareTurn,
       GoalsTurn, SwitchTurn, BridgeTurn, OptTurn, ToldTurn

LEMMA ToldKept == ToldInv /\ [ControlNext]_controlVars => ToldInv'
<1>1. ToldInv /\ UNCHANGED toldVars => ToldInv'
  <2> SUFFICES ASSUME ToldInv, UNCHANGED toldVars PROVE ToldInv'
      OBVIOUS
  <2>1. /\ redis_up' = redis_up /\ pending' = pending /\ reported' = reported /\ healings' = healings
        /\ sent' = sent /\ component_stats' = component_stats /\ healing_history' = healing_history
        /\ recording' = recording
      BY DEF toldVars
  <2>2. ToldTyped' /\ AlertsTrue'
      BY <2>1 DEF ToldInv, ToldTyped, AlertsTrue
  <2>3. StatsTrue'
      BY <2>1 DEF ToldInv, StatsTrue
  <2>4. HistoryTrue'
      BY <2>1 DEF ToldInv, HistoryTrue
  <2> QED
      BY <2>2, <2>3, <2>4 DEF ToldInv
<1> QED
    BY <1>1, ToldStep, ToldStands

\* telegram_alert_handler.py and healing_effectiveness.py: an event raises one whole alert at
\* most and a breach a critical one; the statistics of two threads add up, the history stays
\* within its bound, and advice is earned.
THEOREM AlertsAndAdviceTrue == ControlSpec => []ToldTrue
<1>1. ControlInit => ToldInv
    BY ToldStarts DEF ControlInit
<1> QED
    BY <1>1, ToldKept, ToldIsTrue, PTL DEF ControlSpec
-----------------------------------------------------------------------------
(* The optimizer of the agents. *)

LEMMA OptConstants ==
    /\ EnoughTasks \in Nat \ {0} /\ EnoughRuns \in Nat \ {0} /\ TasksPerPoint \in Nat \ {0}
    /\ RunsPerPoint \in Nat \ {0} /\ Units \in Nat \ {0} /\ Top \in Nat \ {0} /\ MaxBottlenecks \in Nat \ {0}
    /\ MaxRecords \in Nat \ {0} /\ MaxRounds \in Nat \ {0} /\ MaxHours \in Nat \ {0} /\ Named \subseteq Nat
    /\ \A n \in 1..MaxRecords : Units % n = 0
BY ControlAssumption DEF Opt!OptimizerAssumption

\* While ~mixed: who is in a recording of s, and what the average of s lacks of it.
MeanOf(s) ==
    /\ \A t, u \in Recorders : recorder[t].subject = s /\ recorder[u].subject = s => t = u
    /\ (\A t \in Recorders : recorder[t].subject # s) => rate[s] * count[s] = wins[s] * Units
    /\ \A t \in Recorders : recorder[t].subject = s =>
          rate[s] * (count[s] - 1) = (wins[s] - (IF recorder[t].won THEN 1 ELSE 0)) * Units

RoundPlaces == {"off", "test", "generate", "apply", "sleep", "end"}
RoundType == {r \in [at : RoundPlaces, todo : Seq(Opt!Types)] : Len(r.todo) <= Top}

\* Urgent findings of a subject come first.
UrgentSeq(s) ==
    \A i, j \in DOMAIN s : i < j /\ Opt!SubjectOf(s[i]) = Opt!SubjectOf(s[j]) =>
        Opt!Urgency(s[i]) >= Opt!Urgency(s[j])

OptTyped ==
    /\ hour \in 0..MaxHours /\ count \in [Opt!Subjects -> Nat] /\ rate \in [Opt!Subjects -> 0..Units]
    /\ count["agent"] + count["workflow"] <= MaxRecords
    /\ duration \in [Opt!Subjects -> {"fast", "slow"}] /\ bottlenecks \in 0..MaxBottlenecks
    /\ recorder \in [Recorders -> Opt!Recordings \cup {Opt!Idle}]
    /\ on \in BOOLEAN /\ mixed \in BOOLEAN /\ wins \in [Opt!Subjects -> Nat]
    /\ \A s \in Opt!Subjects : wins[s] <= count[s]
    /\ rounds \in [1..MaxRounds -> RoundType] /\ files \subseteq 0..MaxHours

OptInv ==
    /\ OptTyped
    /\ \A t \in Recorders : recorder[t].subject \in Opt!Subjects => count[recorder[t].subject] >= 1
    /\ ~mixed => \A s \in Opt!Subjects : MeanOf(s)
    /\ \A l \in 1..MaxRounds : UrgentSeq(rounds[l].todo)

\* The average of what was recorded, when the last recording is counted in.
LEMMA AverageIsMean ==
    ASSUME NEW old \in 0..Units, NEW n \in 1..MaxRecords, NEW w \in Nat, w <= n, NEW won \in {0, 1}
    PROVE  /\ Opt!Average(old, n, won * Units) \in 0..Units
           /\ old * (n - 1) = (w - won) * Units => Opt!Average(old, n, won * Units) * n = w * Units
<1>1. /\ Units \in Nat \ {0} /\ n \in Nat \ {0} /\ n - 1 \in Nat /\ Units % n = 0 /\ old \in Nat /\ old <= Units
      /\ w \in Int /\ won \in Int
    BY OptConstants
<1>2. Opt!Average(old, n, won * Units) = (old * (n - 1) + won * Units) \div n
    BY DEF Opt!Average
<1>3. \A a, b \in Nat, m \in Nat : a <= b => a * m <= b * m
    OBVIOUS
<1> DEFINE top == old * (n - 1) + won * Units
<1>4. top \in Nat /\ top <= Units * n
  <2>1. old * (n - 1) \in Nat /\ Units * (n - 1) \in Nat /\ won * Units \in Nat /\ won * Units <= Units
      BY <1>1
  <2>2. old * (n - 1) <= Units * (n - 1)
      BY <1>1, <1>3
  <2>3. Units * n = Units * (n - 1) + Units
      BY <1>1
  <2> QED
      BY <1>1, <2>1, <2>2, <2>3
<1>5. ASSUME NEW m \in Nat, NEW k \in Nat, m <= k * n PROVE m \div n \in 0..k
  <2> DEFINE q == m \div n
  <2>1. q \in Nat /\ q * n <= m /\ k * n \in Nat /\ q * n \in Nat
      BY <1>1
  <2> HIDE DEF q
  <2>2. q * n <= k * n
      BY <1>5, <2>1
  <2>3. q <= k
      BY <1>1, <2>1, <2>2, Cancels
  <2> QED
      BY <2>1, <2>3 DEF q
<1>6. (old * (n - 1) = (w - won) * Units) => (top \div n) * n = w * Units
  <2> SUFFICES ASSUME old * (n - 1) = (w - won) * Units PROVE (top \div n) * n = w * Units
      OBVIOUS
  <2>1. top = w * Units
    <3>1. (w - won) * Units + won * Units = w * Units
        BY <1>1
    <3> QED
        BY <3>1
  <2> DEFINE part == Units \div n
  <2>2. part \in Nat /\ Units = part * n
      BY <1>1
  <2> HIDE DEF part, top
  <2>3. w * Units = (w * part) * n /\ w * part \in Nat
      BY <1>1, <2>2
  <2>4. \A m \in Nat : (m * n) \div n = m
      BY <1>1
  <2>5. top \div n = w * part
      BY <2>1, <2>3, <2>4
  <2> QED
      BY <2>3, <2>5
<1>7. top \div n \in 0..Units
  <2> HIDE DEF top
  <2> QED
      BY <1>1, <1>4, <1>5
<1> QED
    BY <1>2, <1>6, <1>7
LEMMA RecorderTyped ==
    ASSUME OptTyped, NEW t \in Recorders
    PROVE  /\ recorder[t].won \in BOOLEAN /\ recorder[t].subject \in Opt!Subjects \cup {"none"}
           /\ recorder[t] # Opt!Idle => recorder[t].subject \in Opt!Subjects
           /\ recorder[t] = Opt!Idle => recorder[t].subject = "none"
           /\ "none" \notin Opt!Subjects
<1>1. recorder[t] \in Opt!Recordings \/ recorder[t] = Opt!Idle
    BY DEF OptTyped
<1>2. Opt!Idle.subject = "none" /\ Opt!Idle.won = FALSE
    BY DEF Opt!Idle
<1>3. "none" \notin Opt!Subjects
    BY DEF Opt!Subjects
<1>4. CASE recorder[t] \in Opt!Recordings
    BY <1>2, <1>3, <1>4 DEF Opt!Recordings
<1>5. CASE recorder[t] = Opt!Idle
    BY <1>2, <1>3, <1>5
<1> QED
    BY <1>1, <1>4, <1>5

LEMMA CountOneStep ==
    ASSUME OptInv, NEW t \in Recorders, NEW s \in Opt!Subjects, NEW won \in BOOLEAN, Opt!CountOne(t, s, won)
    PROVE  OptInv'
<1> DEFINE plus == IF won THEN 1 ELSE 0
           new == [subject |-> s, won |-> won]
<1>1. /\ recorder[t] = Opt!Idle /\ count["agent"] + count["workflow"] < MaxRecords
      /\ recorder' = [recorder EXCEPT ![t] = new]
      /\ count' = [count EXCEPT ![s] = @ + 1]
      /\ wins' = [wins EXCEPT ![s] = @ + plus]
      /\ mixed' = (mixed \/ \E u \in Recorders : recorder[u].subject = s)
      /\ hour' = hour /\ rate' = rate /\ duration' = duration /\ bottlenecks' = bottlenecks /\ on' = on
      /\ rounds' = rounds /\ files' = files
    BY DEF Opt!CountOne
<1>2. new \in Opt!Recordings /\ plus \in {0, 1} /\ new.subject = s /\ new.won = won
    BY DEF Opt!Recordings
<1>3. OptTyped /\ MaxRecords \in Nat /\ Units \in Nat
    BY OptConstants DEF OptInv
<1>4. Opt!Subjects = {"agent", "workflow"}
    BY DEF Opt!Subjects
<1>5. /\ \A r \in Opt!Subjects : count[r] \in Nat /\ wins[r] \in Nat /\ rate[r] \in Nat /\ wins[r] <= count[r]
      /\ count \in [Opt!Subjects -> Nat] /\ wins \in [Opt!Subjects -> Nat]
    BY <1>3 DEF OptTyped
<1>6. /\ \A u \in Recorders : recorder'[u] = IF u = t THEN new ELSE recorder[u]
      /\ \A r \in Opt!Subjects : count'[r] = IF r = s THEN count[r] + 1 ELSE count[r]
      /\ \A r \in Opt!Subjects : wins'[r] = IF r = s THEN wins[r] + plus ELSE wins[r]
    BY <1>1, <1>3 DEF OptTyped
<1> HIDE DEF plus, new
<1>7. OptTyped'
  <2>1. count' \in [Opt!Subjects -> Nat] /\ wins' \in [Opt!Subjects -> Nat]
      BY <1>1, <1>2, <1>5
  <2>2. \A r \in Opt!Subjects : wins'[r] <= count'[r]
      BY <1>2, <1>5, <1>6
  <2>3. count'["agent"] + count'["workflow"] <= MaxRecords
      BY <1>1, <1>3, <1>4, <1>5, <1>6
  <2>4. recorder' \in [Recorders -> Opt!Recordings \cup {Opt!Idle}]
      BY <1>1, <1>2, <1>3 DEF OptTyped
  <2>5. mixed' \in BOOLEAN
      BY <1>1
  <2> QED
      BY <1>1, <1>3, <2>1, <2>2, <2>3, <2>4, <2>5 DEF OptTyped
<1>8. \A u \in Recorders : recorder'[u].subject \in Opt!Subjects => count'[recorder'[u].subject] >= 1
  <2> SUFFICES ASSUME NEW u \in Recorders, recorder'[u].subject \in Opt!Subjects
               PROVE  count'[recorder'[u].subject] >= 1
      OBVIOUS
  <2>1. CASE u = t
      BY <1>2, <1>5, <1>6, <2>1
  <2>2. CASE u # t
    <3>1. recorder'[u] = recorder[u] /\ count[recorder[u].subject] >= 1
        BY <1>6, <2>2 DEF OptInv
    <3> QED
        BY <3>1, <1>5, <1>6
  <2> QED
      BY <2>1, <2>2
<1>9. ASSUME ~mixed', NEW r \in Opt!Subjects PROVE MeanOf(r)'
  <2>1. ~mixed /\ \A u \in Recorders : recorder[u].subject # s
      BY <1>1, <1>9
  <2>2. MeanOf(r) /\ MeanOf(s)
      BY <2>1 DEF OptInv
  <2>3. recorder[t].subject # r
      BY <1>1, <1>3, RecorderTyped
  <2>4. CASE r = s
    <3>1. \A u \in Recorders : recorder'[u].subject = s <=> u = t
        BY <1>2, <1>6, <2>1
    <3>2. rate[s] * count[s] = wins[s] * Units
        BY <2>1, <2>2 DEF MeanOf
    <3>3. count'[s] - 1 = count[s] /\ wins'[s] - plus = wins[s] /\ rate'[s] = rate[s]
        BY <1>1, <1>2, <1>5, <1>6
    <3>4. rate'[s] * (count'[s] - 1) = (wins'[s] - plus) * Units
        BY <3>2, <3>3
    <3>5. recorder'[t].won = won
        BY <1>2, <1>6
    <3>6. rate'[s] * (count'[s] - 1) = (wins'[s] - (IF recorder'[t].won THEN 1 ELSE 0)) * Units
        BY <3>4, <3>5 DEF plus
    <3> QED
        BY <2>4, <3>1, <3>6 DEF MeanOf
  <2>5. CASE r # s
    <3>1. \A u \in Recorders : (recorder'[u].subject = r <=> recorder[u].subject = r)
                               /\ (recorder'[u].subject = r => recorder'[u] = recorder[u])
        BY <1>2, <1>6, <2>3, <2>5
    <3>2. count'[r] = count[r] /\ wins'[r] = wins[r] /\ rate'[r] = rate[r]
        BY <1>1, <1>6, <2>5
    <3> QED
        BY <2>2, <3>1, <3>2 DEF MeanOf
  <2> QED
      BY <2>4, <2>5
<1>10. \A l \in 1..MaxRounds : UrgentSeq(rounds'[l].todo)
    BY <1>1 DEF OptInv
<1> QED
  <2>1. (\A l \in 1..MaxRounds : UrgentSeq(rounds[l].todo))'
      BY <1>10 DEF UrgentSeq, Opt!SubjectOf, Opt!Urgency
  <2>2. (~mixed => \A r \in Opt!Subjects : MeanOf(r))'
      BY <1>9
  <2> QED
      BY <1>7, <1>8, <2>1, <2>2 DEF OptInv

LEMMA UpdateStep ==
    ASSUME OptInv, NEW t \in Recorders, Opt!UpdateAverages(t)
    PROVE  OptInv'
<1> DEFINE s == recorder[t].subject
           won == IF recorder[t].won THEN 1 ELSE 0
           mean == Opt!Average(rate[s], count[s], won * Units)
<1>1. OptTyped /\ Units \in Nat
    BY OptConstants DEF OptInv
<1>2. /\ recorder[t] # Opt!Idle /\ recorder' = [recorder EXCEPT ![t] = Opt!Idle]
      /\ rate' = [rate EXCEPT ![s] = Opt!Average(rate[s], count[s], IF recorder[t].won THEN Units ELSE 0)]
      /\ \E band \in {"fast", "slow"} : duration' = [duration EXCEPT ![s] = band]
      /\ bottlenecks' \in IF s = "agent" THEN {bottlenecks}
                          ELSE {Opt!Least(bottlenecks + n, MaxBottlenecks) : n \in Named}
      /\ hour' = hour /\ count' = count /\ on' = on /\ rounds' = rounds /\ files' = files
      /\ wins' = wins /\ mixed' = mixed
  <2>1. rate' = [rate EXCEPT ![s] = Opt!Average(@, count[s], IF recorder[t].won THEN Units ELSE 0)]
      BY DEF Opt!UpdateAverages
  <2>2. rate' = [rate EXCEPT ![s] = Opt!Average(rate[s], count[s], IF recorder[t].won THEN Units ELSE 0)]
      BY <2>1
  <2> QED
      BY <2>2 DEF Opt!UpdateAverages
<1>3. s \in Opt!Subjects /\ recorder[t].won \in BOOLEAN /\ won \in {0, 1} /\ "none" \notin Opt!Subjects
      /\ Opt!Idle.subject = "none"
    BY <1>1, <1>2, RecorderTyped DEF Opt!Idle
<1>4. /\ count[s] \in Nat /\ count[s] >= 1 /\ wins[s] \in Nat /\ wins[s] <= count[s] /\ rate[s] \in 0..Units
      /\ count[s] \in 1..MaxRecords
  <2>1. /\ \A r \in Opt!Subjects : count[r] \in Nat /\ wins[r] \in Nat /\ rate[r] \in 0..Units /\ wins[r] <= count[r]
        /\ count["agent"] + count["workflow"] <= MaxRecords
      BY <1>1 DEF OptTyped
  <2>2. count[s] >= 1
      BY <1>3 DEF OptInv
  <2>3. MaxRecords \in Nat /\ Opt!Subjects = {"agent", "workflow"}
      BY OptConstants DEF Opt!Subjects
  <2> QED
      BY <1>3, <2>1, <2>2, <2>3
<1>5. won * Units = IF recorder[t].won THEN Units ELSE 0
    BY <1>1
<1>6. rate' = [rate EXCEPT ![s] = mean]
    BY <1>2, <1>5
<1>7. /\ mean \in 0..Units
      /\ rate[s] * (count[s] - 1) = (wins[s] - won) * Units => mean * count[s] = wins[s] * Units
  <2> HIDE DEF s, won
  <2> QED
      BY <1>3, <1>4, AverageIsMean
<1>8. \A u \in Recorders : recorder'[u] = IF u = t THEN Opt!Idle ELSE recorder[u]
    BY <1>1, <1>2 DEF OptTyped
<1>9. \A r \in Opt!Subjects : rate'[r] = IF r = s THEN mean ELSE rate[r]
  <2> HIDE DEF s, mean
  <2> QED
      BY <1>1, <1>6 DEF OptTyped
<1>10. OptTyped'
  <2>1. rate' \in [Opt!Subjects -> 0..Units]
    <3> HIDE DEF s, mean
    <3> QED
        BY <1>1, <1>3, <1>6, <1>7 DEF OptTyped
  <2>2. duration' \in [Opt!Subjects -> {"fast", "slow"}]
      BY <1>1, <1>2 DEF OptTyped
  <2>3. bottlenecks' \in 0..MaxBottlenecks
      BY <1>1, <1>2, OptConstants DEF OptTyped, Opt!Least
  <2>4. recorder' \in [Recorders -> Opt!Recordings \cup {Opt!Idle}]
      BY <1>1, <1>2 DEF OptTyped
  <2> QED
      BY <1>1, <1>2, <2>1, <2>2, <2>3, <2>4 DEF OptTyped
<1> HIDE DEF s, won, mean
<1>11. \A u \in Recorders : recorder'[u].subject \in Opt!Subjects => count'[recorder'[u].subject] >= 1
  <2> SUFFICES ASSUME NEW u \in Recorders, recorder'[u].subject \in Opt!Subjects
               PROVE  count'[recorder'[u].subject] >= 1
      OBVIOUS
  <2>1. u # t /\ recorder'[u] = recorder[u]
      BY <1>3, <1>8
  <2> QED
      BY <1>2, <2>1 DEF OptInv
<1>12. ASSUME ~mixed', NEW r \in Opt!Subjects PROVE MeanOf(r)'
  <2>1. MeanOf(r)
      BY <1>2, <1>12 DEF OptInv
  <2>2. CASE r = s
    <3>1. recorder[t].subject = r
        BY <2>2 DEF s
    <3>2. \A u \in Recorders : recorder'[u].subject # r
      <4> SUFFICES ASSUME NEW u \in Recorders, recorder'[u].subject = r PROVE FALSE
          OBVIOUS
      <4>1. u # t /\ recorder'[u] = recorder[u]
          BY <1>3, <1>8
      <4> QED
          BY <2>1, <3>1, <4>1 DEF MeanOf
    <3>3. rate[r] * (count[r] - 1) = (wins[r] - won) * Units
        BY <2>1, <3>1 DEF MeanOf, won
    <3>4. rate'[r] * count'[r] = wins'[r] * Units
        BY <1>2, <1>7, <1>9, <2>2, <3>3
    <3> QED
        BY <3>2, <3>4 DEF MeanOf
  <2>3. CASE r # s
    <3>1. recorder[t].subject # r
        BY <2>3 DEF s
    <3>2. \A u \in Recorders : (recorder'[u].subject = r <=> recorder[u].subject = r)
                               /\ (recorder'[u].subject = r => recorder'[u] = recorder[u])
        BY <1>3, <1>8, <3>1
    <3>3. count' = count /\ wins' = wins /\ rate'[r] = rate[r]
        BY <1>2, <1>9, <2>3
    <3> QED
        BY <2>1, <3>2, <3>3 DEF MeanOf
  <2> QED
      BY <2>2, <2>3
<1> QED
  <2>1. (\A l \in 1..MaxRounds : UrgentSeq(rounds[l].todo))'
      BY <1>2 DEF OptInv, UrgentSeq, Opt!SubjectOf, Opt!Urgency
  <2>2. (~mixed => \A r \in Opt!Subjects : MeanOf(r))'
      BY <1>12
  <2> QED
      BY <1>10, <1>11, <2>1, <2>2 DEF OptInv
LEMMA FindingsTyped ==
    Opt!AnalyzeAgentEfficiency \o Opt!AnalyzeWorkflowEfficiency \in Seq(Opt!Types)
<1> DEFINE a == IF Opt!Under("agent", 80) THEN <<"agent_retraining">> ELSE <<>>
           b == IF Opt!Over("agent", 95) /\ duration["agent"] = "fast" THEN <<"agent_promotion">> ELSE <<>>
           c == IF duration["agent"] = "slow" THEN <<"process_improvement">> ELSE <<>>
           d == IF Opt!Under("workflow", 70) THEN <<"workflow_redesign">> ELSE <<>>
           e == IF duration["workflow"] = "slow" THEN <<"workflow_streamlining">> ELSE <<>>
           f == IF bottlenecks > 3 THEN <<"bottleneck_resolution">> ELSE <<>>
<1>a. /\ \A x \in Opt!Types : <<x>> \in Seq(Opt!Types)
      /\ <<>> \in Seq(Opt!Types)
    OBVIOUS
<1>b. {"agent_retraining", "agent_promotion", "process_improvement",
       "workflow_redesign", "workflow_streamlining", "bottleneck_resolution"} = Opt!Types
    BY DEF Opt!Types
<1>c. a \in Seq(Opt!Types) /\ b \in Seq(Opt!Types) /\ c \in Seq(Opt!Types)
      /\ d \in Seq(Opt!Types) /\ e \in Seq(Opt!Types) /\ f \in Seq(Opt!Types)
    BY <1>a, <1>b
<1>d. /\ Opt!AnalyzeAgentEfficiency = IF ~Opt!Known("agent") THEN <<>> ELSE (a \o b) \o c
      /\ Opt!AnalyzeWorkflowEfficiency = IF ~Opt!Known("workflow") THEN <<>> ELSE (d \o e) \o f
    BY DEF Opt!AnalyzeAgentEfficiency, Opt!AnalyzeWorkflowEfficiency
<1> HIDE DEF a, b, c, d, e, f
<1>e. /\ a \o b \in Seq(Opt!Types) /\ d \o e \in Seq(Opt!Types)
      /\ (a \o b) \o c \in Seq(Opt!Types) /\ (d \o e) \o f \in Seq(Opt!Types)
    BY <1>c, ConcatProperties
<1>1. Opt!AnalyzeAgentEfficiency \in Seq(Opt!Types)
    BY <1>a, <1>d, <1>e
<1>2. Opt!AnalyzeWorkflowEfficiency \in Seq(Opt!Types)
    BY <1>a, <1>d, <1>e
<1> QED
    BY <1>1, <1>2, ConcatProperties

LEMMA ScoreIs ==
    ASSUME OptTyped, NEW type \in Opt!Types
    PROVE  /\ Opt!PriorityScore(type) \in Int /\ Opt!SubjectOf(type) \in Opt!Subjects /\ Opt!Urgency(type) \in 1..3
           /\ \A other \in Opt!Types : Opt!SubjectOf(other) = Opt!SubjectOf(type) =>
                 (Opt!PriorityScore(other) <= Opt!PriorityScore(type) <=> Opt!Urgency(other) <= Opt!Urgency(type))
<1> DEFINE bonus == [s \in Opt!Subjects |->
                       Opt!Least(count[s] \div (IF s = "agent" THEN TasksPerPoint ELSE RunsPerPoint), 5)]
<1>1. \A s \in Opt!Subjects : bonus[s] \in Int
  <2> SUFFICES ASSUME NEW s \in Opt!Subjects PROVE bonus[s] \in Int
      OBVIOUS
  <2>1. count[s] \in Nat /\ TasksPerPoint \in Nat \ {0} /\ RunsPerPoint \in Nat \ {0}
      BY OptConstants DEF OptTyped
  <2>2. count[s] \div TasksPerPoint \in Int /\ count[s] \div RunsPerPoint \in Int
      BY <2>1
  <2> QED
      BY <2>2 DEF Opt!Least
<1>2. \A y \in Opt!Types : Opt!SubjectOf(y) \in Opt!Subjects /\ Opt!Urgency(y) \in 1..3
    BY DEF Opt!Types, Opt!SubjectOf, Opt!Subjects, Opt!Urgency
<1>3. \A y \in Opt!Types : Opt!PriorityScore(y) = Opt!Urgency(y) + bonus[Opt!SubjectOf(y)]
    BY <1>2 DEF Opt!PriorityScore
<1> HIDE DEF bonus
<1> QED
    BY <1>1, <1>2, <1>3

\* generate_optimization_recommendations sorts by priority.
LEMMA RecommendationsSorted ==
    ASSUME OptTyped
    PROVE  Opt!Recommendations \in Seq(Opt!Types) /\ UrgentSeq(Opt!Recommendations)
<1> DEFINE all == Opt!AnalyzeAgentEfficiency \o Opt!AnalyzeWorkflowEfficiency
           n == Len(all)
           score == [i \in 1..n |-> Opt!PriorityScore(all[i])]
           before == {p \in (1..n) \X (1..n) : score[p[1]] > score[p[2]] \/ (score[p[1]] = score[p[2]] /\ p[1] < p[2])}
           rank == RanksBy(before, n)
           place(i) == 1 + Opt!Cardinality({j \in DOMAIN all :
                         \/ Opt!PriorityScore(all[j]) > Opt!PriorityScore(all[i])
                         \/ Opt!PriorityScore(all[j]) = Opt!PriorityScore(all[i]) /\ j < i})
           sorted == [p \in 1..n |-> all[CHOOSE i \in 1..n : rank[i] = p]]
<1>1. all \in Seq(Opt!Types) /\ n \in Nat /\ DOMAIN all = 1..n /\ \A i \in 1..n : all[i] \in Opt!Types
    BY FindingsTyped, LenProperties, ElementOfSeq
<1>2. Opt!Recommendations = sorted
  <2>1. ASSUME NEW i \in DOMAIN all
        PROVE  place(i) = rank[i]
    <3>1. {j \in DOMAIN all : \/ Opt!PriorityScore(all[j]) > Opt!PriorityScore(all[i])
                              \/ Opt!PriorityScore(all[j]) = Opt!PriorityScore(all[i]) /\ j < i}
          = {j \in 1..n : <<j, i>> \in before}
      <4>1. i \in 1..n /\ DOMAIN all = 1..n
          BY <1>1, <2>1
      <4>2. \A j \in 1..n : score[j] = Opt!PriorityScore(all[j])
          OBVIOUS
      <4>3. \A j \in 1..n : <<j, i>> \in before <=> (score[j] > score[i] \/ (score[j] = score[i] /\ j < i))
        <5> HIDE DEF score, n
        <5> QED
            BY <4>1
      <4> HIDE DEF score, n, before, all
      <4> QED
          BY <4>1, <4>2, <4>3
    <3>2. rank[i] = 1 + Cardinality({j \in 1..n : <<j, i>> \in before})
      <4>1. i \in 1..n
          BY <1>1, <2>1
      <4> HIDE DEF before, n
      <4> QED
          BY <4>1 DEF RanksBy
    <3> HIDE DEF before, n, all, rank
    <3> QED
        BY <3>1, <3>2 DEF Opt!Cardinality, Cardinality
  <2>2. Opt!Recommendations =
          [p \in DOMAIN all |-> all[CHOOSE i \in DOMAIN all : place(i) = p]]
      BY DEF Opt!Recommendations
  <2> HIDE DEF rank, n, all, place
  <2>3. \A p : (CHOOSE i \in DOMAIN all : place(i) = p) = (CHOOSE i \in DOMAIN all : rank[i] = p)
      BY <2>1, Zenon
  <2> DEFINE old(p) == CHOOSE i \in DOMAIN all : place(i) = p
             new(p) == CHOOSE i \in DOMAIN all : rank[i] = p
  <2>a. /\ Opt!Recommendations = [p \in DOMAIN all |-> all[old(p)]]
        /\ \A p : old(p) = new(p)
      BY <2>2, <2>3
  <2> HIDE DEF old, new
  <2>b. Opt!Recommendations = [p \in DOMAIN all |-> all[new(p)]]
      BY <2>a
  <2>4. Opt!Recommendations = [p \in DOMAIN all |-> all[CHOOSE i \in DOMAIN all : rank[i] = p]]
      BY <2>b DEF new
  <2> QED
      BY <1>1, <2>4
<1> HIDE DEF place
<1>3. \A i \in 1..n : score[i] \in Int
    BY <1>1, ScoreIs
<1>4. TotallyOrders(before, n)
  <2>1. \A i, j \in 1..n : <<i, j>> \in before <=> (score[i] > score[j] \/ (score[i] = score[j] /\ i < j))
    <3> HIDE DEF score, n
    <3> QED
        OBVIOUS
  <2> HIDE DEF score, n, before
  <2>2. \A i \in 1..n : <<i, i>> \notin before
      BY <1>1, <1>3, <2>1
  <2>3. \A i, j, k \in 1..n : <<i, j>> \in before /\ <<j, k>> \in before => <<i, k>> \in before
    <3> SUFFICES ASSUME NEW i \in 1..n, NEW j \in 1..n, NEW k \in 1..n,
                        <<i, j>> \in before, <<j, k>> \in before
                 PROVE  <<i, k>> \in before
        OBVIOUS
    <3>1. score[i] \in Int /\ score[j] \in Int /\ score[k] \in Int /\ i \in Int /\ j \in Int /\ k \in Int
        BY <1>1, <1>3
    <3>2. /\ score[i] > score[j] \/ (score[i] = score[j] /\ i < j)
          /\ score[j] > score[k] \/ (score[j] = score[k] /\ j < k)
        BY <2>1
    <3>3. score[i] > score[k] \/ (score[i] = score[k] /\ i < k)
        BY <3>1, <3>2
    <3> QED
        BY <2>1, <3>3
  <2>4. \A i, j \in 1..n : i # j => <<i, j>> \in before \/ <<j, i>> \in before
    <3> SUFFICES ASSUME NEW i \in 1..n, NEW j \in 1..n, i # j
                 PROVE  <<i, j>> \in before \/ <<j, i>> \in before
        OBVIOUS
    <3>1. score[i] \in Int /\ score[j] \in Int /\ i \in Int /\ j \in Int
        BY <1>1, <1>3
    <3>2. \/ score[i] > score[j] \/ (score[i] = score[j] /\ i < j)
          \/ score[j] > score[i] \/ (score[j] = score[i] /\ j < i)
        BY <3>1
    <3> QED
        BY <2>1, <3>2
  <2> QED
      BY <2>2, <2>3, <2>4 DEF TotallyOrders
<1>5. \A i, j \in 1..n : <<i, j>> \in before <=> (score[i] > score[j] \/ (score[i] = score[j] /\ i < j))
  <2> HIDE DEF score, n
  <2> QED
      OBVIOUS
<1>6. \A i \in 1..n : score[i] = Opt!PriorityScore(all[i])
    OBVIOUS
<1> HIDE DEF score, before, all
<1>7. /\ \A p \in 1..n : \E i \in 1..n : rank[i] = p
      /\ \A i, j \in 1..n : rank[i] < rank[j] => <<i, j>> \in before
  <2>1. rank = RanksBy(before, n)
      OBVIOUS
  <2> HIDE DEF rank, n
  <2>2. n \in Nat
      BY <1>1
  <2>3. \A b, r : TotallyOrders(b, n) /\ r = RanksBy(b, n) =>
          /\ \A p \in 1..n : \E i \in 1..n : r[i] = p
          /\ \A i, j \in 1..n : r[i] < r[j] => <<i, j>> \in b
      BY <2>2, Ranked
  <2> QED
      BY <1>4, <2>1, <2>3, Zenon
<1> HIDE DEF rank
<1> DEFINE from(p) == CHOOSE i \in 1..n : rank[i] = p
<1>8. \A p \in 1..n : from(p) \in 1..n /\ rank[from(p)] = p
    BY <1>7
<1> HIDE DEF from
<1>9. \A p \in 1..n : sorted[p] = all[from(p)]
    BY DEF from
<1>10. sorted \in Seq(Opt!Types) /\ Len(sorted) = n /\ DOMAIN sorted = 1..n
  <2>1. \A p \in 1..n : sorted[p] \in Opt!Types
      BY <1>1, <1>8, <1>9
  <2>2. sorted \in [1..n -> Opt!Types]
      BY <2>1
  <2> HIDE DEF sorted, n
  <2> QED
      BY <1>1, <2>2, SeqDef, LenProperties
<1> HIDE DEF sorted
<1>11. ASSUME NEW p \in 1..n, NEW q \in 1..n, p < q, Opt!SubjectOf(sorted[p]) = Opt!SubjectOf(sorted[q])
       PROVE  Opt!Urgency(sorted[p]) >= Opt!Urgency(sorted[q])
  <2>1. <<from(p), from(q)>> \in before
      BY <1>7, <1>8, <1>11
  <2>2. score[from(p)] >= score[from(q)]
      BY <1>3, <1>5, <1>8, <2>1
  <2>3. Opt!PriorityScore(sorted[q]) <= Opt!PriorityScore(sorted[p])
      BY <1>3, <1>6, <1>8, <1>9, <2>2
  <2>4. sorted[p] \in Opt!Types /\ sorted[q] \in Opt!Types
      BY <1>1, <1>8, <1>9
  <2>5. Opt!Urgency(sorted[q]) <= Opt!Urgency(sorted[p])
      BY <1>11, <2>3, <2>4, ScoreIs
  <2>6. Opt!Urgency(sorted[q]) \in Int /\ Opt!Urgency(sorted[p]) \in Int
      BY <2>4, ScoreIs
  <2> QED
      BY <2>5, <2>6
<1>12. UrgentSeq(sorted)
    BY <1>10, <1>11 DEF UrgentSeq
<1> QED
    BY <1>2, <1>10, <1>12
LEMMA LoopsStep ==
    ASSUME OptInv, count' = count, rate' = rate, duration' = duration, bottlenecks' = bottlenecks,
           recorder' = recorder, wins' = wins, mixed' = mixed,
           hour' \in 0..MaxHours, on' \in BOOLEAN, files' \subseteq 0..MaxHours,
           rounds' \in [1..MaxRounds -> RoundType],
           \A l \in 1..MaxRounds : UrgentSeq(rounds'[l].todo)
    PROVE  OptInv'
<1>1. OptTyped'
    BY DEF OptInv, OptTyped
<1>2. (\A t \in Recorders : recorder[t].subject \in Opt!Subjects => count[recorder[t].subject] >= 1)'
    BY DEF OptInv
<1>3. (~mixed => \A s \in Opt!Subjects : MeanOf(s))'
    BY DEF OptInv, MeanOf
<1>4. (\A l \in 1..MaxRounds : UrgentSeq(rounds[l].todo))'
    BY DEF UrgentSeq, Opt!SubjectOf, Opt!Urgency
<1> QED
    BY <1>1, <1>2, <1>3, <1>4 DEF OptInv

LEMMA RoundParts ==
    ASSUME NEW r, r \in RoundType
    PROVE  /\ r.at \in RoundPlaces /\ r.todo \in Seq(Opt!Types) /\ Len(r.todo) <= Top
           /\ \A q : [r EXCEPT !.todo = q] = [at |-> r.at, todo |-> q]
           /\ \A p \in RoundPlaces : [r EXCEPT !.at = p] \in RoundType /\ [r EXCEPT !.at = p].todo = r.todo
BY DEF RoundType

LEMMA UrgentTail ==
    ASSUME NEW s \in Seq(Opt!Types), s # <<>>, UrgentSeq(s)
    PROVE  Tail(s) \in Seq(Opt!Types) /\ UrgentSeq(Tail(s)) /\ Len(Tail(s)) <= Len(s)
<1>1. /\ Tail(s) \in Seq(Opt!Types) /\ Len(s) \in Nat /\ Len(Tail(s)) = Len(s) - 1 /\ Len(Tail(s)) \in Nat
      /\ \A i \in 1..Len(Tail(s)) : Tail(s)[i] = s[i + 1]
    BY HeadTailProperties, LenProperties
<1>2. DOMAIN Tail(s) = 1..Len(Tail(s)) /\ DOMAIN s = 1..Len(s)
    BY <1>1
<1>3. ASSUME NEW i \in DOMAIN Tail(s), NEW j \in DOMAIN Tail(s), i < j,
             Opt!SubjectOf(Tail(s)[i]) = Opt!SubjectOf(Tail(s)[j])
      PROVE  Opt!Urgency(Tail(s)[i]) >= Opt!Urgency(Tail(s)[j])
  <2>1. i + 1 \in DOMAIN s /\ j + 1 \in DOMAIN s /\ i + 1 < j + 1
      BY <1>1, <1>2, <1>3
  <2>2. Tail(s)[i] = s[i + 1] /\ Tail(s)[j] = s[j + 1]
      BY <1>1, <1>2
  <2> QED
      BY <1>3, <2>1, <2>2 DEF UrgentSeq
<1> QED
    BY <1>1, <1>3 DEF UrgentSeq

LEMMA UrgentTop ==
    ASSUME NEW s \in Seq(Opt!Types), UrgentSeq(s), NEW k \in 0..Len(s)
    PROVE  SubSeq(s, 1, k) \in Seq(Opt!Types) /\ UrgentSeq(SubSeq(s, 1, k)) /\ Len(SubSeq(s, 1, k)) = k
<1> DEFINE u == SubSeq(s, 1, k)
<1>1. Len(s) \in Nat /\ k \in Nat /\ k <= Len(s) /\ DOMAIN s = 1..Len(s)
    BY LenProperties
<1>2. /\ u \in Seq(Opt!Types) /\ Len(u) = k /\ DOMAIN u = 1..k
      /\ \A i \in 1..k : u[i] = s[i] /\ i \in DOMAIN s
  <2>1. k = 0 => u = <<>>
      BY <1>1
  <2> QED
      BY <1>1, <2>1, SubSeqProperties
<1> HIDE DEF u
<1>3. UrgentSeq(u)
    BY <1>1, <1>2 DEF UrgentSeq
<1> QED
    BY <1>2, <1>3 DEF u

LEMMA LoopMoves ==
    ASSUME OptInv, NEW l \in 1..MaxRounds, UNCHANGED Opt!counters,
           hour' \in 0..MaxHours, on' \in BOOLEAN, files' \subseteq 0..MaxHours,
           NEW r, r \in RoundType, UrgentSeq(r.todo), rounds' = [rounds EXCEPT ![l] = r]
    PROVE  OptInv'
<1>1. rounds \in [1..MaxRounds -> RoundType]
    BY DEF OptInv, OptTyped
<1>2. rounds' \in [1..MaxRounds -> RoundType]
    BY <1>1
<1>3. \A m \in 1..MaxRounds : rounds'[m] = IF m = l THEN r ELSE rounds[m]
    BY <1>1
<1>4. \A m \in 1..MaxRounds : UrgentSeq(rounds'[m].todo)
    BY <1>3 DEF OptInv
<1>5. count' = count /\ rate' = rate /\ duration' = duration /\ bottlenecks' = bottlenecks
      /\ recorder' = recorder /\ wins' = wins /\ mixed' = mixed
    BY DEF Opt!counters
<1> QED
    BY <1>2, <1>4, <1>5, LoopsStep

LEMMA OptStep == OptInv /\ Opt!Next => OptInv'
<1> SUFFICES ASSUME OptInv, Opt!Next PROVE OptInv'
    OBVIOUS
<1>0. /\ hour \in 0..MaxHours /\ on \in BOOLEAN /\ files \subseteq 0..MaxHours /\ MaxHours \in Nat
      /\ rounds \in [1..MaxRounds -> RoundType] /\ Top \in Nat \ {0} /\ OptTyped
    BY OptConstants DEF OptInv, OptTyped
<1>a. ASSUME NEW l \in 1..MaxRounds
      PROVE  rounds[l] \in RoundType /\ UrgentSeq(rounds[l].todo) /\ rounds[l].todo \in Seq(Opt!Types)
             /\ Len(rounds[l].todo) <= Top /\ rounds[l].at \in RoundPlaces
    BY <1>0, RoundParts DEF OptInv
<1>b. ASSUME NEW l \in 1..MaxRounds, NEW p \in RoundPlaces, UNCHANGED Opt!counters,
             hour' \in 0..MaxHours, on' \in BOOLEAN, files' \subseteq 0..MaxHours,
             rounds' = [rounds EXCEPT ![l].at = p]
      PROVE  OptInv'
  <2> DEFINE r == [rounds[l] EXCEPT !.at = p]
  <2>1. rounds' = [rounds EXCEPT ![l] = r]
      BY <1>b
  <2>2. r \in RoundType /\ r.todo = rounds[l].todo
      BY <1>a, RoundParts
  <2>3. UrgentSeq(r.todo)
      BY <1>a, <2>2
  <2> HIDE DEF r
  <2> QED
      BY <1>b, <2>1, <2>2, <2>3, LoopMoves
<1>c. {"off", "test", "generate", "apply", "sleep", "end"} = RoundPlaces
    BY DEF RoundPlaces
<1>1. ASSUME NEW t \in Recorders, NEW s \in Opt!Subjects, NEW won \in BOOLEAN, Opt!CountOne(t, s, won)
      PROVE  OptInv'
    BY <1>1, CountOneStep
<1>2. ASSUME NEW t \in Recorders, Opt!UpdateAverages(t) PROVE OptInv'
    BY <1>2, UpdateStep
<1>3. ASSUME NEW l \in 1..MaxRounds, Opt!StartOptimization(l) PROVE OptInv'
  <2>1. /\ on' \in BOOLEAN /\ hour' = hour /\ files' = files /\ UNCHANGED Opt!counters
        /\ rounds' = [rounds EXCEPT ![l].at = "test"]
      BY <1>3 DEF Opt!StartOptimization
  <2> QED
      BY <1>0, <1>b, <1>c, <2>1
<1>4. ASSUME NEW l \in 1..MaxRounds, Opt!Test(l) PROVE OptInv'
  <2>1. /\ on' = on /\ hour' = hour /\ files' = files /\ UNCHANGED Opt!counters
        /\ rounds' = [rounds EXCEPT ![l].at = IF on THEN "generate" ELSE "end"]
      BY <1>4 DEF Opt!Test
  <2>2. (IF on THEN "generate" ELSE "end") \in RoundPlaces
      BY <1>c
  <2> QED
      BY <1>0, <1>b, <2>1, <2>2
<1>5. ASSUME NEW l \in 1..MaxRounds, Opt!Generate(l) PROVE OptInv'
  <2> DEFINE k == Opt!Least(Top, Len(Opt!Recommendations))
             todo == SubSeq(Opt!Recommendations, 1, k)
             r == [at |-> "apply", todo |-> todo]
  <2>1. /\ on' = on /\ hour' = hour /\ files' = files /\ UNCHANGED Opt!counters
        /\ rounds' = [rounds EXCEPT ![l] = r]
      BY <1>5 DEF Opt!Generate
  <2>2. Opt!Recommendations \in Seq(Opt!Types) /\ UrgentSeq(Opt!Recommendations)
      BY <1>0, RecommendationsSorted
  <2>3. k \in 0..Len(Opt!Recommendations) /\ k <= Top
    <3>1. Len(Opt!Recommendations) \in Nat
        BY <2>2, LenProperties
    <3> QED
        BY <1>0, <3>1 DEF Opt!Least
  <2> HIDE DEF k
  <2>4. todo \in Seq(Opt!Types) /\ UrgentSeq(todo) /\ Len(todo) <= Top
      BY <2>2, <2>3, UrgentTop
  <2> HIDE DEF todo
  <2>5. r \in RoundType /\ UrgentSeq(r.todo)
      BY <1>c, <2>4 DEF RoundType
  <2> HIDE DEF r
  <2> QED
      BY <1>0, <2>1, <2>5, LoopMoves
<1>6. ASSUME NEW l \in 1..MaxRounds, Opt!GenerateFails(l) PROVE OptInv'
  <2>1. /\ on' = on /\ hour' = hour /\ files' = files /\ UNCHANGED Opt!counters
        /\ rounds' = [rounds EXCEPT ![l].at = "sleep"]
      BY <1>6 DEF Opt!GenerateFails
  <2> QED
      BY <1>0, <1>b, <1>c, <2>1
<1>7. ASSUME NEW l \in 1..MaxRounds, Opt!Apply(l) PROVE OptInv'
  <2> DEFINE r == [rounds[l] EXCEPT !.todo = Tail(rounds[l].todo)]
  <2>1. /\ on' = on /\ hour' = hour /\ files' \in {files, files \cup {hour}} /\ UNCHANGED Opt!counters
        /\ rounds[l].todo # <<>> /\ rounds' = [rounds EXCEPT ![l] = r]
      BY <1>7 DEF Opt!Apply
  <2>2. Tail(rounds[l].todo) \in Seq(Opt!Types) /\ UrgentSeq(Tail(rounds[l].todo))
        /\ Len(Tail(rounds[l].todo)) <= Top
    <3>1. Len(rounds[l].todo) \in Nat /\ Len(rounds[l].todo) <= Top
        BY <1>a, LenProperties
    <3>2. Tail(rounds[l].todo) \in Seq(Opt!Types) /\ UrgentSeq(Tail(rounds[l].todo))
          /\ Len(Tail(rounds[l].todo)) <= Len(rounds[l].todo)
        BY <1>a, <2>1, UrgentTail
    <3>3. Len(Tail(rounds[l].todo)) \in Nat
        BY <3>2, LenProperties
    <3> QED
        BY <1>0, <3>1, <3>2, <3>3
  <2>3. r = [at |-> rounds[l].at, todo |-> Tail(rounds[l].todo)]
      BY <1>a, RoundParts
  <2>4. r \in RoundType /\ UrgentSeq(r.todo)
      BY <1>a, <2>2, <2>3 DEF RoundType
  <2>5. files' \subseteq 0..MaxHours
      BY <1>0, <2>1
  <2> HIDE DEF r
  <2> QED
      BY <1>0, <2>1, <2>4, <2>5, LoopMoves
<1>8. ASSUME NEW l \in 1..MaxRounds, Opt!Applied(l) PROVE OptInv'
  <2>1. /\ on' = on /\ hour' = hour /\ files' = files /\ UNCHANGED Opt!counters
        /\ rounds' = [rounds EXCEPT ![l].at = "sleep"]
      BY <1>8 DEF Opt!Applied
  <2> QED
      BY <1>0, <1>b, <1>c, <2>1
<1>9. ASSUME NEW l \in 1..MaxRounds, Opt!Wake(l) PROVE OptInv'
  <2>1. /\ on' = on /\ hour < MaxHours /\ hour' = hour + 1 /\ files' = files /\ UNCHANGED Opt!counters
        /\ rounds' = [rounds EXCEPT ![l].at = "test"]
      BY <1>9 DEF Opt!Wake
  <2>2. hour' \in 0..MaxHours
      BY <1>0, <2>1
  <2> QED
      BY <1>0, <1>b, <1>c, <2>1, <2>2
<1>10. ASSUME Opt!StopOptimization PROVE OptInv'
  <2>1. /\ on' \in BOOLEAN /\ hour' = hour /\ files' = files /\ UNCHANGED Opt!counters /\ rounds' = rounds
      BY <1>10 DEF Opt!StopOptimization
  <2> QED
      BY <1>0, <1>a, <2>1, LoopsStep DEF Opt!counters
<1> QED
    BY <1>1, <1>2, <1>3, <1>4, <1>5, <1>6, <1>7, <1>8, <1>9, <1>10 DEF Opt!Next

LEMMA OptStarts == Opt!Init => OptInv
<1> SUFFICES ASSUME Opt!Init PROVE OptInv
    OBVIOUS
<1>1. /\ hour = 0 /\ count = [s \in Opt!Subjects |-> 0] /\ rate = [s \in Opt!Subjects |-> 0]
      /\ duration = [s \in Opt!Subjects |-> "fast"] /\ bottlenecks = 0
      /\ recorder = [t \in Recorders |-> Opt!Idle] /\ on = FALSE
      /\ rounds = [l \in 1..MaxRounds |-> [at |-> "off", todo |-> <<>>]]
      /\ files = {} /\ wins = [s \in Opt!Subjects |-> 0] /\ mixed = FALSE
    BY DEF Opt!Init
<1>2. Opt!Idle.subject = "none" /\ "none" \notin Opt!Subjects /\ Opt!Subjects = {"agent", "workflow"}
    BY DEF Opt!Idle, Opt!Subjects
<1>3. MaxHours \in Nat /\ MaxRecords \in Nat /\ Units \in Nat /\ MaxBottlenecks \in Nat /\ Top \in Nat
    BY OptConstants
<1>4. [at |-> "off", todo |-> <<>>] \in RoundType
    BY <1>3 DEF RoundType, RoundPlaces
<1>5. OptTyped
  <2>1. rounds \in [1..MaxRounds -> RoundType]
      BY <1>1, <1>4
  <2>2. count["agent"] + count["workflow"] <= MaxRecords
      BY <1>1, <1>2, <1>3
  <2>3. /\ hour \in 0..MaxHours /\ bottlenecks \in 0..MaxBottlenecks /\ on \in BOOLEAN /\ mixed \in BOOLEAN
        /\ files \subseteq 0..MaxHours
    <3>1. 0 \in 0..MaxHours /\ 0 \in 0..MaxBottlenecks
        BY <1>3
    <3>2. hour \in 0..MaxHours /\ bottlenecks \in 0..MaxBottlenecks
        BY <1>1, <3>1, Zenon
    <3> QED
        BY <1>1, <3>2, Zenon
  <2>4. /\ count \in [Opt!Subjects -> Nat] /\ rate \in [Opt!Subjects -> 0..Units]
        /\ wins \in [Opt!Subjects -> Nat] /\ \A s \in Opt!Subjects : wins[s] <= count[s]
      BY <1>1, <1>3
  <2>5. duration \in [Opt!Subjects -> {"fast", "slow"}] /\ recorder \in [Recorders -> Opt!Recordings \cup {Opt!Idle}]
      BY <1>1
  <2> QED
      BY <2>1, <2>2, <2>3, <2>4, <2>5 DEF OptTyped
<1>6. \A s \in Opt!Subjects : MeanOf(s)
    BY <1>1, <1>2, <1>3 DEF MeanOf
<1>7. \A l \in 1..MaxRounds : UrgentSeq(rounds[l].todo)
    BY <1>1 DEF UrgentSeq
<1> QED
    BY <1>1, <1>2, <1>5, <1>6, <1>7 DEF OptInv

LEMMA OptIsTrue == OptInv => Opt!TypeOK /\ Opt!RatesAreMeans /\ Opt!UrgentFirst
<1> SUFFICES ASSUME OptInv PROVE Opt!TypeOK /\ Opt!RatesAreMeans /\ Opt!UrgentFirst
    OBVIOUS
<1>0. OptTyped /\ Opt!Subjects = {"agent", "workflow"} /\ MaxRecords \in Nat
    BY OptConstants DEF OptInv, Opt!Subjects
<1>1. Opt!TypeOK
  <2>1. /\ \A s \in Opt!Subjects : count[s] \in Nat /\ wins[s] \in Nat /\ wins[s] <= count[s]
        /\ count["agent"] + count["workflow"] <= MaxRecords
      BY <1>0 DEF OptTyped
  <2>2. \A s \in Opt!Subjects : count[s] \in 0..MaxRecords /\ wins[s] \in 0..MaxRecords
      BY <1>0, <2>1
  <2>3. count \in [Opt!Subjects -> 0..MaxRecords] /\ wins \in [Opt!Subjects -> 0..MaxRecords]
      BY <1>0, <2>2 DEF OptTyped
  <2>4. \A l \in 1..MaxRounds :
            /\ rounds[l].at \in {"off", "test", "generate", "apply", "sleep", "end"}
            /\ rounds[l].todo \in Seq(Opt!Types) /\ Len(rounds[l].todo) <= Top
    <3>1. \A l \in 1..MaxRounds : rounds[l] \in RoundType
        BY <1>0 DEF OptTyped
    <3> QED
        BY <3>1, RoundParts DEF RoundPlaces
  <2> QED
      BY <1>0, <2>3, <2>4 DEF Opt!TypeOK, OptTyped
<1>2. Opt!RatesAreMeans
  <2> SUFFICES ASSUME \A t \in Recorders : recorder[t] = Opt!Idle, ~mixed, NEW s \in Opt!Subjects
               PROVE  rate[s] * count[s] = wins[s] * Units
      BY DEF Opt!RatesAreMeans
  <2>1. \A t \in Recorders : recorder[t].subject # s
      BY <1>0, RecorderTyped
  <2> QED
      BY <2>1 DEF OptInv, MeanOf
<1>3. Opt!UrgentFirst
    BY DEF OptInv, UrgentSeq, Opt!UrgentFirst
<1> QED
    BY <1>1, <1>2, <1>3
=============================================================================
