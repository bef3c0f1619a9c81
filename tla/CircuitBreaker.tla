--------------------------- MODULE CircuitBreaker ---------------------------
(***************************************************************************)
(* paper_trading/layers/layer2_risk/circuit_breaker.py: the three breakers *)
(* of TradingCircuitBreaker.  A breaker has no thread: time only shows when *)
(* somebody asks, and a status page asks exactly like an order does.       *)
(*                                                                         *)
(* Counters saturate at the threshold they are compared with and the time  *)
(* since opened_at saturates at the timeout; nothing else is observed of   *)
(* them.                                                                   *)
(***************************************************************************)
EXTENDS Integers

CONSTANTS
    Circuits,           \* the breakers: order, data and strategy
    Recorded,           \* those with record_*_failure and record_*_success
    FailureThreshold,   \* [Circuits -> Nat \ {0}]
    TimeoutDuration,    \* [Circuits -> Nat \ {0}], in ticks
    SuccessThreshold    \* config default, the same for all

ASSUME BreakerAssumption ==
    /\ Recorded \subseteq Circuits
    /\ FailureThreshold \in [Circuits -> Nat \ {0}]
    /\ TimeoutDuration \in [Circuits -> Nat \ {0}]
    /\ SuccessThreshold \in Nat \ {0}

VARIABLE circuit   \* [Circuits -> the attributes of a CircuitBreaker]

States == {"closed", "open", "half_open"}
Never == -1        \* opened_at is None

AtMost(n, bound) == IF n > bound THEN bound ELSE n

Closed == [state |-> "closed", failures |-> 0, successes |-> 0, age |-> Never,
           forced |-> FALSE, probed |-> 0]

\* _trip_circuit; "forced" and "probed" (successes since the circuit last became
\* half open) are history.
Trip(cb) == [cb EXCEPT !.state = "open", !.age = 0]

\* record_failure: in every state, the failures since the last reset count.
Fail(c, cb) ==
    LET failures == AtMost(cb.failures + 1, FailureThreshold[c])
        counted == [cb EXCEPT !.failures = failures]
    IN  IF failures >= FailureThreshold[c] THEN Trip(counted) ELSE counted

\* A variant of record_success that closes on the first good probe.
SucceedOnce(c, cb) == IF cb.state = "half_open" THEN Closed ELSE cb

\* record_success: closes a half-open circuit that has had enough of them.
Succeed(c, cb) ==
    LET successes == AtMost(cb.successes + 1, SuccessThreshold)
    IN  IF cb.state = "half_open" /\ successes >= SuccessThreshold
        THEN Closed
        ELSE [cb EXCEPT !.successes = successes,
                        !.probed = AtMost(@ + 1, SuccessThreshold)]

\* A variant of can_execute that forgets the failures.
AskForgiving(c, cb) ==
    IF cb.state = "open" /\ cb.age >= TimeoutDuration[c]
    THEN [cb EXCEPT !.state = "half_open", !.failures = 0, !.successes = 0, !.probed = 0]
    ELSE cb

\* A variant of can_execute that answers without attempting a reset.
AskOnly(c, cb) == cb

\* can_execute: an open circuit whose timeout has passed becomes half open.
Ask(c, cb) ==
    IF cb.state = "open" /\ cb.age >= TimeoutDuration[c]
    THEN [cb EXCEPT !.state = "half_open", !.successes = 0, !.probed = 0]
    ELSE cb

-----------------------------------------------------------------------------
RecordFailure(c) == circuit' = [circuit EXCEPT ![c] = Fail(c, @)]

RecordSuccess(c) == circuit' = [circuit EXCEPT ![c] = Succeed(c, @)]

CheckAllowed(c) == circuit' = [circuit EXCEPT ![c] = Ask(c, @)]

\* get_status reports can_execute of every circuit, and so asks them all.
GetStatus == circuit' = [c \in Circuits |-> Ask(c, circuit[c])]

ForceOpen == circuit' = [c \in Circuits |-> [Trip(circuit[c]) EXCEPT !.forced = TRUE]]

ForceClose == circuit' = [c \in Circuits |-> Closed]

Tick ==
    circuit' = [c \in Circuits |->
                  [circuit[c] EXCEPT !.age = IF @ = Never THEN @
                                             ELSE AtMost(@ + 1, TimeoutDuration[c])]]

Init == circuit = [c \in Circuits |-> Closed]

Next ==
    \/ \E c \in Recorded : RecordFailure(c) \/ RecordSuccess(c)
    \/ \E c \in Circuits : CheckAllowed(c)
    \/ GetStatus
    \/ ForceOpen
    \/ ForceClose
    \/ Tick

vars == circuit

Spec == Init /\ [][Next]_vars

\* Time passes, and every circuit is asked again and again by its users.
FairSpec == Spec /\ WF_vars(Tick) /\ \A c \in Circuits : WF_vars(CheckAllowed(c))

-----------------------------------------------------------------------------
(* Properties. *)

\* opened_at is known exactly while the circuit is not closed, and a half-open
\* circuit is still short of the successes that close it.
TypeOK ==
    /\ circuit \in [Circuits -> [state : States, failures : Nat, successes : Nat,
                                 age : Nat \cup {Never}, forced : BOOLEAN, probed : Nat]]
    /\ \A c \in Circuits :
          /\ circuit[c].age = Never <=> circuit[c].state = "closed"
          /\ circuit[c].state = "half_open" => circuit[c].successes < SuccessThreshold

\* A circuit that failures opened keeps their count while it is open or half
\* open, so that a single failed probe opens it again.
FailedProbeReopens ==
    \A c \in Circuits :
        circuit[c].state # "closed" /\ ~circuit[c].forced
        => circuit[c].failures = FailureThreshold[c]

\* A circuit closes by itself only after enough successes in one half-open spell.
\* (A forced close resets every circuit at once and is recognised by that.)
ClosesAfterProbes ==
    [][(\E c \in Circuits : circuit'[c] # Closed) =>
       \A c \in Circuits :
         circuit[c].state # "closed" /\ circuit'[c].state = "closed"
         => circuit[c].state = "half_open" /\ circuit[c].probed >= SuccessThreshold - 1]_vars

\* An outage ends: a circuit does not stay open for ever unless failures keep
\* being recorded (each one restarts the timeout) or it is forced open again.
OutageEnds ==
    \A c \in Circuits :
        \/ []<>(circuit[c].state # "open")
        \/ []<><<RecordFailure(c) \/ ForceOpen>>_vars
=============================================================================
