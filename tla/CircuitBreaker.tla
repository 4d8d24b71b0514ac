--------------------------- MODULE CircuitBreaker ---------------------------
(***************************************************************************)
(* The outbound circuit breaker, src/msgate/queue/circuit_breaker.py.      *)
(* Every method runs under one lock, so each is one atomic step.  Time is  *)
(* relative: `age' is the number of ticks since the breaker last opened,   *)
(* counted up to Cooldown, beyond which the code sees no difference.       *)
(***************************************************************************)
EXTENDS Integers

CONSTANTS
    Threshold,  \* failure_threshold: failures that open the breaker
    Cooldown    \* cooldown_seconds, in ticks

ASSUME CircuitAssumption ==
    /\ Threshold \in Nat \ {0}
    /\ Cooldown \in Nat \ {0}

VARIABLES
    failures,   \* _failures, saturated at Threshold (it is only compared with it)
    circuit,    \* _state
    age         \* now - _opened_at while open, saturated at Cooldown

circuitVars == <<failures, circuit, age>>

CircuitStates == {"closed", "open", "half_open"}

CircuitTypeOK ==
    /\ failures \in 0..Threshold
    /\ circuit \in CircuitStates
    /\ age \in 0..Cooldown

CircuitInit ==
    /\ failures = 0
    /\ circuit = "closed"
    /\ age = 0

(* Mutated Settled: the cooldown is never noticed. *)
SettledNever == circuit

(* What _maybe_half_open_unlocked leaves in _state. *)
Settled ==
    IF circuit = "open" /\ age >= Cooldown THEN "half_open" ELSE circuit

(* The `state' property: reading it may move the breaker to half-open. *)
ReadState ==
    /\ circuit' = Settled
    /\ UNCHANGED <<failures, age>>

(* Mutated Allow: the state is read and not tested. *)
AllowEveryone(admitted) ==
    /\ ReadState
    /\ admitted = TRUE

(* allow(): everyone is let through unless the breaker is open. *)
Allow(admitted) ==
    /\ ReadState
    /\ admitted = (Settled # "open")

(* Mutated RecordSuccess: the failures are kept. *)
RecordSuccessKeeping ==
    /\ UNCHANGED failures
    /\ circuit' = "closed"
    /\ age' = 0

RecordSuccess ==
    /\ failures' = 0
    /\ circuit' = "closed"
    /\ age' = 0

(* Mutated RecordFailure: opening the breaker starts a new count. *)
RecordFailureResetting ==
    IF failures + 1 >= Threshold
    THEN /\ failures' = 0
         /\ circuit' = "open"
         /\ age' = 0
    ELSE /\ failures' = failures + 1
         /\ UNCHANGED <<circuit, age>>

RecordFailure ==
    /\ failures' = IF failures < Threshold THEN failures + 1 ELSE failures
    /\ IF failures + 1 >= Threshold
       THEN /\ circuit' = "open"
            /\ age' = 0
       ELSE UNCHANGED <<circuit, age>>

(* Time passes: only an open breaker is waiting for something. *)
Elapse ==
    /\ age' = IF circuit = "open" /\ age < Cooldown THEN age + 1 ELSE age
    /\ UNCHANGED <<failures, circuit>>

-----------------------------------------------------------------------------
(* The breaker on its own: any thread calls any method at any time. *)
CircuitNext ==
    \/ ReadState
    \/ \E admitted \in BOOLEAN : Allow(admitted)
    \/ RecordSuccess
    \/ RecordFailure
    \/ Elapse

CircuitSpec == CircuitInit /\ [][CircuitNext]_circuitVars

(* The breaker is closed exactly while fewer than Threshold failures have  *)
(* been recorded since the last success: a half-open breaker still carries *)
(* the failures that opened it (record_failure never resets them).         *)
ClosedBelowThreshold == circuit = "closed" <=> failures < Threshold

(* One outcome ends the half-open phase: a success closes the breaker, a   *)
(* single failure opens it again for a whole cooldown, whatever the        *)
(* threshold, because record_failure counts on top of the failures that    *)
(* opened it.                                                              *)
HalfOpenDecides ==
    [][circuit = "half_open" =>
            \/ circuit' = "closed" /\ failures' = 0
            \/ circuit' = "open" /\ age' = 0]_circuitVars

=============================================================================
