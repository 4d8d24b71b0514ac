------------------------ MODULE CircuitBreakerProofs ------------------------
(* The breaker's properties for every threshold and every cooldown. *)
EXTENDS CircuitBreaker, TLAPS

USE CircuitAssumption

(* The types, the link between state and count, and what a half-open       *)
(* breaker remembers of its opening.                                       *)
CircuitInv == CircuitTypeOK /\ ClosedBelowThreshold

(* A breaker begins closed with no failures.                               *)
LEMMA CircuitInvInit == CircuitInit => CircuitInv
  BY DEF CircuitInit, CircuitInv, CircuitTypeOK, CircuitStates, ClosedBelowThreshold

(* No call of allow, state or the two record methods breaks the invariant. *)
LEMMA CircuitInvStep == CircuitInv /\ [CircuitNext]_circuitVars => CircuitInv'
<1> SUFFICES ASSUME CircuitInv, [CircuitNext]_circuitVars PROVE CircuitInv'
  OBVIOUS
<1> USE DEF CircuitInv, CircuitTypeOK, CircuitStates, ClosedBelowThreshold
<1>1. CASE ReadState \/ \E admitted \in BOOLEAN : Allow(admitted)
  BY <1>1 DEF Allow, ReadState, Settled
<1>2. CASE RecordSuccess
  BY <1>2 DEF RecordSuccess
<1>3. CASE RecordFailure
  BY <1>3 DEF RecordFailure
<1>4. CASE Elapse
  BY <1>4 DEF Elapse
<1>5. CASE UNCHANGED circuitVars
  BY <1>5 DEF circuitVars
<1>6. QED
  BY <1>1, <1>2, <1>3, <1>4, <1>5 DEF CircuitNext

(* Whatever calls the threads make, the breaker is closed exactly while    *)
(* the failures since the last success are below the threshold.            *)
THEOREM ClosedBelow == CircuitSpec => []ClosedBelowThreshold
<1>1. CircuitInv => ClosedBelowThreshold
  BY DEF CircuitInv
<1>2. QED
  BY <1>1, CircuitInvInit, CircuitInvStep, PTL DEF CircuitSpec

(* One outcome ends the half-open phase: it closes the breaker or opens it *)
(* for a whole cooldown.                                                   *)
THEOREM HalfOpenIsDecided == CircuitSpec => HalfOpenDecides
<1>1. ASSUME CircuitInv, CircuitNext, circuit = "half_open"
      PROVE  \/ circuit' = "closed" /\ failures' = 0
             \/ circuit' = "open" /\ age' = 0
             \/ UNCHANGED circuitVars
  <2> USE <1>1 DEF CircuitInv, CircuitTypeOK, ClosedBelowThreshold, circuitVars
  <2>1. CASE ReadState \/ \E admitted \in BOOLEAN : Allow(admitted)
    BY <2>1 DEF Allow, ReadState, Settled
  <2>2. CASE RecordSuccess
    BY <2>2 DEF RecordSuccess
  <2>3. CASE RecordFailure
    BY <2>3 DEF RecordFailure
  <2>4. CASE Elapse
    BY <2>4 DEF Elapse
  <2>5. QED
    BY <2>1, <2>2, <2>3, <2>4 DEF CircuitNext
<1>2. CircuitInv /\ [CircuitNext]_circuitVars
        => [circuit = "half_open" =>
                \/ circuit' = "closed" /\ failures' = 0
                \/ circuit' = "open" /\ age' = 0]_circuitVars
  BY <1>1
<1>3. QED
  BY <1>2, CircuitInvInit, CircuitInvStep, PTL DEF CircuitSpec, HalfOpenDecides

=============================================================================
