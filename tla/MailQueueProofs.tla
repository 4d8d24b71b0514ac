--------------------------- MODULE MailQueueProofs --------------------------
(* The safety of MailQueue for every number of workers, messages and API   *)
(* threads, and every value of the limits.                                 *)
EXTENDS MailQueue, CircuitBreakerProofs

USE CircuitAssumption, StoreAssumption, QueueAssumption

-----------------------------------------------------------------------------
(* backoff_seconds never exceeds its maximum, nor goes below zero. *)
LEMMA BackoffBounded == ASSUME NEW n PROVE Backoff(n) \in 0..BackoffCap
  BY DEF Backoff

(* The state MailQueue starts in satisfies the inductive invariant. *)
LEMMA InitEstablishes == Init => IInv
<1> SUFFICES ASSUME Init PROVE IInv
  OBVIOUS
<1>1. TypeOK
  <2>1. StoreTypeOK
    BY DEF Init, StoreInit, StoreTypeOK, Statuses
  <2>2. CircuitTypeOK
    BY DEF Init, CircuitInit, CircuitTypeOK, CircuitStates
  <2>3. ThreadTypeOK
    BY DEF Init, ThreadTypeOK, WorkerPCs, ProducerPCs
  <2>4. HistoryTypeOK
    BY DEF Init, HistoryTypeOK
  <2>5. QED
    BY <2>1, <2>2, <2>3, <2>4 DEF TypeOK
<1>2. RowKnown
  BY DEF Init, RowKnown
<1>3. ExclusiveClaim
  BY DEF Init, ExclusiveClaim, Holds, HoldingPCs, HandlingPCs
<1>4. AttemptsBounded
  BY DEF Init, StoreInit, AttemptsBounded
<1>5. CopiesTracked
  BY DEF Init, StoreInit, CopiesTracked, CopiesExplained, Holds, HoldingPCs,
     HandlingPCs, Doubts
<1>6. QED
  BY <1>1, <1>2, <1>3, <1>4, <1>5 DEF IInv

-----------------------------------------------------------------------------
(* CopiesTracked, for one row and for one worker. *)
CopiesOf(m) ==
    /\ copies[m] <= 1 + ambiguous[m] + undone[m]
    /\ undone[m] <= faults
    /\ status[m] = "sent" => copies[m] = 1 + ambiguous[m] + undone[m]
    /\ status[m] \in {"absent", "queued", "retrying", "failed"}
        => copies[m] = ambiguous[m] + undone[m]

CopiesInHand(w) ==
    Holds(w) =>
        /\ status[row[w]] = "processing" =>
            copies[row[w]] = ambiguous[row[w]] + undone[row[w]]
                                + (IF pc[w] = "confirmed" THEN 1 ELSE 0)
        /\ Doubts(w) => undone[row[w]] < faults

(* CopiesTracked is the two for every row and every worker ... *)
LEMMA CopiesSplit ==
    CopiesTracked <=> /\ \A m \in Messages : CopiesOf(m)
                      /\ \A w \in Workers : CopiesInHand(w)
  BY DEF CopiesTracked, CopiesExplained, CopiesOf, CopiesInHand, Doubts, Holds, HoldingPCs

(* ... in the next state too. *)
LEMMA CopiesSplitNext ==
    CopiesTracked' <=> /\ \A m \in Messages : CopiesOf(m)'
                       /\ \A w \in Workers : CopiesInHand(w)'
  BY DEF CopiesTracked, CopiesExplained, CopiesOf, CopiesInHand, Doubts, Holds, HoldingPCs

(* A step that changes no row, sends nothing and hands nothing over. *)
LEMMA CopiesKept ==
    ASSUME TypeOK, ExclusiveClaim, CopiesTracked,
           UNCHANGED <<status, copies, ambiguous, undone>>, faults' \in {faults, faults + 1},
           \A v \in Workers : Holds(v)' =>
              /\ Holds(v) /\ row'[v] = row[v]
              /\ pc'[v] = "confirmed" <=> pc[v] = "confirmed"
              /\ pc'[v] \in HandlingPCs => pc[v] \in HandlingPCs
    PROVE  CopiesTracked'
<1>1. \A m \in Messages : CopiesOf(m)'
  BY CopiesSplit DEF CopiesOf, TypeOK, HistoryTypeOK
<1>2. ASSUME NEW v \in Workers PROVE CopiesInHand(v)'
  <2>1. CASE ~Holds(v)'
    BY <2>1 DEF CopiesInHand
  <2>2. CASE Holds(v)'
    <3>1. /\ Holds(v) /\ row'[v] = row[v] /\ row[v] \in Messages
          /\ pc'[v] = "confirmed" <=> pc[v] = "confirmed"
          /\ Doubts(v)' => Doubts(v)
      BY <2>2 DEF ExclusiveClaim, Doubts
    <3>2. CopiesInHand(v)
      BY CopiesSplit
    <3>3. QED
      BY <3>1, <3>2 DEF CopiesInHand, TypeOK, HistoryTypeOK
  <2>3. QED
    BY <2>1, <2>2
<1>3. QED
  BY <1>1, <1>2, CopiesSplitNext

(* A step of worker w on row m, which no other worker holds. *)
LEMMA CopiesByRow ==
    ASSUME TypeOK, ExclusiveClaim, CopiesTracked, NEW w \in Workers, NEW m \in Messages,
           \A v \in Workers \ {w} : /\ pc'[v] = pc[v] /\ row'[v] = row[v]
                                    /\ Holds(v) => row[v] # m,
           \A k \in Messages \ {m} :
              /\ status'[k] = status[k] /\ copies'[k] = copies[k]
              /\ ambiguous'[k] = ambiguous[k] /\ undone'[k] = undone[k],
           faults' \in {faults, faults + 1},
           CopiesOf(m)', CopiesInHand(w)'
    PROVE  CopiesTracked'
<1>1. ASSUME NEW k \in Messages PROVE CopiesOf(k)'
  BY CopiesSplit DEF CopiesOf, TypeOK, HistoryTypeOK
<1>2. ASSUME NEW v \in Workers PROVE CopiesInHand(v)'
  <2>1. CASE v = w
    BY <2>1
  <2>2. CASE v # w /\ Holds(v)
    <3>1. /\ row[v] \in Messages \ {m} /\ row'[v] = row[v] /\ pc'[v] = pc[v]
          /\ CopiesInHand(v)
      BY <2>2, CopiesSplit DEF ExclusiveClaim
    <3>2. QED
      BY <2>2, <3>1 DEF CopiesInHand, Doubts, Holds, TypeOK, HistoryTypeOK
  <2>3. CASE v # w /\ ~Holds(v)
    BY <2>3 DEF CopiesInHand, Holds
  <2>4. QED
    BY <2>1, <2>2, <2>3
<1>3. QED
  BY <1>1, <1>2, CopiesSplitNext

-----------------------------------------------------------------------------
(* Every step of the queue preserves the inductive invariant: one step of  *)
(* the proof per action, and under it one per conjunct the action touches. *)
LEMMA StepPreserves == IInv /\ [Next]_vars => IInv'
<1> SUFFICES ASSUME IInv, [Next]_vars PROVE IInv'
  OBVIOUS
<1> USE DEF IInv, TypeOK, sendVars, HandlingPCs, Doubts
<1>1. ASSUME NEW w \in Workers, Admit(w)
      PROVE  IInv'
  <2>1. CircuitTypeOK'
    BY <1>1 DEF Admit, Allow, ReadState, Settled, circuitVars, CircuitTypeOK,
       CircuitStates
  <2>2. ThreadTypeOK'
    BY <1>1 DEF Admit, LeaveDrain, Allow, ReadState, Settled, workerVars,
       ThreadTypeOK, WorkerPCs, ProducerPCs
  <2>3. RowKnown'
    BY <1>1 DEF Admit, LeaveDrain, Allow, ReadState, Settled, workerVars,
       RowKnown, ThreadTypeOK
  <2>4. ExclusiveClaim'
    BY <1>1 DEF Admit, LeaveDrain, Allow, workerVars, storeVars,
       ExclusiveClaim, Holds, HoldingPCs, ThreadTypeOK, StoreTypeOK
  <2>5. CopiesTracked'
    BY <1>1, CopiesKept DEF Admit, LeaveDrain, workerVars, storeVars, historyVars,
       budgetVars, Holds, HoldingPCs, ThreadTypeOK
  <2>6. QED
    BY <1>1, <2>1, <2>2, <2>3, <2>4, <2>5 DEF Admit, storeVars, historyVars,
       budgetVars, StoreTypeOK, HistoryTypeOK, AttemptsBounded
<1>2. ASSUME NEW w \in Workers, Select(w)
      PROVE  IInv'
  <2>1. ThreadTypeOK'
    BY <1>2 DEF Select, LeaveDrain, OldestDue, Due, workerVars, ThreadTypeOK,
       WorkerPCs, ProducerPCs
  <2>2. RowKnown'
    BY <1>2 DEF Select, LeaveDrain, OldestDue, Due, workerVars, RowKnown,
       ThreadTypeOK
  <2>3. ExclusiveClaim'
    BY <1>2 DEF Select, LeaveDrain, workerVars, storeVars, ExclusiveClaim,
       Holds, HoldingPCs, ThreadTypeOK, StoreTypeOK
  <2>4. CopiesTracked'
    BY <1>2, CopiesKept DEF Select, LeaveDrain, storeVars, historyVars,
       budgetVars, Holds, HoldingPCs, ThreadTypeOK
  <2>5. QED
    BY <1>2, <2>1, <2>2, <2>3, <2>4 DEF Select, storeVars, circuitVars,
       historyVars, budgetVars, StoreTypeOK, CircuitTypeOK, HistoryTypeOK,
       AttemptsBounded
<1>3. ASSUME NEW w \in Workers, ClaimWon(w)
      PROVE  IInv'
  <2>1. StoreTypeOK'
    BY <1>3 DEF ClaimWon, ClaimUpdate, Pending, PendingStatuses, StoreTypeOK,
       Statuses, AttemptsBounded, RowKnown
  <2>2. ThreadTypeOK'
    BY <1>3 DEF ClaimWon, ClaimUpdate, ThreadTypeOK, WorkerPCs
  <2>3. HistoryTypeOK'
    BY <1>3 DEF ClaimWon, budgetVars, HistoryTypeOK, RowKnown, ThreadTypeOK
  <2>4. RowKnown'
    BY <1>3 DEF ClaimWon, PendingStatuses, workerVars, RowKnown
  <2>5. ExclusiveClaim'
    BY <1>3 DEF ClaimWon, ClaimUpdate, Pending, PendingStatuses,
       ExclusiveClaim, Holds, RowKnown, StoreTypeOK
  <2>6. AttemptsBounded'
    BY <1>3 DEF ClaimWon, ClaimUpdate, Pending, PendingStatuses,
       AttemptsBounded, StoreTypeOK
  <2>7. CopiesTracked'
    <3>1. PICK m \in Messages : m = row[w]
      BY <1>3 DEF ClaimWon, ClaimUpdate, ExclusiveClaim, Holds, HoldingPCs, RowKnown
    <3>2. \A v \in Workers \ {w} : /\ pc'[v] = pc[v] /\ row'[v] = row[v]
                                   /\ Holds(v) => row[v] # m
      BY <1>3, <3>1 DEF ClaimWon, ClaimUpdate, ExclusiveClaim, Holds, HoldingPCs, ThreadTypeOK,
         Pending, PendingStatuses, workerVars
    <3>3. \A k \in Messages \ {m} :
             /\ status'[k] = status[k] /\ copies'[k] = copies[k]
             /\ ambiguous'[k] = ambiguous[k] /\ undone'[k] = undone[k]
      BY <1>3, <3>1 DEF ClaimWon, ClaimUpdate, storeVars, historyVars, StoreTypeOK, HistoryTypeOK
    <3>4. CopiesOf(m) /\ CopiesInHand(w)
      BY CopiesSplit
    <3>5. CopiesOf(m)' /\ CopiesInHand(w)'
      BY <1>3, <3>1, <3>4 DEF ClaimWon, ClaimUpdate, CopiesOf, CopiesInHand, ExclusiveClaim,
         Holds, HoldingPCs, Pending, PendingStatuses, storeVars, historyVars,
         budgetVars, workerVars, StoreTypeOK, ThreadTypeOK, HistoryTypeOK
    <3>6. QED
      BY <1>3, <3>2, <3>3, <3>5, CopiesByRow DEF ClaimWon, ClaimUpdate, historyVars, budgetVars
  <2>8. QED
    BY <1>3, <2>1, <2>2, <2>3, <2>4, <2>5, <2>6, <2>7 DEF ClaimWon,
       circuitVars, CircuitTypeOK
<1>4. ASSUME NEW w \in Workers, ClaimLost(w)
      PROVE  IInv'
  <2>1. ThreadTypeOK'
    BY <1>4 DEF ClaimLost, LeaveDrain, workerVars, ThreadTypeOK, WorkerPCs,
       ProducerPCs
  <2>2. RowKnown'
    BY <1>4 DEF ClaimLost, LeaveDrain, workerVars, RowKnown, ThreadTypeOK
  <2>3. ExclusiveClaim'
    BY <1>4 DEF ClaimLost, LeaveDrain, workerVars, storeVars, ExclusiveClaim,
       Holds, HoldingPCs, ThreadTypeOK, StoreTypeOK
  <2>4. CopiesTracked'
    BY <1>4, CopiesKept DEF ClaimLost, LeaveDrain, storeVars, historyVars,
       budgetVars, Holds, HoldingPCs, ThreadTypeOK
  <2>5. QED
    BY <1>4, <2>1, <2>2, <2>3, <2>4 DEF ClaimLost, storeVars, circuitVars,
       historyVars, budgetVars, StoreTypeOK, CircuitTypeOK, HistoryTypeOK,
       AttemptsBounded
<1>5. ASSUME NEW w \in Workers, NotConfigured(w)
      PROVE  IInv'
  <2>1. StoreTypeOK'
    BY <1>5 DEF NotConfigured, Step, MarkFailed, StoreTypeOK, Statuses,
       ExclusiveClaim, Holds, HoldingPCs
  <2>2. ThreadTypeOK'
    BY <1>5 DEF NotConfigured, Step, MarkFailed, workerVars, ThreadTypeOK,
       WorkerPCs
  <2>3. RowKnown'
    BY <1>5 DEF NotConfigured, Step, RowKnown, ExclusiveClaim, Holds,
       HoldingPCs, AttemptsBounded, ThreadTypeOK
  <2>4. ExclusiveClaim'
    BY <1>5 DEF NotConfigured, Step, MarkFailed, ExclusiveClaim, Holds,
       HoldingPCs, AttemptsBounded, ThreadTypeOK
  <2>5. AttemptsBounded'
    BY <1>5 DEF NotConfigured, Step, MarkFailed, AttemptsBounded, StoreTypeOK,
       ExclusiveClaim, RowKnown
  <2>6. CopiesTracked'
    <3>1. PICK m \in Messages : m = row[w]
      BY <1>5 DEF NotConfigured, Step, MarkFailed, ExclusiveClaim, Holds, HoldingPCs, RowKnown
    <3>2. \A v \in Workers \ {w} : /\ pc'[v] = pc[v] /\ row'[v] = row[v]
                                   /\ Holds(v) => row[v] # m
      BY <1>5, <3>1 DEF NotConfigured, Step, MarkFailed, ExclusiveClaim, Holds, HoldingPCs, ThreadTypeOK,
         Pending, PendingStatuses, workerVars
    <3>3. \A k \in Messages \ {m} :
             /\ status'[k] = status[k] /\ copies'[k] = copies[k]
             /\ ambiguous'[k] = ambiguous[k] /\ undone'[k] = undone[k]
      BY <1>5, <3>1 DEF NotConfigured, Step, MarkFailed, storeVars, historyVars, StoreTypeOK, HistoryTypeOK
    <3>4. CopiesOf(m) /\ CopiesInHand(w)
      BY CopiesSplit
    <3>5. CopiesOf(m)' /\ CopiesInHand(w)'
      BY <1>5, <3>1, <3>4 DEF NotConfigured, Step, MarkFailed, CopiesOf, CopiesInHand, ExclusiveClaim,
         Holds, HoldingPCs, Pending, PendingStatuses, storeVars, historyVars,
         budgetVars, workerVars, StoreTypeOK, ThreadTypeOK, HistoryTypeOK
    <3>6. QED
      BY <1>5, <3>2, <3>3, <3>5, CopiesByRow DEF NotConfigured, Step, MarkFailed, historyVars, budgetVars
  <2>7. QED
    BY <1>5, <2>1, <2>2, <2>3, <2>4, <2>5, <2>6 DEF NotConfigured, circuitVars,
       historyVars, budgetVars, CircuitTypeOK, HistoryTypeOK
<1>6. ASSUME NEW w \in Workers, StartSend(w)
      PROVE  IInv'
  <2>1. ThreadTypeOK'
    BY <1>6 DEF StartSend, Step, ThreadTypeOK, WorkerPCs
  <2>2. RowKnown'
    BY <1>6 DEF StartSend, Step, workerVars, RowKnown
  <2>3. ExclusiveClaim'
    BY <1>6 DEF StartSend, Step, storeVars, ExclusiveClaim, Holds, HoldingPCs,
       ThreadTypeOK
  <2>4. CopiesTracked'
    BY <1>6, CopiesKept DEF StartSend, Step, storeVars, historyVars,
       budgetVars, Holds, HoldingPCs, ThreadTypeOK
  <2>5. QED
    BY <1>6, <2>1, <2>2, <2>3, <2>4 DEF StartSend, storeVars, circuitVars,
       historyVars, budgetVars, StoreTypeOK, CircuitTypeOK, HistoryTypeOK,
       AttemptsBounded
<1>7. ASSUME NEW w \in Workers, SendOk(w)
      PROVE  IInv'
  <2>1. ThreadTypeOK'
    BY <1>7 DEF SendOk, Step, ThreadTypeOK, WorkerPCs
  <2>2. HistoryTypeOK'
    BY <1>7 DEF SendOk, Step, budgetVars, HistoryTypeOK, ExclusiveClaim, Holds,
       HoldingPCs
  <2>3. RowKnown'
    BY <1>7 DEF SendOk, Step, workerVars, RowKnown
  <2>4. ExclusiveClaim'
    BY <1>7 DEF SendOk, Step, storeVars, ExclusiveClaim, Holds, HoldingPCs,
       ThreadTypeOK
  <2>5. CopiesTracked'
    <3>1. PICK m \in Messages : m = row[w]
      BY <1>7 DEF SendOk, Step, ExclusiveClaim, Holds, HoldingPCs, RowKnown
    <3>2. \A v \in Workers \ {w} : /\ pc'[v] = pc[v] /\ row'[v] = row[v]
                                   /\ Holds(v) => row[v] # m
      BY <1>7, <3>1 DEF SendOk, Step, ExclusiveClaim, Holds, HoldingPCs, ThreadTypeOK,
         Pending, PendingStatuses, workerVars
    <3>3. \A k \in Messages \ {m} :
             /\ status'[k] = status[k] /\ copies'[k] = copies[k]
             /\ ambiguous'[k] = ambiguous[k] /\ undone'[k] = undone[k]
      BY <1>7, <3>1 DEF SendOk, Step, storeVars, historyVars, StoreTypeOK, HistoryTypeOK
    <3>4. CopiesOf(m) /\ CopiesInHand(w)
      BY CopiesSplit
    <3>5. CopiesOf(m)' /\ CopiesInHand(w)'
      BY <1>7, <3>1, <3>4 DEF SendOk, Step, CopiesOf, CopiesInHand, ExclusiveClaim,
         Holds, HoldingPCs, Pending, PendingStatuses, storeVars, historyVars,
         budgetVars, workerVars, StoreTypeOK, ThreadTypeOK, HistoryTypeOK
    <3>6. QED
      BY <1>7, <3>2, <3>3, <3>5, CopiesByRow DEF SendOk, Step, historyVars, budgetVars
  <2>6. QED
    BY <1>7, <2>1, <2>2, <2>3, <2>4, <2>5 DEF SendOk, storeVars, circuitVars,
       StoreTypeOK, CircuitTypeOK, AttemptsBounded
<1>8. ASSUME NEW w \in Workers, NEW kind \in {"retriable", "permanent"}, SendRaises(w, kind)
      PROVE  IInv'
  <2>1. ThreadTypeOK'
    BY <1>8 DEF SendRaises, Step, ThreadTypeOK, WorkerPCs
  <2>2. HistoryTypeOK'
    BY <1>8 DEF SendRaises, budgetVars, HistoryTypeOK, Holds, HoldingPCs
  <2>3. RowKnown'
    BY <1>8 DEF SendRaises, Step, RowKnown
  <2>4. ExclusiveClaim'
    BY <1>8 DEF SendRaises, Step, storeVars, ExclusiveClaim, Holds, HoldingPCs,
       ThreadTypeOK
  <2>5. CopiesTracked'
    <3>1. PICK m \in Messages : m = row[w]
      BY <1>8 DEF SendRaises, Step, ExclusiveClaim, Holds, HoldingPCs, RowKnown
    <3>2. \A v \in Workers \ {w} : /\ pc'[v] = pc[v] /\ row'[v] = row[v]
                                   /\ Holds(v) => row[v] # m
      BY <1>8, <3>1 DEF SendRaises, Step, ExclusiveClaim, Holds, HoldingPCs, ThreadTypeOK,
         Pending, PendingStatuses, workerVars
    <3>3. \A k \in Messages \ {m} :
             /\ status'[k] = status[k] /\ copies'[k] = copies[k]
             /\ ambiguous'[k] = ambiguous[k] /\ undone'[k] = undone[k]
      BY <1>8, <3>1 DEF SendRaises, Step, storeVars, historyVars, StoreTypeOK, HistoryTypeOK
    <3>4. CopiesOf(m) /\ CopiesInHand(w)
      BY CopiesSplit
    <3>5. CopiesOf(m)' /\ CopiesInHand(w)'
      BY <1>8, <3>1, <3>4 DEF SendRaises, Step, CopiesOf, CopiesInHand, ExclusiveClaim,
         Holds, HoldingPCs, Pending, PendingStatuses, storeVars, historyVars,
         budgetVars, workerVars, StoreTypeOK, ThreadTypeOK, HistoryTypeOK
    <3>6. QED
      BY <1>8, <3>2, <3>3, <3>5, CopiesByRow DEF SendRaises, Step, historyVars, budgetVars
  <2>6. QED
    BY <1>8, <2>1, <2>2, <2>3, <2>4, <2>5 DEF SendRaises, storeVars,
       circuitVars, StoreTypeOK, CircuitTypeOK, AttemptsBounded
<1>9. ASSUME NEW w \in Workers, RecordSent(w)
      PROVE  IInv'
  <2>1. StoreTypeOK'
    BY <1>9 DEF RecordSent, Step, MarkSent, StoreTypeOK, Statuses,
       ExclusiveClaim, Holds, HoldingPCs
  <2>2. ThreadTypeOK'
    BY <1>9 DEF RecordSent, Step, MarkSent, workerVars, ThreadTypeOK, WorkerPCs
  <2>3. RowKnown'
    BY <1>9 DEF RecordSent, Step, RowKnown, ExclusiveClaim, Holds, HoldingPCs,
       AttemptsBounded, ThreadTypeOK
  <2>4. ExclusiveClaim'
    BY <1>9 DEF RecordSent, Step, MarkSent, ExclusiveClaim, Holds, HoldingPCs,
       StoreTypeOK, ThreadTypeOK
  <2>5. AttemptsBounded'
    BY <1>9 DEF RecordSent, Step, MarkSent, AttemptsBounded, StoreTypeOK,
       ExclusiveClaim, Holds, HoldingPCs
  <2>6. CopiesTracked'
    <3>1. PICK m \in Messages : m = row[w]
      BY <1>9 DEF RecordSent, Step, MarkSent, ExclusiveClaim, Holds, HoldingPCs, RowKnown
    <3>2. \A v \in Workers \ {w} : /\ pc'[v] = pc[v] /\ row'[v] = row[v]
                                   /\ Holds(v) => row[v] # m
      BY <1>9, <3>1 DEF RecordSent, Step, MarkSent, ExclusiveClaim, Holds, HoldingPCs, ThreadTypeOK,
         Pending, PendingStatuses, workerVars
    <3>3. \A k \in Messages \ {m} :
             /\ status'[k] = status[k] /\ copies'[k] = copies[k]
             /\ ambiguous'[k] = ambiguous[k] /\ undone'[k] = undone[k]
      BY <1>9, <3>1 DEF RecordSent, Step, MarkSent, storeVars, historyVars, StoreTypeOK, HistoryTypeOK
    <3>4. CopiesOf(m) /\ CopiesInHand(w)
      BY CopiesSplit
    <3>5. CopiesOf(m)' /\ CopiesInHand(w)'
      BY <1>9, <3>1, <3>4 DEF RecordSent, Step, MarkSent, CopiesOf, CopiesInHand, ExclusiveClaim,
         Holds, HoldingPCs, Pending, PendingStatuses, storeVars, historyVars,
         budgetVars, workerVars, StoreTypeOK, ThreadTypeOK, HistoryTypeOK
    <3>6. QED
      BY <1>9, <3>2, <3>3, <3>5, CopiesByRow DEF RecordSent, Step, MarkSent, historyVars, budgetVars
  <2>7. QED
    BY <1>9, <2>1, <2>2, <2>3, <2>4, <2>5, <2>6 DEF RecordSent, Step,
       circuitVars, historyVars, budgetVars, CircuitTypeOK, HistoryTypeOK
<1>10. ASSUME NEW w \in Workers, RecordRetry(w)
      PROVE  IInv'
  <2>1. StoreTypeOK'
    BY <1>10, BackoffBounded DEF RecordRetry, Step, MarkRetry, StoreTypeOK,
       Statuses, ExclusiveClaim, Holds, HoldingPCs
  <2>2. ThreadTypeOK'
    BY <1>10 DEF RecordRetry, Step, MarkRetry, workerVars, ThreadTypeOK,
       WorkerPCs
  <2>3. RowKnown'
    BY <1>10 DEF RecordRetry, Step, workerVars, RowKnown, ExclusiveClaim,
       Holds, HoldingPCs, AttemptsBounded, ThreadTypeOK, StoreTypeOK
  <2>4. ExclusiveClaim'
    BY <1>10 DEF RecordRetry, Step, MarkRetry, ExclusiveClaim, Holds,
       HoldingPCs, AttemptsBounded, ThreadTypeOK, StoreTypeOK
  <2>5. AttemptsBounded'
    BY <1>10 DEF RecordRetry, Step, MarkRetry, AttemptsBounded, StoreTypeOK,
       ExclusiveClaim, Holds, HoldingPCs, RowKnown
  <2>6. CopiesTracked'
    <3>1. PICK m \in Messages : m = row[w]
      BY <1>10 DEF RecordRetry, Step, MarkRetry, NoteUndone, ExclusiveClaim, Holds, HoldingPCs, RowKnown
    <3>2. \A v \in Workers \ {w} : /\ pc'[v] = pc[v] /\ row'[v] = row[v]
                                   /\ Holds(v) => row[v] # m
      BY <1>10, <3>1 DEF RecordRetry, Step, MarkRetry, NoteUndone, ExclusiveClaim, Holds, HoldingPCs, ThreadTypeOK,
         Pending, PendingStatuses, workerVars
    <3>3. \A k \in Messages \ {m} :
             /\ status'[k] = status[k] /\ copies'[k] = copies[k]
             /\ ambiguous'[k] = ambiguous[k] /\ undone'[k] = undone[k]
      BY <1>10, <3>1 DEF RecordRetry, Step, MarkRetry, NoteUndone, storeVars, historyVars, StoreTypeOK, HistoryTypeOK
    <3>4. CopiesOf(m) /\ CopiesInHand(w)
      BY CopiesSplit
    <3>5. CopiesOf(m)' /\ CopiesInHand(w)'
      BY <1>10, <3>1, <3>4 DEF RecordRetry, Step, MarkRetry, NoteUndone, CopiesOf, CopiesInHand, ExclusiveClaim,
         Holds, HoldingPCs, Pending, PendingStatuses, storeVars, historyVars,
         budgetVars, workerVars, StoreTypeOK, ThreadTypeOK, HistoryTypeOK
    <3>6. QED
      BY <1>10, <3>2, <3>3, <3>5, CopiesByRow DEF RecordRetry, Step, MarkRetry, NoteUndone, historyVars, budgetVars
  <2>8. HistoryTypeOK'
    BY <1>10 DEF RecordRetry, Step, NoteUndone, budgetVars, HistoryTypeOK,
       ExclusiveClaim, Holds, HoldingPCs
  <2>9. QED
    BY <1>10, <2>1, <2>2, <2>3, <2>4, <2>5, <2>6, <2>8 DEF RecordRetry, MarkRetry,
       circuitVars, budgetVars, CircuitTypeOK
<1>11. ASSUME NEW w \in Workers, RecordFailed(w)
      PROVE  IInv'
  <2>1. StoreTypeOK'
    BY <1>11 DEF RecordFailed, Step, MarkFailed, storeVars, StoreTypeOK,
       Statuses, ExclusiveClaim, Holds, HoldingPCs
  <2>2. ThreadTypeOK'
    BY <1>11 DEF RecordFailed, Step, MarkFailed, workerVars, ThreadTypeOK,
       WorkerPCs
  <2>3. RowKnown'
    BY <1>11 DEF RecordFailed, Step, RowKnown, ExclusiveClaim, Holds,
       HoldingPCs, AttemptsBounded, ThreadTypeOK
  <2>4. ExclusiveClaim'
    BY <1>11 DEF RecordFailed, Step, MarkFailed, ExclusiveClaim, Holds,
       HoldingPCs, AttemptsBounded, ThreadTypeOK
  <2>5. AttemptsBounded'
    BY <1>11 DEF RecordFailed, Step, MarkFailed, AttemptsBounded, StoreTypeOK,
       ExclusiveClaim, RowKnown
  <2>6. CopiesTracked'
    <3>1. PICK m \in Messages : m = row[w]
      BY <1>11 DEF RecordFailed, Step, MarkFailed, NoteUndone, ExclusiveClaim, Holds, HoldingPCs, RowKnown
    <3>2. \A v \in Workers \ {w} : /\ pc'[v] = pc[v] /\ row'[v] = row[v]
                                   /\ Holds(v) => row[v] # m
      BY <1>11, <3>1 DEF RecordFailed, Step, MarkFailed, NoteUndone, ExclusiveClaim, Holds, HoldingPCs, ThreadTypeOK,
         Pending, PendingStatuses, workerVars
    <3>3. \A k \in Messages \ {m} :
             /\ status'[k] = status[k] /\ copies'[k] = copies[k]
             /\ ambiguous'[k] = ambiguous[k] /\ undone'[k] = undone[k]
      BY <1>11, <3>1 DEF RecordFailed, Step, MarkFailed, NoteUndone, storeVars, historyVars, StoreTypeOK, HistoryTypeOK
    <3>4. CopiesOf(m) /\ CopiesInHand(w)
      BY CopiesSplit
    <3>5. CopiesOf(m)' /\ CopiesInHand(w)'
      BY <1>11, <3>1, <3>4 DEF RecordFailed, Step, MarkFailed, NoteUndone, CopiesOf, CopiesInHand, ExclusiveClaim,
         Holds, HoldingPCs, Pending, PendingStatuses, storeVars, historyVars,
         budgetVars, workerVars, StoreTypeOK, ThreadTypeOK, HistoryTypeOK
    <3>6. QED
      BY <1>11, <3>2, <3>3, <3>5, CopiesByRow DEF RecordFailed, Step, MarkFailed, NoteUndone, historyVars, budgetVars
  <2>8. HistoryTypeOK'
    BY <1>11 DEF RecordFailed, Step, NoteUndone, budgetVars, HistoryTypeOK,
       ExclusiveClaim, Holds, HoldingPCs
  <2>9. QED
    BY <1>11, <2>1, <2>2, <2>3, <2>4, <2>5, <2>6, <2>8 DEF RecordFailed, circuitVars,
       budgetVars, CircuitTypeOK
<1>12. ASSUME NEW w \in Workers, Refresh(w)
      PROVE  IInv'
  <2>1. ThreadTypeOK'
    BY <1>12 DEF Refresh, ThreadTypeOK, WorkerPCs
  <2>2. RowKnown'
    BY <1>12 DEF Refresh, workerVars, RowKnown, ThreadTypeOK
  <2>3. ExclusiveClaim'
    BY <1>12 DEF Refresh, workerVars, storeVars, ExclusiveClaim, Holds,
       HoldingPCs, ThreadTypeOK, StoreTypeOK
  <2>4. CopiesTracked'
    BY <1>12, CopiesKept DEF Refresh, storeVars, historyVars,
       budgetVars, Holds, HoldingPCs, ThreadTypeOK
  <2>5. QED
    BY <1>12, <2>1, <2>2, <2>3, <2>4 DEF Refresh, storeVars, circuitVars,
       historyVars, budgetVars, StoreTypeOK, CircuitTypeOK, HistoryTypeOK,
       AttemptsBounded
<1>13. ASSUME NEW w \in Workers, TellSuccess(w)
      PROVE  IInv'
  <2>1. CircuitTypeOK'
    BY <1>13 DEF TellSuccess, RecordSuccess, circuitVars, CircuitTypeOK,
       CircuitStates
  <2>2. ThreadTypeOK'
    BY <1>13 DEF TellSuccess, Step, workerVars, ThreadTypeOK, WorkerPCs,
       ProducerPCs
  <2>3. HistoryTypeOK'
    BY <1>13 DEF TellSuccess, RecordSuccess, historyVars, budgetVars,
       HistoryTypeOK
  <2>4. RowKnown'
    BY <1>13 DEF TellSuccess, Step, workerVars, RowKnown, ThreadTypeOK
  <2>5. ExclusiveClaim'
    BY <1>13 DEF TellSuccess, Step, workerVars, storeVars, ExclusiveClaim,
       Holds, HoldingPCs, ThreadTypeOK, StoreTypeOK
  <2>6. CopiesTracked'
    BY <1>13, CopiesKept DEF TellSuccess, Step, storeVars, historyVars,
       budgetVars, Holds, HoldingPCs, ThreadTypeOK
  <2>7. QED
    BY <1>13, <2>1, <2>2, <2>3, <2>4, <2>5, <2>6 DEF TellSuccess, storeVars,
       StoreTypeOK, AttemptsBounded
<1>14. ASSUME NEW w \in Workers, TellFailure(w)
      PROVE  IInv'
  <2>1. CircuitTypeOK'
    BY <1>14 DEF TellFailure, RecordFailure, circuitVars, CircuitTypeOK,
       CircuitStates
  <2>2. ThreadTypeOK'
    BY <1>14 DEF TellFailure, Step, Settled, workerVars, ThreadTypeOK,
       WorkerPCs, ProducerPCs
  <2>3. HistoryTypeOK'
    BY <1>14 DEF TellFailure, Settled, historyVars, budgetVars, HistoryTypeOK
  <2>4. RowKnown'
    BY <1>14 DEF TellFailure, Step, RecordFailure, Settled, workerVars,
       RowKnown, ThreadTypeOK
  <2>5. ExclusiveClaim'
    BY <1>14 DEF TellFailure, Step, Settled, workerVars, storeVars,
       ExclusiveClaim, Holds, HoldingPCs, ThreadTypeOK
  <2>6. CopiesTracked'
    BY <1>14, CopiesKept DEF TellFailure, Step, storeVars, historyVars,
       budgetVars, Holds, HoldingPCs, ThreadTypeOK
  <2>7. QED
    BY <1>14, <2>1, <2>2, <2>3, <2>4, <2>5, <2>6 DEF TellFailure, storeVars,
       StoreTypeOK, AttemptsBounded
<1>15. ASSUME NEW w \in Workers, StartWait(w)
      PROVE  IInv'
  <2>1. ThreadTypeOK'
    BY <1>15 DEF StartWait, workerVars, ThreadTypeOK, WorkerPCs
  <2>2. RowKnown'
    BY <1>15 DEF StartWait, workerVars, RowKnown
  <2>3. ExclusiveClaim'
    BY <1>15 DEF StartWait, workerVars, storeVars, ExclusiveClaim, Holds,
       HoldingPCs, ThreadTypeOK
  <2>4. CopiesTracked'
    BY <1>15, CopiesKept DEF StartWait, storeVars, historyVars,
       budgetVars, Holds, HoldingPCs, ThreadTypeOK
  <2>5. QED
    BY <1>15, <2>1, <2>2, <2>3, <2>4 DEF StartWait, storeVars, circuitVars,
       historyVars, budgetVars, StoreTypeOK, CircuitTypeOK, HistoryTypeOK,
       AttemptsBounded
<1>16. ASSUME NEW w \in Workers, PollTimeout(w)
      PROVE  IInv'
  <2>1. ThreadTypeOK'
    BY <1>16 DEF PollTimeout, Step, ThreadTypeOK, WorkerPCs
  <2>2. RowKnown'
    BY <1>16 DEF PollTimeout, Step, workerVars, RowKnown
  <2>3. ExclusiveClaim'
    BY <1>16 DEF PollTimeout, Step, storeVars, ExclusiveClaim, Holds,
       HoldingPCs, ThreadTypeOK
  <2>4. CopiesTracked'
    BY <1>16, CopiesKept DEF PollTimeout, Step, storeVars, historyVars,
       budgetVars, Holds, HoldingPCs, ThreadTypeOK
  <2>5. QED
    BY <1>16, <2>1, <2>2, <2>3, <2>4 DEF PollTimeout, storeVars, circuitVars,
       historyVars, budgetVars, StoreTypeOK, CircuitTypeOK, HistoryTypeOK,
       AttemptsBounded
<1>17. ASSUME NEW w \in Workers, ClearWake(w)
      PROVE  IInv'
  <2>1. ThreadTypeOK'
    BY <1>17 DEF ClearWake, Step, workerVars, ThreadTypeOK, WorkerPCs,
       ProducerPCs
  <2>2. RowKnown'
    BY <1>17 DEF ClearWake, Step, workerVars, RowKnown, ThreadTypeOK
  <2>3. ExclusiveClaim'
    BY <1>17 DEF ClearWake, Step, storeVars, ExclusiveClaim, Holds, HoldingPCs,
       ThreadTypeOK
  <2>4. CopiesTracked'
    BY <1>17, CopiesKept DEF ClearWake, Step, storeVars, historyVars,
       budgetVars, Holds, HoldingPCs, ThreadTypeOK
  <2>5. QED
    BY <1>17, <2>1, <2>2, <2>3, <2>4 DEF ClearWake, storeVars, circuitVars,
       historyVars, budgetVars, StoreTypeOK, CircuitTypeOK, HistoryTypeOK,
       AttemptsBounded
<1>18. ASSUME NEW w \in Workers, Escape(w)
      PROVE  IInv'
  <2>1. ThreadTypeOK'
    BY <1>18 DEF Escape, ThreadTypeOK, WorkerPCs
  <2>2. HistoryTypeOK'
    BY <1>18 DEF Escape, historyVars, budgetVars, HistoryTypeOK
  <2>3. RowKnown'
    BY <1>18 DEF Escape, workerVars, RowKnown, ThreadTypeOK
  <2>4. ExclusiveClaim'
    BY <1>18 DEF Escape, HoldingPCs, workerVars, storeVars, ExclusiveClaim,
       Holds, ThreadTypeOK, StoreTypeOK
  <2>5. CopiesTracked'
    BY <1>18, CopiesKept DEF Escape, storeVars, historyVars,
       budgetVars, Holds, HoldingPCs, ThreadTypeOK
  <2>6. QED
    BY <1>18, <2>1, <2>2, <2>3, <2>4, <2>5 DEF Escape, storeVars, circuitVars,
       StoreTypeOK, CircuitTypeOK, AttemptsBounded
<1>19. ASSUME SmtpReadCircuit
      PROVE  IInv'
  <2>1. CircuitTypeOK'
    BY <1>19 DEF SmtpReadCircuit, ReadState, Settled, circuitVars,
       CircuitTypeOK, CircuitStates
  <2>2. ThreadTypeOK'
    BY <1>19 DEF SmtpReadCircuit, ReadState, Goto, Settled, workerVars,
       ThreadTypeOK, WorkerPCs, ProducerPCs
  <2>3. QED
    BY <1>19, <2>1, <2>2 DEF SmtpReadCircuit, storeVars, historyVars,
       budgetVars, workerVars, StoreTypeOK, HistoryTypeOK, RowKnown,
       ExclusiveClaim, Holds, AttemptsBounded, CopiesTracked, CopiesExplained
<1>20. ASSUME SmtpCount
      PROVE  IInv'
  <2>1. ThreadTypeOK'
    BY <1>20 DEF SmtpCount, Goto, workerVars, ThreadTypeOK, WorkerPCs,
       ProducerPCs
  <2>2. QED
    BY <1>20, <2>1 DEF SmtpCount, storeVars, circuitVars, historyVars,
       budgetVars, workerVars, StoreTypeOK, CircuitTypeOK, HistoryTypeOK,
       RowKnown, ExclusiveClaim, Holds, AttemptsBounded, CopiesTracked,
       CopiesExplained
<1>21. ASSUME NEW p \in Producers, AcceptInsert(p)
      PROVE  IInv'
  <2>1. StoreTypeOK'
    BY <1>21 DEF AcceptInsert, Insert, storeVars, StoreTypeOK, Statuses
  <2>2. ThreadTypeOK'
    BY <1>21 DEF AcceptInsert, Goto, workerVars, ThreadTypeOK, WorkerPCs,
       ProducerPCs
  <2>3. ExclusiveClaim'
    BY <1>21 DEF AcceptInsert, Insert, workerVars, historyVars, ExclusiveClaim,
       Holds, HoldingPCs, StoreTypeOK
  <2>4. AttemptsBounded'
    BY <1>21 DEF AcceptInsert, Goto, Insert, AttemptsBounded
  <2>5. CopiesTracked'
    <3>1. PICK m \in Messages : Insert(m)
      BY <1>21 DEF AcceptInsert
    <3>2. \A k \in Messages : CopiesOf(k)'
      BY <1>21, <3>1, CopiesSplit DEF AcceptInsert, Insert, CopiesOf, historyVars,
         budgetVars, StoreTypeOK
    <3>3. ASSUME NEW v \in Workers PROVE CopiesInHand(v)'
      <4>1. Holds(v) => row[v] # m
        BY <3>1 DEF Insert, ExclusiveClaim
      <4>2. QED
        BY <1>21, <3>1, <4>1, CopiesSplit DEF AcceptInsert, Insert, CopiesInHand,
           Holds, ExclusiveClaim, historyVars, budgetVars, workerVars, StoreTypeOK
    <3>4. QED
      BY <3>2, <3>3, CopiesSplitNext
  <2>6. QED
    BY <1>21, <2>1, <2>2, <2>3, <2>4, <2>5 DEF AcceptInsert, Goto, Insert,
       circuitVars, historyVars, budgetVars, workerVars, CircuitTypeOK,
       HistoryTypeOK, RowKnown
<1>22. ASSUME NEW p \in Producers, AcceptWake(p)
      PROVE  IInv'
  <2>1. ThreadTypeOK'
    BY <1>22 DEF AcceptWake, Goto, SetWake, workerVars, ThreadTypeOK,
       WorkerPCs, ProducerPCs
  <2>2. RowKnown'
    BY <1>22 DEF AcceptWake, Goto, SetWake, workerVars, RowKnown, ThreadTypeOK
  <2>3. ExclusiveClaim'
    BY <1>22 DEF AcceptWake, SetWake, storeVars, ExclusiveClaim, Holds,
       HoldingPCs, ThreadTypeOK
  <2>4. CopiesTracked'
    BY <1>22, CopiesKept DEF AcceptWake, SetWake, storeVars, historyVars,
       budgetVars, Holds, HoldingPCs, ThreadTypeOK
  <2>5. QED
    BY <1>22, <2>1, <2>2, <2>3, <2>4 DEF AcceptWake, Goto, storeVars,
       circuitVars, historyVars, budgetVars, StoreTypeOK, CircuitTypeOK,
       HistoryTypeOK, AttemptsBounded
<1>23. ASSUME ObserveCircuit
      PROVE  IInv'
  <2>1. CircuitTypeOK'
    BY <1>23 DEF ObserveCircuit, ReadState, Settled, circuitVars,
       CircuitTypeOK, CircuitStates
  <2>2. QED
    BY <1>23, <2>1 DEF ObserveCircuit, storeVars, workerVars, historyVars,
       budgetVars, StoreTypeOK, ThreadTypeOK, HistoryTypeOK, RowKnown,
       ExclusiveClaim, Holds, AttemptsBounded, CopiesTracked, CopiesExplained
<1>24. ASSUME Tick
      PROVE  IInv'
  <2>1. StoreTypeOK'
    BY <1>24 DEF Tick, StoreElapse, StoreTypeOK
  <2>2. CircuitTypeOK'
    BY <1>24 DEF Tick, StoreElapse, Elapse, CircuitTypeOK
  <2>3. ExclusiveClaim'
    BY <1>24 DEF Tick, StoreElapse, workerVars, ExclusiveClaim, Holds,
       ThreadTypeOK
  <2>4. AttemptsBounded'
    BY <1>24 DEF Tick, StoreElapse, Elapse, AttemptsBounded
  <2>5. CopiesTracked'
    BY <1>24, CopiesKept DEF Tick, StoreElapse, workerVars, storeVars, historyVars,
       budgetVars, Holds, HoldingPCs, ThreadTypeOK
  <2>6. QED
    BY <1>24, <2>1, <2>2, <2>3, <2>4, <2>5 DEF Tick, StoreElapse, Elapse,
       workerVars, historyVars, budgetVars, ThreadTypeOK, HistoryTypeOK,
       RowKnown
<1>25. ASSUME Stop
      PROVE  IInv'
  <2>1. ThreadTypeOK'
    BY <1>25 DEF Stop, SetWake, ThreadTypeOK, WorkerPCs
  <2>2. RowKnown'
    BY <1>25 DEF Stop, SetWake, workerVars, RowKnown
  <2>3. ExclusiveClaim'
    BY <1>25 DEF Stop, SetWake, storeVars, ExclusiveClaim, Holds, HoldingPCs,
       ThreadTypeOK
  <2>4. CopiesTracked'
    BY <1>25, CopiesKept DEF Stop, SetWake, storeVars, historyVars,
       budgetVars, Holds, HoldingPCs, ThreadTypeOK
  <2>5. QED
    BY <1>25, <2>1, <2>2, <2>3, <2>4 DEF Stop, storeVars, circuitVars,
       historyVars, budgetVars, StoreTypeOK, CircuitTypeOK, HistoryTypeOK,
       AttemptsBounded
<1>26. ASSUME Crash
      PROVE  IInv'
  <2>1. CircuitTypeOK'
    BY <1>26 DEF Crash, circuitVars, CircuitTypeOK, CircuitStates
  <2>2. ThreadTypeOK'
    BY <1>26 DEF Crash, workerVars, ThreadTypeOK, WorkerPCs, ProducerPCs
  <2>3. HistoryTypeOK'
    BY <1>26 DEF Crash, historyVars, budgetVars, HistoryTypeOK
  <2>4. RowKnown'
    BY <1>26 DEF Crash, workerVars, RowKnown, ThreadTypeOK
  <2>5. ExclusiveClaim'
    BY <1>26 DEF Crash, ExclusiveClaim, Holds, HoldingPCs, ThreadTypeOK
  <2>6. CopiesTracked'
    BY <1>26, CopiesKept DEF Crash, storeVars, historyVars,
       budgetVars, Holds, HoldingPCs, ThreadTypeOK
  <2>7. QED
    BY <1>26, <2>1, <2>2, <2>3, <2>4, <2>5, <2>6 DEF Crash, storeVars,
       StoreTypeOK, AttemptsBounded
<1>27. ASSUME NEW w \in Workers, ReportSent(w)
      PROVE  IInv'
  <2>1. ThreadTypeOK'
    BY <1>27 DEF ReportSent, Step, ThreadTypeOK, WorkerPCs
  <2>2. RowKnown'
    BY <1>27 DEF ReportSent, Step, RowKnown, ExclusiveClaim, Holds, HoldingPCs,
       ThreadTypeOK
  <2>3. ExclusiveClaim'
    BY <1>27 DEF ReportSent, Step, storeVars, ExclusiveClaim, Holds, HoldingPCs,
       ThreadTypeOK
  <2>4. CopiesTracked'
    BY <1>27, CopiesKept DEF ReportSent, Step, storeVars, historyVars,
       budgetVars, Holds, HoldingPCs, ThreadTypeOK
  <2>5. QED
    BY <1>27, <2>1, <2>2, <2>3, <2>4 DEF ReportSent, storeVars, circuitVars,
       historyVars, budgetVars, StoreTypeOK, CircuitTypeOK, HistoryTypeOK,
       AttemptsBounded
<1>28. ASSUME NEW w \in Workers, NEW kind \in HandlingPCs, ReportRaises(w, kind)
      PROVE  IInv'
  <2>1. ThreadTypeOK'
    BY <1>28 DEF ReportRaises, Step, ThreadTypeOK, WorkerPCs
  <2>2. RowKnown'
    BY <1>28 DEF ReportRaises, Step, RowKnown, ThreadTypeOK
  <2>3. ExclusiveClaim'
    BY <1>28 DEF ReportRaises, Step, storeVars, ExclusiveClaim, Holds,
       HoldingPCs, ThreadTypeOK
  <2>4. HistoryTypeOK'
    BY <1>28 DEF ReportRaises, historyVars, HistoryTypeOK
  <2>5. CopiesTracked'
    <3>1. PICK m \in Messages : m = row[w]
      BY <1>28 DEF ReportRaises, Step, ExclusiveClaim, Holds, HoldingPCs, RowKnown
    <3>2. \A v \in Workers \ {w} : /\ pc'[v] = pc[v] /\ row'[v] = row[v]
                                   /\ Holds(v) => row[v] # m
      BY <1>28, <3>1 DEF ReportRaises, Step, ExclusiveClaim, Holds, HoldingPCs, ThreadTypeOK,
         Pending, PendingStatuses, workerVars
    <3>3. \A k \in Messages \ {m} :
             /\ status'[k] = status[k] /\ copies'[k] = copies[k]
             /\ ambiguous'[k] = ambiguous[k] /\ undone'[k] = undone[k]
      BY <1>28, <3>1 DEF ReportRaises, Step, storeVars, historyVars, StoreTypeOK, HistoryTypeOK
    <3>4. CopiesOf(m) /\ CopiesInHand(w)
      BY CopiesSplit
    <3>5. CopiesOf(m)' /\ CopiesInHand(w)'
      BY <1>28, <3>1, <3>4 DEF ReportRaises, Step, CopiesOf, CopiesInHand, ExclusiveClaim,
         Holds, HoldingPCs, Pending, PendingStatuses, storeVars, historyVars,
         budgetVars, workerVars, StoreTypeOK, ThreadTypeOK, HistoryTypeOK
    <3>6. QED
      BY <1>28, <3>2, <3>3, <3>5, CopiesByRow DEF ReportRaises, Step, historyVars, budgetVars
  <2>6. QED
    BY <1>28, <2>1, <2>2, <2>3, <2>4, <2>5 DEF ReportRaises, storeVars,
       circuitVars, StoreTypeOK, CircuitTypeOK, AttemptsBounded
<1>29. CASE UNCHANGED vars
  BY <1>29 DEF vars, storeVars, circuitVars, workerVars, historyVars,
     budgetVars, StoreTypeOK, CircuitTypeOK, ThreadTypeOK, HistoryTypeOK,
     RowKnown, ExclusiveClaim, Holds, AttemptsBounded, CopiesTracked,
     CopiesExplained
<1>30. QED
  BY <1>1, <1>2, <1>3, <1>4, <1>5, <1>6, <1>7, <1>8, <1>9, <1>10, <1>11,
     <1>12, <1>13, <1>14, <1>15, <1>16, <1>17, <1>18, <1>19, <1>20, <1>21,
     <1>22, <1>23, <1>24, <1>25, <1>26, <1>27, <1>28, <1>29 DEF Next, SmtpStep,
     ApiStep, WorkerStep, WorkerRaises, Producers

-----------------------------------------------------------------------------
(* In every reachable state the inductive invariant holds. *)
THEOREM Invariance == Spec => []IInv
  BY InitEstablishes, StepPreserves, PTL DEF Spec

(* Every variable keeps its type: no attempt count exceeds MAX_ATTEMPTS    *)
(* and no retry delay the maximum of backoff_seconds.                      *)
THEOREM TypeCorrect == Spec => []TypeOK
  BY Invariance, PTL DEF IInv

(* Whatever the number of workers, claim_next hands a row to one of them   *)
(* at a time, although it selects and updates in two statements.           *)
THEOREM ClaimsAreExclusive == Spec => []ExclusiveClaim
  BY Invariance, PTL DEF IInv

(* A row that can be claimed again always has an attempt left. *)
THEOREM AttemptsStayBounded == Spec => []AttemptsBounded
  BY Invariance, PTL DEF IInv

(* Crashes, restarts and steps that raise included, Exchange has one copy  *)
(* of a sent message, one more for each attempt that raised after it got   *)
(* there and for each delivery that was recorded and taken back; and of a  *)
(* failed one only copies of these two kinds.                              *)
THEOREM CopiesAreExplained == Spec => []CopiesExplained
<1>1. IInv => CopiesExplained
  BY DEF IInv, CopiesTracked
<1>2. QED
  BY <1>1, Invariance, PTL

-----------------------------------------------------------------------------
(* No step changes a failed row, nor a sent one but the worker's that      *)
(* doubts it.                                                              *)
LEMMA StepKeepsFinal ==
    ASSUME IInv, [Next]_vars, NEW m \in Messages
    PROVE  /\ status[m] = "failed" => status'[m] = "failed" /\ attempts'[m] = attempts[m]
           /\ status[m] = "sent" =>
                /\ attempts'[m] = attempts[m]
                /\ status'[m] = "sent" \/ \E w \in Workers : Doubts(w) /\ row[w] = m
<1> USE DEF IInv, TypeOK
<1> DEFINE Kept == status'[m] = status[m] /\ attempts'[m] = attempts[m]
<1>1. UNCHANGED storeVars => Kept
  BY DEF storeVars
<1>2. ASSUME NEW p \in Producers, AcceptInsert(p), status[m] \in {"sent", "failed"}
      PROVE  Kept
  BY <1>2 DEF AcceptInsert, Insert
<1>3. ASSUME NEW w \in Workers, ClaimWon(w), status[m] \in {"sent", "failed"}
      PROVE  Kept
  BY <1>3 DEF ClaimWon, ClaimUpdate, Pending, PendingStatuses, StoreTypeOK
<1>4. ASSUME NEW w \in Workers, NotConfigured(w) \/ RecordSent(w),
             status[m] \in {"sent", "failed"}
      PROVE  Kept
  <2>1. row[w] # m
    BY <1>4 DEF NotConfigured, RecordSent, Step, ExclusiveClaim, Holds, HoldingPCs, HandlingPCs
  <2>2. QED
    BY <1>4, <2>1 DEF NotConfigured, RecordSent, MarkSent, MarkFailed, StoreTypeOK
<1>5. ASSUME NEW w \in Workers, RecordRetry(w) \/ RecordFailed(w)
      PROVE  /\ attempts' = attempts
             /\ Kept \/ (row[w] = m /\ status[m] # "failed" /\ pc[w] \in HandlingPCs)
  <2>1. Holds(w) /\ pc[w] \in HandlingPCs
    BY <1>5 DEF RecordRetry, RecordFailed, Step, Holds, HoldingPCs, HandlingPCs
  <2>2. row[w] = m => status[m] # "failed"
    BY <2>1 DEF ExclusiveClaim
  <2>3. attempts' = attempts /\ (row[w] # m => status'[m] = status[m])
    BY <1>5 DEF RecordRetry, RecordFailed, MarkRetry, MarkFailed, StoreTypeOK
  <2>4. QED
    BY <2>1, <2>2, <2>3
<1>6. CASE Tick
  BY <1>6 DEF Tick, StoreElapse
<1>7. CASE \E w \in Workers : RecordRetry(w) \/ RecordFailed(w)
  BY <1>5, <1>7 DEF Doubts
<1>8. QED
  BY <1>1, <1>2, <1>3, <1>4, <1>6, <1>7 DEF Next, SmtpStep, ApiStep, WorkerStep,
     WorkerRaises, Producers, vars, SmtpReadCircuit, SmtpCount, AcceptWake,
     Admit, Select, ClaimLost, StartSend, SendOk, SendRaises, ReportSent,
     ReportRaises, Refresh, TellSuccess, TellFailure, StartWait, PollTimeout,
     ClearWake, Escape, ObserveCircuit, Stop, Crash

(* No claim, retry, fault or restart reopens a failed row; and a sent one  *)
(* is reopened only by the worker that recorded it, while it handles an    *)
(* exception its report raised.                                            *)
THEOREM FinalStatesStay == Spec => FinalStates
<1>1. IInv /\ [Next]_vars
        => [\A m \in Messages :
              /\ status[m] = "failed" => status'[m] = "failed" /\ attempts'[m] = attempts[m]
              /\ status[m] = "sent" =>
                   /\ attempts'[m] = attempts[m]
                   /\ status'[m] = "sent" \/ \E w \in Workers : Doubts(w) /\ row[w] = m]_vars
  BY StepKeepsFinal
<1>2. QED
  BY <1>1, Invariance, PTL DEF Spec, FinalStates

-----------------------------------------------------------------------------
(* The queue implements module Delivery.                                   *)

(* What worker v does with row k stays the same. *)
SameHold(v, k) ==
    /\ (Holds(v) /\ row[v] = k)' <=> Holds(v) /\ row[v] = k
    /\ (pc[v] = "confirmed" /\ row[v] = k)' <=> pc[v] = "confirmed" /\ row[v] = k
    /\ (pc[v] = "recorded" /\ row[v] = k)' <=> pc[v] = "recorded" /\ row[v] = k

(* A message keeps its stage while its status and its holder stay. *)
LEMMA StageKept ==
    ASSUME NEW k \in Messages, status'[k] = status[k],
           \A v \in Workers : SameHold(v, k)
    PROVE  Stage(k)' = Stage(k)
<1>1. (k \in Held)' <=> k \in Held
  BY DEF Held, SameHold
<1>2. InHandAt(k, "confirmed")' <=> InHandAt(k, "confirmed")
  BY DEF SameHold, InHandAt
<1>3. InHandAt(k, "recorded")' <=> InHandAt(k, "recorded")
  BY DEF SameHold, InHandAt
<1>4. Pending(k)' <=> Pending(k)
  BY DEF Pending
<1>5. QED
  BY <1>1, <1>2, <1>3, <1>4 DEF Stage

(* A step of worker w on row m moves that row alone. *)
LEMMA StageMoves ==
    ASSUME NEW m \in Messages, NEW to,
           Stage(m)' = to,
           \A k \in Messages : k # m => Stage(k)' = Stage(k)
    PROVE  StageMap' = [StageMap EXCEPT ![m] = to]
  BY DEF StageMap

(* The rows that are not worker w's keep their stage when w acts on m. *)
LEMMA OthersKept ==
    ASSUME NEW w \in Workers, NEW m \in Messages,
           ThreadTypeOK,
           \A k \in Messages : k # m => status'[k] = status[k],
           \A v \in Workers : v # w => pc'[v] = pc[v] /\ row'[v] = row[v],
           Holds(w) => row[w] = m,
           Holds(w)' => row'[w] = m
    PROVE  \A k \in Messages : k # m => Stage(k)' = Stage(k)
<1> SUFFICES ASSUME NEW k \in Messages, k # m PROVE Stage(k)' = Stage(k)
  OBVIOUS
<1>1. ASSUME NEW v \in Workers PROVE SameHold(v, k)
  BY DEF SameHold, Holds, HoldingPCs
<1>2. QED
  BY <1>1, StageKept

(* The stage of a row by what the worker that holds it does with it. *)
HandStage(w) ==
    IF pc[w] \in {"confirmed", "recorded"} THEN "confirmed"
    ELSE IF Doubts(w) THEN "doubted" ELSE "trying"

(* The stage of a row in a worker's hands ... *)
LEMMA HeldStage ==
    ASSUME IInv, NEW w \in Workers, Holds(w)
    PROVE  row[w] \in Messages /\ Stage(row[w]) = HandStage(w)
<1>1. /\ row[w] \in Messages
      /\ \/ status[row[w]] = "processing" /\ pc[w] # "recorded"
         \/ status[row[w]] = "sent" /\ pc[w] \in {"recorded"} \cup HandlingPCs
  BY DEF IInv, ExclusiveClaim
<1>2. row[w] \in Held
  BY DEF Held
<1>3. InHandAt(row[w], "confirmed") <=> pc[w] = "confirmed"
  BY DEF IInv, ExclusiveClaim, Holds, HoldingPCs, InHandAt
<1>4. InHandAt(row[w], "recorded") <=> pc[w] = "recorded"
  BY DEF IInv, ExclusiveClaim, Holds, HoldingPCs, InHandAt
<1>5. QED
  BY <1>1, <1>2, <1>3, <1>4 DEF Stage, HandStage, Doubts, Pending, PendingStatuses, HandlingPCs

(* ... and after a step that leaves it there. *)
LEMMA HeldStageAfter ==
    ASSUME IInv', NEW w \in Workers, Holds(w)', NEW m, row'[w] = m
    PROVE  m \in Messages /\ Stage(m)' = HandStage(w)'
<1>1. /\ m \in Messages
      /\ \/ status'[m] = "processing" /\ pc'[w] # "recorded"
         \/ status'[m] = "sent" /\ pc'[w] \in {"recorded"} \cup HandlingPCs
  BY DEF IInv, ExclusiveClaim
<1>2. (m \in Held)'
  BY DEF Held
<1>3. InHandAt(m, "confirmed")' <=> pc'[w] = "confirmed"
  BY DEF IInv, ExclusiveClaim, Holds, HoldingPCs, InHandAt
<1>4. InHandAt(m, "recorded")' <=> pc'[w] = "recorded"
  BY DEF IInv, ExclusiveClaim, Holds, HoldingPCs, InHandAt
<1>5. QED
  BY <1>1, <1>2, <1>3, <1>4 DEF Stage, HandStage, Doubts, Pending, PendingStatuses, HandlingPCs

(* Each action of the queue is an action of Delivery, or leaves it alone. *)
LEMMA StepImplements ==
    IInv /\ IInv' /\ [Next]_vars => [Promise!Next]_(Promise!deliveryVars)
<1> SUFFICES ASSUME IInv, IInv', [Next]_vars
             PROVE  Promise!Next \/ (StageMap' = StageMap /\ attempts' = attempts)
  BY DEF Promise!deliveryVars
<1>t. StoreTypeOK /\ ThreadTypeOK /\ StoreTypeOK' /\ ThreadTypeOK'
  BY DEF IInv, TypeOK
<1>0. ASSUME UNCHANGED <<status, attempts>>,
             \A w \in Workers :
                /\ Holds(w)' <=> Holds(w)
                /\ (pc[w] = "confirmed")' <=> pc[w] = "confirmed"
                /\ (pc[w] = "recorded")' <=> pc[w] = "recorded"
                /\ Holds(w) => row'[w] = row[w]
      PROVE  StageMap' = StageMap /\ attempts' = attempts
  <2>1. ASSUME NEW k \in Messages PROVE Stage(k)' = Stage(k)
    <3>1. ASSUME NEW v \in Workers PROVE SameHold(v, k)
      BY <1>0 DEF SameHold, Holds, HoldingPCs
    <3>2. QED
      BY <1>0, <3>1, StageKept
  <2>2. QED
    BY <1>0, <2>1 DEF StageMap
<1>1. ASSUME NEW p \in Producers, AcceptInsert(p)
      PROVE  \E m \in Messages : Promise!Accept(m)
  <2>1. PICK m \in Messages : Insert(m)
    BY <1>1 DEF AcceptInsert
  <2>2. ASSUME NEW k \in Messages, k # m PROVE Stage(k)' = Stage(k)
    <3>1. status'[k] = status[k]
      BY <2>1, <2>2, <1>t DEF Insert
    <3>2. QED
      BY <1>1, <3>1, StageKept DEF AcceptInsert, workerVars, Holds, SameHold
  <2>3. Stage(m) = "new" /\ Stage(m)' = "pending"
    BY <2>1, <1>t DEF Insert, Stage, Pending, PendingStatuses, StoreTypeOK
  <2>4. QED
    BY <2>1, <2>2, <2>3, StageMoves DEF Promise!Accept, Promise!Move, Insert,
       StageMap
<1>2. ASSUME NEW w \in Workers, ClaimWon(w)
      PROVE  \E m \in Messages : Promise!Begin(m)
  <2>0. PICK m \in Messages : m = row[w]
    BY <1>2 DEF ClaimWon, IInv, RowKnown
  <2>1. Pending(m)
    BY <1>2, <2>0 DEF ClaimWon, ClaimUpdate
  <2>2. Holds(w)' /\ row'[w] = m /\ ~Holds(w)
    BY <1>2, <2>0, <1>t DEF ClaimWon, Holds, HoldingPCs, HandlingPCs, ThreadTypeOK
  <2>3. \A k \in Messages : k # m => Stage(k)' = Stage(k)
    <3>1. \A k \in Messages : k # m => status'[k] = status[k]
      BY <1>2, <2>0, <1>t DEF ClaimWon, ClaimUpdate, StoreTypeOK
    <3>2. \A v \in Workers : v # w => pc'[v] = pc[v] /\ row'[v] = row[v]
      BY <1>2, <1>t DEF ClaimWon
    <3>3. QED
      BY <2>2, <3>1, <3>2, <1>t, OthersKept
  <2>4. Stage(m) = "pending"
    BY <2>1 DEF Stage, Pending, PendingStatuses
  <2>5. Stage(m)' = "trying"
    <3>1. pc'[w] = "prepare"
      BY <1>2, <1>t DEF ClaimWon, ThreadTypeOK
    <3>2. QED
      BY <3>1, <2>2, HeldStageAfter DEF HandStage, Doubts, HandlingPCs
  <2>6. attempts[m] < MaxAttempts /\ attempts' = [attempts EXCEPT ![m] = @ + 1]
    BY <1>2, <2>0, <2>1, <1>t DEF ClaimWon, ClaimUpdate, Pending,
       PendingStatuses, IInv, AttemptsBounded
  <2>7. QED
    BY <2>3, <2>4, <2>5, <2>6, StageMoves DEF Promise!Begin, Promise!Move,
       StageMap
<1>3. ASSUME NEW w \in Workers,
             \/ SendOk(w) \/ RecordSent(w) \/ ReportSent(w) \/ NotConfigured(w)
             \/ RecordRetry(w) \/ RecordFailed(w)
             \/ \E kind \in HandlingPCs : ReportRaises(w, kind)
      PROVE  \/ \E m \in Messages :
                    \/ Promise!Confirm(m) \/ Promise!Finish(m) \/ Promise!Doubt(m)
                    \/ Promise!PutBack(m) \/ Promise!GiveUp(m)
             \/ StageMap' = StageMap /\ attempts' = attempts
  <2>1. Holds(w)
    BY <1>3 DEF SendOk, RecordSent, ReportSent, ReportRaises, RecordRetry,
       RecordFailed, NotConfigured, Step, Holds, HoldingPCs, HandlingPCs
  <2>0. PICK m \in Messages : m = row[w]
    BY <2>1, HeldStage
  <2>2. Stage(m) = HandStage(w) /\ row'[w] = m
    BY <1>3, <2>0, <2>1, HeldStage DEF SendOk, RecordSent, ReportSent,
       ReportRaises, RecordRetry, RecordFailed, NotConfigured, Step
  <2>3. \A k \in Messages : k # m => Stage(k)' = Stage(k)
    <3>1. \A v \in Workers : v # w => pc'[v] = pc[v] /\ row'[v] = row[v]
      BY <1>3, <1>t DEF SendOk, RecordSent, ReportSent, ReportRaises,
         RecordRetry, RecordFailed, NotConfigured, Step, ThreadTypeOK
    <3>2. \A k \in Messages : k # m => status'[k] = status[k]
      BY <1>3, <2>0, <1>t DEF SendOk, RecordSent, ReportSent, ReportRaises,
         RecordRetry, RecordFailed, NotConfigured, MarkSent, MarkRetry,
         MarkFailed, StoreTypeOK, storeVars
    <3>3. QED
      BY <2>0, <2>2, <3>1, <3>2, <1>t, OthersKept
  <2>4. attempts' = attempts
    BY <1>3 DEF SendOk, RecordSent, ReportSent, ReportRaises, RecordRetry,
       RecordFailed, NotConfigured, MarkSent, MarkRetry, MarkFailed, storeVars
  <2>5. \A from, to : /\ Stage(m) \in from /\ Stage(m)' = to
                      => /\ StageMap[m] \in from
                         /\ StageMap' = [StageMap EXCEPT ![m] = to]
    BY <2>3, StageMoves DEF StageMap
  <2>6. CASE SendOk(w)
    <3>1. pc[w] = "sending" /\ pc'[w] = "confirmed"
      BY <2>6, <1>t DEF SendOk, Step, ThreadTypeOK
    <3>2. Stage(m)' = "confirmed"
      BY <2>2, <3>1, HeldStageAfter DEF Holds, HoldingPCs, HandStage
    <3>3. Promise!Confirm(m)
      BY <2>2, <2>4, <2>5, <3>1, <3>2 DEF Promise!Confirm, Promise!Move,
         HandStage, Doubts, HandlingPCs
    <3>4. QED
      BY <3>3
  <2>7. CASE RecordSent(w)
    <3>1. pc[w] = "confirmed" /\ pc'[w] = "recorded"
      BY <2>7, <1>t DEF RecordSent, Step, ThreadTypeOK
    <3>2. Stage(m)' = "confirmed"
      BY <2>2, <3>1, HeldStageAfter DEF Holds, HoldingPCs, HandStage
    <3>3. StageMap' = StageMap
      BY <2>2, <2>3, <3>1, <3>2 DEF HandStage, StageMap
    <3>4. QED
      BY <2>4, <3>3
  <2>8. CASE ReportSent(w)
    <3>1. pc[w] = "recorded" /\ pc'[w] = "refresh" /\ status'[m] = "sent"
      BY <2>0, <2>1, <2>8, <1>t DEF ReportSent, Step, storeVars, ThreadTypeOK,
         IInv, ExclusiveClaim
    <3>2. ASSUME NEW v \in Workers, Holds(v)' PROVE row'[v] # m
      <4>1. v # w
        BY <3>1, <3>2 DEF Holds, HoldingPCs, HandlingPCs
      <4>2. Holds(v) /\ row'[v] = row[v]
        BY <2>8, <3>2, <4>1, <1>t DEF ReportSent, Step, Holds, ThreadTypeOK
      <4>3. QED
        BY <2>0, <2>1, <4>1, <4>2 DEF IInv, ExclusiveClaim
    <3>3. (m \notin Held)' /\ ~InHandAt(m, "recorded")'
      BY <3>2 DEF Held, InHandAt, Holds, HoldingPCs
    <3>4. Stage(m)' = "sent"
      BY <3>1, <3>3 DEF Stage, Pending, PendingStatuses
    <3>5. Promise!Finish(m)
      BY <2>2, <2>4, <2>5, <3>1, <3>4 DEF Promise!Finish, Promise!Move, HandStage
    <3>6. QED
      BY <3>5
  <2>9. CASE \E kind \in HandlingPCs : ReportRaises(w, kind)
    <3>1. pc[w] = "recorded" /\ pc'[w] \in HandlingPCs /\ status'[m] = "sent"
      BY <2>0, <2>1, <2>9, <1>t DEF ReportRaises, Step, storeVars, ThreadTypeOK,
         IInv, ExclusiveClaim
    <3>2. Stage(m)' = "doubted"
      BY <2>2, <3>1, HeldStageAfter DEF Holds, HoldingPCs, HandlingPCs, HandStage, Doubts
    <3>3. Promise!Doubt(m)
      BY <2>2, <2>4, <2>5, <3>1, <3>2 DEF Promise!Doubt, Promise!Move, HandStage
    <3>4. QED
      BY <3>3
  <2>10. RecordRetry(w) \/ RecordFailed(w) \/ NotConfigured(w)
            => Stage(m) \in {"trying", "doubted"}
    BY <2>2 DEF RecordRetry, RecordFailed, NotConfigured, Step, HandStage
  <2>11. CASE RecordRetry(w)
    <3>1. Stage(m)' = "pending" /\ attempts[m] < MaxAttempts
      BY <2>11, <2>0, <1>t DEF RecordRetry, MarkRetry, Stage, Pending,
         PendingStatuses, StoreTypeOK
    <3>2. Promise!PutBack(m)
      BY <2>4, <2>5, <2>10, <2>11, <3>1 DEF Promise!PutBack, Promise!Move
    <3>3. QED
      BY <3>2
  <2>12. CASE RecordFailed(w) \/ NotConfigured(w)
    <3>1. Stage(m)' = "failed"
      BY <2>12, <2>0, <1>t DEF RecordFailed, NotConfigured, MarkFailed, Stage,
         Pending, PendingStatuses, StoreTypeOK
    <3>2. Promise!GiveUp(m)
      BY <2>4, <2>5, <2>10, <2>12, <3>1 DEF Promise!GiveUp, Promise!Move
    <3>3. QED
      BY <3>2
  <2>13. QED
    BY <1>3, <2>6, <2>7, <2>8, <2>9, <2>11, <2>12
<1>5. ASSUME UNCHANGED storeVars, NEW G \in SUBSET Workers,
             \A w \in G : ~Holds(w)',
             \A w \in Workers \ G : pc'[w] = pc[w] /\ row'[w] = row[w]
      PROVE  \E S, T \in SUBSET Messages : Promise!Abandon(S, T)
  <2> DEFINE Left == {row[w] : w \in {v \in G : Holds(v)}}
             S == {m \in Left : status[m] = "processing"}
             T == {m \in Left : status[m] = "sent"}
  <2>1. Left \subseteq Messages /\ S \cup T = Left
    BY HeldStage DEF IInv, ExclusiveClaim
  <2>2. /\ \A m \in S : StageMap[m] \in {"trying", "confirmed"}
        /\ \A m \in T : StageMap[m] \in {"confirmed", "doubted"}
    <3>1. ASSUME NEW w \in G, Holds(w)
          PROVE  /\ status[row[w]] = "processing" => HandStage(w) \in {"trying", "confirmed"}
                 /\ status[row[w]] = "sent" => HandStage(w) \in {"confirmed", "doubted"}
      BY <3>1 DEF IInv, ExclusiveClaim, HandStage, Doubts
    <3>2. ASSUME NEW m \in Left PROVE \E w \in G : Holds(w) /\ row[w] = m
      OBVIOUS
    <3>3. QED
      BY <2>1, <3>1, <3>2, HeldStage DEF StageMap
  <2>3. ASSUME NEW m \in Left
        PROVE  Stage(m)' = IF status[m] = "processing" THEN "stranded" ELSE "sent"
    <3>1. PICK w \in G : Holds(w) /\ row[w] = m
      BY <2>3
    <3>2. status'[m] = status[m] /\ status[m] \in {"processing", "sent"}
      BY <1>5, <3>1 DEF IInv, ExclusiveClaim, storeVars
    <3>3. ASSUME NEW v \in Workers, Holds(v)' PROVE row'[v] # m
      BY <1>5, <3>1, <3>3 DEF IInv, ExclusiveClaim, Holds
    <3>4. (m \notin Held)' /\ ~InHandAt(m, "confirmed")' /\ ~InHandAt(m, "recorded")'
      BY <3>3 DEF Held, InHandAt, Holds, HoldingPCs
    <3>5. QED
      BY <3>2, <3>4 DEF Stage, Pending, PendingStatuses
  <2>4. ASSUME NEW m \in Messages, m \notin Left PROVE Stage(m)' = Stage(m)
    <3>1. ASSUME NEW v \in Workers PROVE SameHold(v, m)
      BY <1>5, <2>4 DEF SameHold, Holds, HoldingPCs
    <3>2. QED
      BY <1>5, <3>1, StageKept DEF storeVars
  <2>5. StageMap' = [m \in Messages |-> IF m \in S THEN "stranded"
                                        ELSE IF m \in T THEN "sent" ELSE StageMap[m]]
    BY <2>1, <2>3, <2>4 DEF StageMap
  <2>6. attempts' = attempts
    BY <1>5 DEF storeVars
  <2> HIDE DEF S, T, Left
  <2>7. Promise!Abandon(S, T)
    BY <2>2, <2>5, <2>6 DEF Promise!Abandon
  <2>8. QED
    BY <2>1, <2>7
<1>6. ASSUME NEW w \in Workers, Escape(w)
      PROVE  \E S, T \in SUBSET Messages : Promise!Abandon(S, T)
  <2>1. UNCHANGED storeVars /\ ~Holds(w)'
    BY <1>6, <1>t DEF Escape, Holds, HoldingPCs, HandlingPCs, ThreadTypeOK
  <2>2. \A v \in Workers \ {w} : pc'[v] = pc[v] /\ row'[v] = row[v]
    BY <1>6, <1>t DEF Escape, ThreadTypeOK
  <2>3. {w} \in SUBSET Workers /\ \A v \in {w} : ~Holds(v)'
    BY <2>1
  <2>4. QED
    BY <2>1, <2>2, <2>3, <1>5
<1>7. ASSUME Crash
      PROVE  \E S, T \in SUBSET Messages : Promise!Abandon(S, T)
  <2>1. UNCHANGED storeVars /\ \A w \in Workers : ~Holds(w)'
    BY <1>7 DEF Crash, Holds, HoldingPCs, HandlingPCs
  <2>2. QED
    BY <2>1, <1>5
<1>8. ASSUME NEW w \in Workers,
             \/ Admit(w) \/ Select(w) \/ ClaimLost(w) \/ StartSend(w)
             \/ SendRaises(w, "retriable") \/ SendRaises(w, "permanent")
             \/ Refresh(w) \/ TellSuccess(w) \/ TellFailure(w)
             \/ StartWait(w) \/ PollTimeout(w) \/ ClearWake(w)
      PROVE  StageMap' = StageMap /\ attempts' = attempts
  <2>1. UNCHANGED <<status, attempts>>
    BY <1>8 DEF Admit, Select, ClaimLost, StartSend, SendRaises, Refresh,
       TellSuccess, TellFailure, StartWait, PollTimeout, ClearWake, storeVars
  <2>2. ASSUME NEW v \in Workers
        PROVE  /\ Holds(v)' <=> Holds(v)
               /\ (pc[v] = "confirmed")' <=> pc[v] = "confirmed"
               /\ (pc[v] = "recorded")' <=> pc[v] = "recorded"
               /\ Holds(v) => row'[v] = row[v]
    BY <1>8, <1>t DEF Admit, Select, ClaimLost, StartSend, SendRaises, Refresh,
       TellSuccess, TellFailure, StartWait, PollTimeout, ClearWake, LeaveDrain,
       Step, Holds, HoldingPCs, HandlingPCs, ThreadTypeOK
  <2>3. QED
    BY <2>1, <2>2, <1>0
<1>9. ASSUME \/ SmtpReadCircuit \/ SmtpCount \/ ObserveCircuit \/ Tick \/ Stop
             \/ (\E p \in Producers : AcceptWake(p)) \/ UNCHANGED vars
      PROVE  StageMap' = StageMap /\ attempts' = attempts
  <2>1. UNCHANGED <<status, attempts>>
    BY <1>9 DEF SmtpReadCircuit, SmtpCount, ObserveCircuit, Tick, Stop,
       AcceptWake, StoreElapse, vars, storeVars
  <2>2. ASSUME NEW v \in Workers
        PROVE  /\ Holds(v)' <=> Holds(v)
               /\ (pc[v] = "confirmed")' <=> pc[v] = "confirmed"
               /\ (pc[v] = "recorded")' <=> pc[v] = "recorded"
               /\ Holds(v) => row'[v] = row[v]
    BY <1>9, <1>t DEF SmtpReadCircuit, SmtpCount, ObserveCircuit, Tick, Stop,
       AcceptWake, SetWake, vars, workerVars, Holds, HoldingPCs, HandlingPCs
  <2>3. QED
    BY <2>1, <2>2, <1>0
<1>10. QED
  BY <1>1, <1>2, <1>3, <1>6, <1>7, <1>8, <1>9 DEF Next, SmtpStep, ApiStep,
     WorkerStep, WorkerRaises, Producers, Promise!Next

(* The queue starts where Delivery starts. *)
LEMMA InitImplements == Init => Promise!Init
<1> SUFFICES ASSUME Init PROVE Promise!Init
  OBVIOUS
<1>1. \A m \in Messages : Stage(m) = "new"
  BY DEF Init, StoreInit, Stage, Pending, PendingStatuses
<1>2. QED
  BY <1>1 DEF Init, StoreInit, Promise!Init, StageMap

(* With any number of workers, at any time and through any crash, what     *)
(* happens to a message is what module Delivery promises: at most          *)
(* MAX_ATTEMPTS attempts one after the other, none after a confirmed one   *)
(* whose report went through, and a final outcome unless an attempt is     *)
(* abandoned.                                                              *)
THEOREM Implementation == Spec => ImplementsDelivery
<1>1. IInv /\ IInv' /\ [Next]_vars => [Promise!Next]_(Promise!deliveryVars)
  BY StepImplements
<1>2. QED
  BY <1>1, InitImplements, Invariance, PTL DEF Spec, ImplementsDelivery, Promise!Spec

-----------------------------------------------------------------------------
(* Every step of the queue is, for the breaker, one of its methods, the    *)
(* passing of time, or nothing; a restart leaves it as a success does.     *)
LEMMA CircuitStep == [Next]_vars => [CircuitNext]_circuitVars
<1> SUFFICES ASSUME [Next]_vars, circuitVars' # circuitVars PROVE CircuitNext
  OBVIOUS
<1>1. CASE SmtpStep
  BY <1>1 DEF SmtpStep, SmtpReadCircuit, SmtpCount, AcceptInsert, AcceptWake, CircuitNext
<1>2. CASE \E p \in Api : ApiStep(p)
  BY <1>2 DEF ApiStep, AcceptInsert, AcceptWake
<1>3. ASSUME NEW w \in Workers, WorkerStep(w) PROVE CircuitNext
  <2>1. CASE Admit(w)
    BY <2>1 DEF Admit, CircuitNext
  <2>2. CASE TellSuccess(w) \/ TellFailure(w)
    BY <2>2 DEF TellSuccess, TellFailure, CircuitNext
  <2>3. CASE Select(w) \/ ClaimWon(w) \/ ClaimLost(w)
    BY <2>3 DEF Select, ClaimWon, ClaimLost
  <2>4. CASE NotConfigured(w) \/ StartSend(w) \/ SendOk(w)
    BY <2>4 DEF NotConfigured, StartSend, SendOk
  <2>5. CASE SendRaises(w, "retriable") \/ SendRaises(w, "permanent")
    BY <2>5 DEF SendRaises
  <2>6. CASE RecordSent(w) \/ ReportSent(w) \/ RecordRetry(w) \/ RecordFailed(w) \/ Refresh(w)
    BY <2>6 DEF RecordSent, ReportSent, RecordRetry, RecordFailed, Refresh
  <2>7. CASE StartWait(w) \/ PollTimeout(w) \/ ClearWake(w)
    BY <2>7 DEF StartWait, PollTimeout, ClearWake
  <2>8. QED
    BY <1>3, <2>1, <2>2, <2>3, <2>4, <2>5, <2>6, <2>7 DEF WorkerStep
<1>4. ASSUME NEW w \in Workers, WorkerRaises(w) PROVE CircuitNext
  BY <1>4 DEF WorkerRaises, Escape, ReportRaises
<1>5. CASE ObserveCircuit \/ Tick
  BY <1>5 DEF ObserveCircuit, Tick, CircuitNext
<1>6. CASE Stop
  BY <1>6 DEF Stop
<1>7. CASE Crash
  BY <1>7 DEF Crash, CircuitNext, RecordSuccess
<1>8. CASE UNCHANGED vars
  BY <1>8 DEF vars
<1>9. QED
  BY <1>1, <1>2, <1>3, <1>4, <1>5, <1>6, <1>7, <1>8 DEF Next

(* The queue, its threads and restarts use the breaker as its own          *)
(* specification says it may be used.                                      *)
THEOREM QueueUsesCircuit == Spec => CircuitSpec
<1>1. Init => CircuitInit
  BY DEF Init
<1>2. QED
  BY <1>1, CircuitStep, PTL DEF Spec, CircuitSpec

(* Hence what holds of the breaker under arbitrary calls holds of the one  *)
(* in the queue: closed exactly below the threshold,                       *)
THEOREM ClosedBelowInQueue == Spec => []ClosedBelowThreshold
  BY QueueUsesCircuit, ClosedBelow, PTL

(* and one outcome ends the half-open phase.                               *)
THEOREM HalfOpenIsDecidedInQueue == Spec => HalfOpenDecides
  BY QueueUsesCircuit, HalfOpenIsDecided, PTL

=============================================================================
