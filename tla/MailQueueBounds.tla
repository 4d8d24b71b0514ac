--------------------------- MODULE MailQueueBounds ---------------------------
(* What MailQueue counts, and the wake-ups of its workers, for every       *)
(* number of workers, messages and API threads and every value of the      *)
(* limits.  Builds on the inductive invariant of MailQueueProofs.          *)
EXTENDS MailQueueProofs, FiniteSetTheorems

-----------------------------------------------------------------------------
(* The inductive invariants.                                               *)

(* Workers the breaker has let through that have not claimed yet. *)
LetThrough == {w \in Workers : pc[w] \in {"select", "claim"}}

(* OverrunBounded, with those who may still claim: while the breaker is    *)
(* open no one joins them, and the worker that opened it is not among them. *)
OverrunCounted ==
    /\ overrun < Cardinality(Workers)
    /\ Settled = "open" => overrun + Cardinality(LetThrough) < Cardinality(Workers)

(* PendingBounded, with the insert that is under way. *)
Active == {m \in Messages : Pending(m)} \cup Held

ActiveCounted ==
    Api = {} =>
        /\ Cardinality(Active) <= MaxPending + Cardinality(Workers)
        /\ producer["smtp"] = "inserting"
            => Cardinality(Active) < MaxPending + Cardinality(Workers)

Stranded == {m \in Messages : status[m] = "processing" /\ m \notin Held}

(* A worker that will look at the queue again before it waits. *)
WillLook(w) ==
    \/ pc[w] \in {"admit", "select", "prepare", "sending", "confirmed", "recorded",
                  "retriable", "permanent", "refresh", "succeeded", "faulted", "woken"}
    \/ pc[w] = "claim" /\ (didWork[w] \/ (row[w] \in Messages /\ Pending(row[w])))

(* NoMissedWake at every moment: an accepted message not tried yet has the *)
(* flag up, a worker that will look, or a producer about to raise the flag. *)
WakeKept ==
    /\ \A m \in Messages : status[m] \in {"absent", "queued"} => delay[m] = 0
    /\ wake => \A w \in Workers : pc[w] # "waiting"
    /\ stopping => wake \/ \E w \in Workers : pc[w] = "exited"
    /\ \/ faults # 0
       \/ circuit # "closed"
       \/ stopping
       \/ wake
       \/ \E p \in Producers : producer[p] = "waking"
       \/ \E w \in Workers : WillLook(w)
       \/ \A m \in Messages : status[m] # "queued"

BInv == OverrunCounted /\ ActiveCounted /\ StrandedExplained /\ WakeKept

-----------------------------------------------------------------------------
(* Rows and workers, step by step.                                         *)

(* The rows held, worker by worker.                                        *)
LEMMA InHeld == \A m : m \in Held <=> \E w \in Workers : Holds(w) /\ row[w] = m
  BY DEF Held

(* The same after a step.                                                  *)
LEMMA InHeldNext == \A m : m \in Held' <=> \E w \in Workers : Holds(w)' /\ row'[w] = m
  BY DEF Held

(* A step of worker w concerns no other worker. *)
LEMMA OthersStay ==
  ASSUME TypeOK, NEW w \in Workers, WorkerStep(w) \/ WorkerRaises(w), NEW v \in Workers \ {w}
  PROVE  pc'[v] = pc[v] /\ row'[v] = row[v] /\ didWork'[v] = didWork[v]
<1> USE DEF TypeOK, ThreadTypeOK, workerVars
<1>1. CASE Admit(w) \/ Select(w) \/ ClaimLost(w)
  BY <1>1 DEF Admit, Select, ClaimLost, LeaveDrain
<1>2. CASE ClaimWon(w) \/ NotConfigured(w) \/ StartSend(w) \/ SendOk(w)
  BY <1>2 DEF ClaimWon, NotConfigured, StartSend, SendOk, Step
<1>3. CASE SendRaises(w, "retriable") \/ SendRaises(w, "permanent")
  BY <1>3 DEF SendRaises, Step
<1>4. CASE RecordSent(w) \/ ReportSent(w) \/ RecordRetry(w) \/ RecordFailed(w)
  BY <1>4 DEF RecordSent, ReportSent, RecordRetry, RecordFailed, Step
<1>5. CASE Refresh(w) \/ TellSuccess(w) \/ TellFailure(w)
  BY <1>5 DEF Refresh, TellSuccess, TellFailure, Step
<1>6. CASE StartWait(w) \/ PollTimeout(w) \/ ClearWake(w) \/ WorkerRaises(w)
  BY <1>6 DEF StartWait, PollTimeout, ClearWake, WorkerRaises, Escape, ReportRaises, Step
<1>7. QED
  BY <1>1, <1>2, <1>3, <1>4, <1>5, <1>6 DEF WorkerStep

(* What a step of worker w does to the rows: nothing of its own, a claim,  *)
(* a part of an attempt or the record of its delivery, or the step that    *)
(* lets go of the row.                                                     *)
Aside(w) == ~Holds(w) /\ ~Holds(w)' /\ status' = status
Claims(w) == /\ ~Holds(w) /\ Holds(w)' /\ row'[w] = row[w] /\ row[w] \in Messages
             /\ Pending(row[w]) /\ status' = [status EXCEPT ![row[w]] = "processing"]
Outcomes == {"sent", "retrying", "failed"}
Carries(w) == /\ Holds(w) /\ Holds(w)' /\ row'[w] = row[w]
              /\ status' \in {status, [status EXCEPT ![row[w]] = "sent"]}
Records(w) == /\ Holds(w) /\ ~Holds(w)'
              /\ \E s \in Outcomes : status' = [status EXCEPT ![row[w]] = s]

(* What any step of a worker does to the rows is of one of the four kinds. *)
LEMMA WorkerKinds ==
  ASSUME IInv, NEW w \in Workers, WorkerStep(w)
  PROVE  Aside(w) \/ Claims(w) \/ Carries(w) \/ Records(w)
<1>1. /\ pc \in [Workers -> WorkerPCs] /\ row \in [Workers -> Messages \cup {NoRow}]
      /\ status \in [Messages -> Statuses]
      /\ pc[w] = "claim" => row[w] \in Messages
  BY DEF IInv, TypeOK, ThreadTypeOK, StoreTypeOK, RowKnown
<1> USE DEF Holds, HoldingPCs, HandlingPCs
<1>2. CASE Admit(w) \/ Select(w) \/ ClaimLost(w)
  BY <1>1, <1>2 DEF Admit, Select, ClaimLost, LeaveDrain, storeVars, Aside
<1>3. CASE ClaimWon(w)
  BY <1>1, <1>3 DEF ClaimWon, ClaimUpdate, Claims
<1>4. CASE StartSend(w) \/ SendOk(w)
  BY <1>1, <1>4 DEF StartSend, SendOk, Step, storeVars, Carries
<1>5. CASE SendRaises(w, "retriable") \/ SendRaises(w, "permanent")
  BY <1>1, <1>5 DEF SendRaises, Step, storeVars, Carries
<1>6. CASE NotConfigured(w) \/ RecordRetry(w) \/ RecordFailed(w)
  BY <1>1, <1>6 DEF NotConfigured, RecordRetry, RecordFailed, Step, MarkRetry,
     MarkFailed, Records, Outcomes
<1>9. CASE RecordSent(w)
  BY <1>1, <1>9 DEF RecordSent, Step, MarkSent, Carries
<1>10. CASE ReportSent(w)
  <2>1. status[row[w]] = "sent"
    BY <1>10 DEF ReportSent, Step, IInv, ExclusiveClaim
  <2>2. status' = [status EXCEPT ![row[w]] = "sent"]
    BY <1>1, <1>10, <2>1 DEF ReportSent, storeVars
  <2>3. QED
    BY <1>1, <1>10, <2>2 DEF ReportSent, Step, Records, Outcomes
<1>7. CASE Refresh(w) \/ TellSuccess(w) \/ TellFailure(w)
  BY <1>1, <1>7 DEF Refresh, TellSuccess, TellFailure, Step, storeVars, Aside
<1>8. CASE StartWait(w) \/ PollTimeout(w) \/ ClearWake(w)
  BY <1>1, <1>8 DEF StartWait, PollTimeout, ClearWake, Step, storeVars, Aside
<1>11. QED
  BY <1>2, <1>3, <1>4, <1>5, <1>6, <1>7, <1>8, <1>9, <1>10 DEF WorkerStep

(* A worker's step adds no row to those waiting or in hand, and leaves     *)
(* none behind.                                                            *)
LEMMA WorkerKeepsRows ==
  ASSUME IInv, NEW w \in Workers, WorkerStep(w)
  PROVE  Active' \subseteq Active /\ Stranded' \subseteq Stranded
<1>1. /\ status \in [Messages -> Statuses]
      /\ \A v \in Workers : Holds(v) => row[v] \in Messages /\ status[row[v]] \in {"processing", "sent"}
      /\ \A u, v \in Workers : Holds(u) /\ Holds(v) /\ row[u] = row[v] => u = v
  BY DEF IInv, TypeOK, StoreTypeOK, ExclusiveClaim
<1>2. \A v \in Workers \ {w} : (Holds(v)' <=> Holds(v)) /\ row'[v] = row[v]
  BY OthersStay DEF IInv, Holds
<1>3. CASE Aside(w)
  <2>1. Held' = Held /\ status' = status
    BY <1>2, <1>3, InHeld, InHeldNext DEF Aside
  <2>2. QED
    BY <2>1 DEF Active, Stranded, Pending
<1>4. CASE Claims(w)
  <2>1. Held' = Held \cup {row[w]}
    BY <1>2, <1>4, InHeld, InHeldNext DEF Claims
  <2>2. QED
    BY <1>1, <1>4, <2>1 DEF Active, Stranded, Pending, PendingStatuses, Claims
<1>5. CASE Carries(w)
  <2>1. Held' = Held /\ row[w] \in Held
    BY <1>2, <1>5, InHeld, InHeldNext DEF Carries
  <2>2. QED
    BY <1>1, <1>5, <2>1 DEF Active, Stranded, Pending, PendingStatuses, Carries
<1>6. CASE Records(w)
  <2>1. Held' = Held \ {row[w]} /\ row[w] \in Held /\ row[w] \in Messages
    BY <1>1, <1>2, <1>6, InHeld, InHeldNext DEF Records
  <2>2. PICK s \in Outcomes : status' = [status EXCEPT ![row[w]] = s]
    BY <1>6 DEF Records
  <2>3. QED
    BY <1>1, <2>1, <2>2 DEF Active, Stranded, Pending, PendingStatuses, Outcomes
<1>7. QED
  BY <1>3, <1>4, <1>5, <1>6, WorkerKinds

(* Raising a flag or waking a worker changes nobody's row. *)
LEMMA WakingKeepsHeld ==
  ASSUME TypeOK, SetWake, row' = row
  PROVE  Held' = Held
<1>1. \A w \in Workers : Holds(w)' <=> Holds(w)
  BY DEF SetWake, Holds, HoldingPCs, HandlingPCs, TypeOK, ThreadTypeOK
<1>2. QED
  BY <1>1, InHeld, InHeldNext

(* The steps that do add: an insert one row to those waiting, a step that  *)
(* raises its own row and a crash those in hand to the stranded ones.      *)
LEMMA RowsMove ==
  ASSUME IInv, [Next]_vars
  PROVE  \/ /\ Active' \subseteq Active /\ Stranded' \subseteq Stranded
            /\ faults' = faults /\ crashes' = crashes
         \/ /\ Stranded' \subseteq Stranded /\ faults' = faults /\ crashes' = crashes
            /\ \E p \in Producers : AcceptInsert(p)
            /\ \E m \in Messages : Active' \subseteq Active \cup {m}
         \/ /\ Active' \subseteq Active /\ faults' = faults + 1 /\ crashes' = crashes
            /\ \E m : Stranded' \subseteq Stranded \cup {m}
         \/ /\ Active' \subseteq Active /\ faults' = faults /\ crashes' = crashes + 1
            /\ Stranded' \subseteq Stranded \cup Held
<1>1. ASSUME NEW w \in Workers, WorkerStep(w)
      PROVE  faults' = faults /\ crashes' = crashes
  BY <1>1 DEF WorkerStep, Admit, Select, ClaimWon, ClaimLost, NotConfigured, StartSend, SendOk, SendRaises,
     RecordSent, ReportSent, RecordRetry, RecordFailed, Refresh, TellSuccess, TellFailure, StartWait, PollTimeout, ClearWake,
     NoteUndone, budgetVars
<1>2. ASSUME NEW w \in Workers, WorkerRaises(w)
      PROVE  /\ Active' \subseteq Active /\ faults' = faults + 1 /\ crashes' = crashes
             /\ Stranded' \subseteq Stranded \cup {row[w]}
  <2>1. /\ Holds(w)' => Holds(w) /\ row'[w] = row[w]
        /\ faults' = faults + 1 /\ crashes' = crashes
        /\ status' = status /\ pc \in [Workers -> WorkerPCs]
    BY <1>2 DEF WorkerRaises, Escape, ReportRaises, Step, Holds, HoldingPCs, HandlingPCs,
       IInv, TypeOK, ThreadTypeOK, storeVars
  <2>2. \A v \in Workers \ {w} : (Holds(v)' <=> Holds(v)) /\ row'[v] = row[v]
    BY <1>2, OthersStay DEF IInv, Holds
  <2>3. Held' \subseteq Held /\ Held \subseteq Held' \cup {row[w]}
    BY <2>1, <2>2, InHeld, InHeldNext
  <2>4. QED
    BY <2>1, <2>3 DEF Active, Stranded, Pending
<1>3. ASSUME NEW p \in Producers, AcceptInsert(p)
      PROVE  /\ Stranded' \subseteq Stranded /\ faults' = faults /\ crashes' = crashes
             /\ \E m \in Messages : Active' \subseteq Active \cup {m}
  <2>1. PICK m \in Messages : status[m] = "absent" /\ status' = [status EXCEPT ![m] = "queued"]
    BY <1>3 DEF AcceptInsert, Insert
  <2>2. Held' = Held /\ faults' = faults /\ crashes' = crashes
    BY <1>3 DEF AcceptInsert, Held, Holds, workerVars, budgetVars
  <2>3. status \in [Messages -> Statuses]
    BY DEF IInv, TypeOK, StoreTypeOK
  <2>4. QED
    BY <2>1, <2>2, <2>3 DEF Active, Stranded, Pending, PendingStatuses
<1>4. ASSUME NEW p \in Producers, AcceptWake(p)
      PROVE  Held' = Held /\ status' = status /\ faults' = faults /\ crashes' = crashes
  BY <1>4, WakingKeepsHeld DEF AcceptWake, IInv, storeVars, budgetVars
<1>5. CASE Stop
  BY <1>5, WakingKeepsHeld DEF Stop, IInv, storeVars, budgetVars, Active, Stranded, Pending
<1>6. CASE SmtpReadCircuit \/ SmtpCount \/ ObserveCircuit \/ Tick \/ UNCHANGED vars
  <2>1. UNCHANGED <<pc, row, status, faults, crashes>>
    BY <1>6 DEF SmtpReadCircuit, SmtpCount, ObserveCircuit, Tick, StoreElapse, vars, storeVars, workerVars, budgetVars
  <2>2. QED
    BY <2>1 DEF Active, Stranded, Pending, Held, Holds
<1>7. CASE Crash
  <2>1. Held' = {} /\ status' = status /\ faults' = faults /\ crashes' = crashes + 1
    BY <1>7 DEF Crash, Held, Holds, HoldingPCs, HandlingPCs, storeVars
  <2>2. QED
    BY <2>1 DEF Active, Stranded, Pending
<1>8. QED
  BY <1>1, <1>2, <1>3, <1>4, <1>5, <1>6, <1>7, WorkerKeepsRows
     DEF Next, SmtpStep, ApiStep, Producers, Active, Stranded, Pending

-----------------------------------------------------------------------------
(* Counting.                                                               *)

(* There are finitely many workers, at least one, and finitely many        *)
(* messages.                                                               *)
LEMMA WorkersCount ==
  /\ IsFiniteSet(Workers) /\ Cardinality(Workers) \in Nat /\ Cardinality(Workers) > 0
  /\ IsFiniteSet(Messages)
<1>1. IsFiniteSet(Workers) /\ Cardinality(Workers) \in Nat /\ Cardinality(Workers) # 0
  BY WorkersAssumption, FS_CardinalityType, FS_EmptySet
<1>2. IsFiniteSet(Messages)
  BY StoreAssumption, FS_Interval DEF Messages
<1>3. QED
  BY <1>1, <1>2

(* A subset of the workers, and one that leaves a worker out. *)
LEMMA SomeWorkers ==
  ASSUME NEW S \in SUBSET Workers
  PROVE  /\ IsFiniteSet(S) /\ Cardinality(S) \in Nat
         /\ Cardinality(S) <= Cardinality(Workers)
         /\ \A w \in Workers \ S : Cardinality(S) < Cardinality(Workers)
<1>1. IsFiniteSet(S) /\ Cardinality(S) \in Nat /\ Cardinality(S) <= Cardinality(Workers)
  BY WorkersCount, FS_Subset, FS_CardinalityType
<1>2. ASSUME NEW w \in Workers \ S
      PROVE  Cardinality(S) < Cardinality(Workers)
  <2>1. Cardinality(S) # Cardinality(Workers)
    BY <1>2, WorkersCount, FS_Subset
  <2>2. QED
    BY <1>1, <2>1, WorkersCount
<1>3. QED
  BY <1>1, <1>2

(* A worker has at most one row in hand. *)
LEMMA HeldCount ==
  /\ IsFiniteSet(Held) /\ Cardinality(Held) \in Nat
  /\ Cardinality(Held) <= Cardinality(Workers)
<1> DEFINE Holders == {v \in Workers : Holds(v)}
           hand == [w \in Holders |-> row[w]]
<1>1. IsFiniteSet(Holders) /\ Cardinality(Holders) \in Nat /\ Cardinality(Holders) <= Cardinality(Workers)
  BY SomeWorkers
<1>2. hand \in Surjection(Holders, Held)
  BY DEF Surjection, Held
<1>3. IsFiniteSet(Held) /\ Cardinality(Held) <= Cardinality(Holders)
  BY <1>1, <1>2, FS_Surjection
<1>4. Cardinality(Held) \in Nat
  BY <1>3, FS_CardinalityType
<1>5. QED
  BY <1>1, <1>3, <1>4, WorkersCount

(* Any set of rows can be counted.                                         *)
LEMMA RowsCount ==
  ASSUME NEW S \in SUBSET Messages
  PROVE  IsFiniteSet(S) /\ Cardinality(S) \in Nat
  BY WorkersCount, FS_Subset, FS_CardinalityType

(* What is held, active or stranded are rows.                              *)
LEMMA HeldAreMessages ==
  ASSUME IInv
  PROVE  Held \subseteq Messages /\ Active \subseteq Messages /\ Stranded \subseteq Messages
  BY InHeld DEF IInv, ExclusiveClaim, Active, Stranded

(* The rows waiting and the rows in hand are not the same rows. *)
LEMMA ActiveCount ==
  ASSUME IInv
  PROVE  /\ CountPending \in Nat /\ Cardinality(Active) \in Nat
         /\ Cardinality(Active) = CountPending + Cardinality(Held)
<1> DEFINE Waiting == {m \in Messages : Pending(m)}
<1>1. Waiting \cap Held = {}
  BY InHeld DEF IInv, ExclusiveClaim, Pending, PendingStatuses
<1>2. IsFiniteSet(Waiting) /\ Cardinality(Waiting) \in Nat
  BY RowsCount
<1>3. Cardinality(Active) = Cardinality(Waiting) + Cardinality(Held) - Cardinality({})
  BY <1>1, <1>2, HeldCount, FS_Union DEF Active
<1>4. QED
  BY <1>2, <1>3, HeldCount, FS_EmptySet DEF CountPending

-----------------------------------------------------------------------------
(* The overrun of an open breaker.                                         *)

(* A worker that claims behind an open breaker was let through before it   *)
(* opened; nobody is let through after.                                    *)
LEMMA OverrunStep == IInv /\ OverrunCounted /\ [Next]_vars => OverrunCounted'
<1> SUFFICES ASSUME IInv, OverrunCounted, [Next]_vars PROVE OverrunCounted'
  OBVIOUS
<1> DEFINE N == Cardinality(Workers)
<1>1. /\ overrun \in Nat /\ N \in Nat /\ N > 0 /\ overrun < N
      /\ Settled = "open" => overrun + Cardinality(LetThrough) < N
      /\ LetThrough \in SUBSET Workers /\ Cardinality(LetThrough) \in Nat
      /\ LetThrough' \in SUBSET Workers /\ Cardinality(LetThrough') \in Nat
  BY WorkersCount, SomeWorkers DEF IInv, TypeOK, HistoryTypeOK, OverrunCounted, LetThrough
<1>2. IsFiniteSet(LetThrough)
  BY <1>1, SomeWorkers
(* No one joins, and the breaker does not open. *)
<1>3. ASSUME LetThrough' \subseteq LetThrough, overrun' = overrun, Settled' = "open" => Settled = "open"
      PROVE  OverrunCounted'
  <2>1. Cardinality(LetThrough') <= Cardinality(LetThrough)
    BY <1>2, <1>3, FS_Subset
  <2>2. QED
    BY <1>1, <1>3, <2>1 DEF OverrunCounted
<1>4. /\ pc \in [Workers -> WorkerPCs] /\ circuit \in CircuitStates
      /\ failures \in 0..Threshold /\ age \in 0..Cooldown
  BY DEF IInv, TypeOK, ThreadTypeOK, CircuitTypeOK
<1>5. ReadState => Settled' = Settled
  BY <1>4 DEF ReadState, Settled
<1>6. UNCHANGED circuitVars => Settled' = Settled
  BY DEF circuitVars, Settled
<1>7. ASSUME NEW w \in Workers, WorkerStep(w) \/ WorkerRaises(w), pc'[w] \notin {"select", "claim"}
      PROVE  LetThrough' \subseteq LetThrough \ {w}
  BY <1>7, OthersStay DEF IInv, LetThrough
<1>8. ASSUME NEW w \in Workers, Admit(w)
      PROVE  OverrunCounted'
  <2>1. Settled' = Settled /\ overrun' = overrun
    BY <1>5, <1>6, <1>8 DEF Admit, Allow, historyVars
  <2>2. CASE pc'[w] = "select"
    <3>1. Settled' # "open"
      BY <1>4, <1>8, <2>1, <2>2 DEF Admit, Allow, LeaveDrain
    <3>2. QED
      BY <1>1, <2>1, <3>1 DEF OverrunCounted
  <2>3. CASE pc'[w] # "select"
    <3>1. pc'[w] \notin {"select", "claim"}
      BY <1>4, <1>8, <2>3 DEF Admit, LeaveDrain
    <3>2. QED
      BY <1>3, <1>7, <1>8, <2>1, <3>1 DEF WorkerStep
  <2>4. QED
    BY <2>2, <2>3
<1>9. ASSUME NEW w \in Workers, Select(w)
      PROVE  OverrunCounted'
  <2>1. pc[w] = "select" /\ overrun' = overrun /\ Settled' = Settled
    BY <1>6, <1>9 DEF Select, historyVars
  <2>2. LetThrough' \subseteq LetThrough
    <3>1. \A v \in Workers \ {w} : pc'[v] = pc[v]
      BY <1>9, OthersStay DEF IInv, WorkerStep
    <3>2. QED
      BY <2>1, <3>1 DEF LetThrough
  <2>3. QED
    BY <1>3, <2>1, <2>2
<1>10. ASSUME NEW w \in Workers, ClaimWon(w)
       PROVE  OverrunCounted'
  <2>1. /\ w \in LetThrough /\ Settled' = Settled
        /\ overrun' = IF Settled = "open" THEN overrun + 1 ELSE overrun
        /\ pc'[w] = "prepare"
    BY <1>4, <1>6, <1>10 DEF ClaimWon, LetThrough
  <2>2. LetThrough' \subseteq LetThrough \ {w}
    BY <1>7, <1>10, <2>1 DEF WorkerStep
  <2>3. /\ IsFiniteSet(LetThrough \ {w})
        /\ Cardinality(LetThrough \ {w}) = Cardinality(LetThrough) - 1
    BY <1>2, <2>1, FS_RemoveElement
  <2>4. Cardinality(LetThrough') <= Cardinality(LetThrough) - 1
    BY <2>2, <2>3, FS_Subset
  <2>5. QED
    BY <1>1, <2>1, <2>4 DEF OverrunCounted
<1>11. ASSUME NEW w \in Workers, TellSuccess(w)
       PROVE  OverrunCounted'
  <2>1. overrun' = 0 /\ Settled' # "open"
    BY <1>11 DEF TellSuccess, RecordSuccess, Settled
  <2>2. QED
    BY <1>1, <2>1 DEF OverrunCounted
<1>12. ASSUME NEW w \in Workers, TellFailure(w)
       PROVE  OverrunCounted'
  <2>1. pc'[w] = "admit" /\ overrun' = IF Settled = "open" THEN overrun ELSE 0
    BY <1>4, <1>12 DEF TellFailure, Step
  <2>2. LetThrough' \subseteq LetThrough \ {w}
    BY <1>7, <1>12, <2>1 DEF WorkerStep
  <2>3. CASE Settled = "open"
    BY <1>3, <2>1, <2>2, <2>3
  <2>4. CASE Settled # "open"
    <3>1. Cardinality(LetThrough') < N
      BY <1>1, <2>2, SomeWorkers
    <3>2. QED
      BY <1>1, <2>1, <2>4, <3>1 DEF OverrunCounted
  <2>5. QED
    BY <2>3, <2>4
<1>13. ASSUME NEW w \in Workers,
              \/ ClaimLost(w) \/ NotConfigured(w) \/ StartSend(w) \/ SendOk(w)
              \/ SendRaises(w, "retriable") \/ SendRaises(w, "permanent")
              \/ RecordSent(w) \/ ReportSent(w) \/ RecordRetry(w) \/ RecordFailed(w) \/ Refresh(w)
              \/ StartWait(w) \/ PollTimeout(w) \/ ClearWake(w) \/ WorkerRaises(w)
       PROVE  OverrunCounted'
  <2>1. overrun' = overrun /\ UNCHANGED circuitVars
    BY <1>13 DEF ClaimLost, NotConfigured, StartSend, SendOk, SendRaises, RecordSent, ReportSent, RecordRetry, RecordFailed,
       Refresh, StartWait, PollTimeout, ClearWake, WorkerRaises, Escape, ReportRaises,
       NoteUndone, historyVars
  <2>2. pc'[w] \notin {"select", "claim"}
    BY <1>4, <1>13 DEF ClaimLost, LeaveDrain, NotConfigured, StartSend, SendOk, SendRaises, RecordSent, ReportSent, RecordRetry,
       RecordFailed, Refresh, StartWait, PollTimeout, ClearWake, WorkerRaises, Escape,
       ReportRaises, HandlingPCs, Step
  <2>3. LetThrough' \subseteq LetThrough
    BY <1>7, <1>13, <2>2 DEF WorkerStep
  <2>4. QED
    BY <1>3, <1>6, <2>1, <2>3
<1>14. CASE SmtpReadCircuit \/ SmtpCount \/ ObserveCircuit \/ UNCHANGED vars
  <2>1. overrun' = overrun /\ pc' = pc /\ Settled' = Settled
    BY <1>5, <1>6, <1>14 DEF SmtpReadCircuit, SmtpCount, ObserveCircuit, vars, workerVars, historyVars
  <2>2. QED
    BY <1>3, <2>1 DEF LetThrough
<1>15. CASE Tick
  <2>1. overrun' = overrun /\ pc' = pc /\ (Settled' = "open" => Settled = "open")
    <3>1. circuit' = circuit /\ age' \in {age, age + 1}
      BY <1>15 DEF Tick, Elapse
    <3>2. Settled' = "open" => Settled = "open"
      BY <1>4, <3>1, CircuitAssumption DEF Settled
    <3>3. QED
      BY <1>15, <3>2 DEF Tick, workerVars, historyVars
  <2>2. QED
    BY <1>3, <2>1 DEF LetThrough
<1>16. CASE Stop \/ \E p \in Producers : AcceptInsert(p) \/ AcceptWake(p)
  <2>1. overrun' = overrun /\ UNCHANGED circuitVars
    BY <1>16 DEF Stop, AcceptInsert, AcceptWake, historyVars
  <2>2. LetThrough' \subseteq LetThrough
    <3>1. pc' = pc \/ SetWake
      BY <1>16 DEF Stop, AcceptInsert, AcceptWake, workerVars
    <3>2. \A w \in Workers : pc'[w] \in {"select", "claim"} => pc'[w] = pc[w]
      BY <1>4, <3>1 DEF SetWake
    <3>3. QED
      BY <3>2 DEF LetThrough
  <2>3. QED
    BY <1>3, <1>6, <2>1, <2>2
<1>17. CASE Crash
  <2>1. overrun' = 0 /\ Settled' # "open"
    BY <1>17 DEF Crash, Settled
  <2>2. QED
    BY <1>1, <2>1 DEF OverrunCounted
<1>18. QED
  BY <1>8, <1>9, <1>10, <1>11, <1>12, <1>13, <1>14, <1>15, <1>16, <1>17
     DEF Next, SmtpStep, ApiStep, WorkerStep, Producers

-----------------------------------------------------------------------------
(* The rows waiting and in hand.                                           *)

(* The SMTP thread goes on to its insert only from a count below the limit. *)
LEMMA SmtpMoves ==
  ASSUME IInv, [Next]_vars, producer'["smtp"] = "inserting"
  PROVE  \/ producer["smtp"] = "inserting" /\ ~AcceptInsert("smtp")
         \/ CountPending < MaxPending /\ status' = status /\ Held' = Held
<1>1. producer \in [Producers -> ProducerPCs] /\ "smtp" \in Producers /\ "smtp" \notin Api
  BY QueueAssumption DEF IInv, TypeOK, ThreadTypeOK, Producers
<1>2. CASE SmtpReadCircuit \/ AcceptInsert("smtp") \/ AcceptWake("smtp")
  BY <1>1, <1>2 DEF SmtpReadCircuit, AcceptInsert, AcceptWake, Goto
<1>3. CASE SmtpCount
  <2>1. CountPending < MaxPending
    <3>1. ~(CountPending >= MaxPending)
      BY <1>1, <1>3 DEF SmtpCount, Goto
    <3>2. QED
      BY <3>1, ActiveCount, QueueAssumption
  <2>2. status' = status /\ Held' = Held
    BY <1>3 DEF SmtpCount, storeVars, workerVars, Held, Holds
  <2>3. QED
    BY <2>1, <2>2
<1>4. ASSUME NEW p \in Api, ApiStep(p)
      PROVE  producer["smtp"] = "inserting" /\ ~AcceptInsert("smtp")
  <2>1. p \in Producers /\ p # "smtp"
    BY <1>1 DEF Producers
  <2>2. producer'["smtp"] = producer["smtp"]
    BY <1>1, <1>4, <2>1 DEF ApiStep, AcceptInsert, AcceptWake, Goto
  <2>3. QED
    BY <1>1, <2>2 DEF AcceptInsert, Goto
<1>5. CASE Crash
  BY <1>1, <1>5 DEF Crash
<1>6. ASSUME UNCHANGED producer
      PROVE  producer["smtp"] = "inserting" /\ ~AcceptInsert("smtp")
  BY <1>1, <1>6 DEF AcceptInsert, Goto
<1>7. ASSUME NEW w \in Workers, WorkerStep(w) \/ WorkerRaises(w)
      PROVE  UNCHANGED producer
  BY <1>7 DEF WorkerStep, Admit, Select, ClaimWon, ClaimLost, NotConfigured, StartSend, SendOk, SendRaises,
     RecordSent, ReportSent, RecordRetry, RecordFailed, Refresh, TellSuccess, TellFailure, StartWait, PollTimeout, ClearWake,
     WorkerRaises, Escape, ReportRaises
<1>8. CASE ObserveCircuit \/ Tick \/ Stop \/ UNCHANGED vars
  BY <1>6, <1>8 DEF ObserveCircuit, Tick, Stop, vars
<1>9. QED
  BY <1>2, <1>3, <1>4, <1>5, <1>6, <1>7, <1>8 DEF Next, SmtpStep

(* Only the insert adds to the active rows, and the check before it leaves *)
(* room for it and for a row in every worker's hands.                      *)
LEMMA ActiveStep == IInv /\ IInv' /\ ActiveCounted /\ [Next]_vars => ActiveCounted'
<1> SUFFICES ASSUME IInv, IInv', ActiveCounted, [Next]_vars, Api = {}
             PROVE  /\ Cardinality(Active') <= MaxPending + Cardinality(Workers)
                    /\ producer'["smtp"] = "inserting"
                         => Cardinality(Active') < MaxPending + Cardinality(Workers)
  BY DEF ActiveCounted
<1> DEFINE Most == MaxPending + Cardinality(Workers)
<1>1. /\ MaxPending \in Nat /\ Cardinality(Workers) \in Nat
      /\ Cardinality(Active) <= Most
      /\ producer["smtp"] = "inserting" => Cardinality(Active) < Most
  BY QueueAssumption, WorkersCount DEF ActiveCounted
<1>2. /\ Active \subseteq Messages /\ IsFiniteSet(Active) /\ Cardinality(Active) \in Nat
      /\ Active' \subseteq Messages /\ IsFiniteSet(Active') /\ Cardinality(Active') \in Nat
  <2>1. Active \subseteq Messages /\ Active' \subseteq Messages
    BY HeldAreMessages, InHeldNext DEF IInv, ExclusiveClaim, Active
  <2>2. QED
    BY <2>1, RowsCount
<1>3. CASE \E p \in Producers : AcceptInsert(p)
  <2>1. AcceptInsert("smtp")
    BY <1>3 DEF Producers
  <2>2. producer["smtp"] = "inserting" /\ producer'["smtp"] = "waking"
    BY <2>1 DEF AcceptInsert, Goto, IInv, TypeOK, ThreadTypeOK, Producers
  <2>3. \E m \in Messages : Active' \subseteq Active \cup {m}
    <3>1. \E m \in Messages : Insert(m)
      BY <2>1 DEF AcceptInsert
    <3>2. \/ Active' \subseteq Active
          \/ \E m \in Messages : Active' \subseteq Active \cup {m}
      BY RowsMove
    <3>3. QED
      BY <3>1, <3>2
  <2>4. PICK m \in Messages : Active' \subseteq Active \cup {m}
    BY <2>3
  <2>5. IsFiniteSet(Active \cup {m}) /\ Cardinality(Active \cup {m}) <= Cardinality(Active) + 1
    BY <1>2, FS_AddElement
  <2>6. Cardinality(Active') <= Cardinality(Active \cup {m}) /\ Cardinality(Active \cup {m}) \in Nat
    BY <2>4, <2>5, FS_Subset, FS_CardinalityType
  <2>7. QED
    BY <1>1, <1>2, <2>2, <2>5, <2>6
<1>4. CASE ~\E p \in Producers : AcceptInsert(p)
  <2>1. Active' \subseteq Active
    BY <1>4, RowsMove
  <2>2. Cardinality(Active') <= Cardinality(Active)
    BY <1>2, <2>1, FS_Subset
  <2>3. ASSUME producer'["smtp"] = "inserting"
        PROVE  Cardinality(Active') < Most
    <3>1. CASE producer["smtp"] = "inserting"
      BY <1>1, <1>2, <2>2, <3>1
    <3>2. CASE CountPending < MaxPending
      BY <1>1, <1>2, <2>2, <3>2, ActiveCount, HeldCount
    <3>3. QED
      BY <2>3, <3>1, <3>2, SmtpMoves
  <2>4. QED
    BY <1>1, <1>2, <2>2, <2>3
<1>5. QED
  BY <1>3, <1>4

-----------------------------------------------------------------------------
(* The rows left behind.                                                   *)

(* A row is left behind only by a step that is counted.                    *)
LEMMA StrandedStep == IInv /\ StrandedExplained /\ [Next]_vars => StrandedExplained'
<1> SUFFICES ASSUME IInv, StrandedExplained, [Next]_vars PROVE StrandedExplained'
  OBVIOUS
<1> DEFINE N == Cardinality(Workers)
<1>1. /\ faults \in Nat /\ crashes \in Nat /\ N \in Nat
      /\ Cardinality(Stranded) <= faults + crashes * N
      /\ IsFiniteSet(Stranded) /\ Cardinality(Stranded) \in Nat
      /\ IsFiniteSet(Held) /\ Cardinality(Held) \in Nat /\ Cardinality(Held) <= N
  BY WorkersCount, HeldCount, HeldAreMessages, RowsCount, QueueAssumption
     DEF IInv, TypeOK, HistoryTypeOK, StrandedExplained, Stranded
<1>2. SUFFICES Cardinality(Stranded') <= faults' + crashes' * N
  BY DEF StrandedExplained, Stranded
<1>3. crashes * N \in Nat /\ (crashes + 1) * N = crashes * N + N
  BY <1>1
<1>4. IsFiniteSet(Stranded') /\ Cardinality(Stranded') \in Nat
  <2>1. Stranded' \subseteq Messages
    BY DEF Stranded
  <2>2. QED
    BY <2>1, RowsCount
<1>5. CASE Stranded' \subseteq Stranded /\ faults' = faults /\ crashes' = crashes
  <2>1. Cardinality(Stranded') <= Cardinality(Stranded)
    BY <1>1, <1>5, FS_Subset
  <2>2. QED
    BY <1>1, <1>3, <1>4, <1>5, <2>1
<1>6. CASE faults' = faults + 1 /\ crashes' = crashes /\ \E m : Stranded' \subseteq Stranded \cup {m}
  <2>1. PICK m : Stranded' \subseteq Stranded \cup {m}
    BY <1>6
  <2>2. IsFiniteSet(Stranded \cup {m}) /\ Cardinality(Stranded \cup {m}) <= Cardinality(Stranded) + 1
    <3>1. IsFiniteSet(Stranded) /\ Cardinality(Stranded) \in Nat
      BY <1>1
    <3>2. /\ IsFiniteSet(Stranded \cup {m})
          /\ Cardinality(Stranded \cup {m})
               = IF m \in Stranded THEN Cardinality(Stranded) ELSE Cardinality(Stranded) + 1
      BY <3>1, FS_AddElement
    <3>3. QED
      BY <3>1, <3>2
  <2>3. Cardinality(Stranded') <= Cardinality(Stranded \cup {m}) /\ Cardinality(Stranded \cup {m}) \in Nat
    BY <2>1, <2>2, FS_Subset, FS_CardinalityType
  <2>4. QED
    BY <1>1, <1>3, <1>4, <1>6, <2>2, <2>3
<1>7. CASE faults' = faults /\ crashes' = crashes + 1 /\ Stranded' \subseteq Stranded \cup Held
  <2>1. /\ IsFiniteSet(Stranded \cup Held)
        /\ Cardinality(Stranded \cup Held) = Cardinality(Stranded) + Cardinality(Held) - Cardinality(Stranded \cap Held)
    BY <1>1, FS_Union
  <2>2. Cardinality(Stranded \cap Held) \in Nat /\ Cardinality(Stranded \cup Held) \in Nat
    <3>1. IsFiniteSet(Stranded \cap Held)
      BY <1>1, FS_Subset
    <3>2. QED
      BY <2>1, <3>1, FS_CardinalityType
  <2>3. Cardinality(Stranded') <= Cardinality(Stranded \cup Held)
    BY <1>7, <2>1, FS_Subset
  <2>4. QED
    BY <1>1, <1>3, <1>4, <1>7, <2>1, <2>2, <2>3
<1>8. QED
  BY <1>5, <1>6, <1>7, RowsMove

-----------------------------------------------------------------------------
(* No wake-up is lost.                                                     *)

FreshIsDue == \A m \in Messages : status[m] \in {"absent", "queued"} => delay[m] = 0
FlagReleases == wake => \A w \in Workers : pc[w] # "waiting"
StopHeard == stopping => wake \/ \E w \in Workers : pc[w] = "exited"
NoneQueued == \A m \in Messages : status[m] # "queued"

(* What else there may be for a message to be left in the queue. *)
Excused ==
    \/ faults # 0
    \/ circuit # "closed"
    \/ stopping
    \/ wake
    \/ \E p \in Producers : producer[p] = "waking"
    \/ \E w \in Workers : WillLook(w)
    \/ NoneQueued

(* WakeKept is the conjunction of its four parts.                          *)
LEMMA WakeParts == WakeKept <=> FreshIsDue /\ FlagReleases /\ StopHeard /\ Excused
  BY DEF WakeKept, FreshIsDue, FlagReleases, StopHeard, Excused, NoneQueued

(* The same after a step.                                                  *)
LEMMA WakePartsNext == WakeKept' <=> FreshIsDue' /\ FlagReleases' /\ StopHeard' /\ Excused'
  BY DEF WakeKept, FreshIsDue, FlagReleases, StopHeard, Excused, NoneQueued

(* The worker that moves looks again, or has a reason not to, or was not   *)
(* looking before and takes nothing away.                                  *)
LEMMA ActorLooks ==
  ASSUME IInv, FreshIsDue, NEW w \in Workers, WorkerStep(w)
  PROVE  \/ WillLook(w)' \/ stopping' \/ circuit' # "closed" \/ NoneQueued'
         \/ ~WillLook(w) /\ UNCHANGED <<wake, circuit, status>>
<1>1. /\ pc \in [Workers -> WorkerPCs] /\ row \in [Workers -> Messages \cup {NoRow}]
      /\ status \in [Messages -> Statuses] /\ didWork \in [Workers -> BOOLEAN]
      /\ pc[w] = "claim" => row[w] \in Messages
  BY DEF IInv, TypeOK, ThreadTypeOK, StoreTypeOK, RowKnown
<1>2. CASE Admit(w)
  <2>1. CASE stopping
    BY <1>2, <2>1 DEF Admit
  <2>2. CASE Allow(FALSE)
    BY <2>2 DEF Allow, ReadState
  <2>3. CASE pc' = [pc EXCEPT ![w] = "select"]
    BY <1>1, <2>3 DEF WillLook
  <2>4. QED
    BY <1>2, <2>1, <2>2, <2>3 DEF Admit
<1>3. CASE Select(w)
  <2>1. CASE Due = {}
    <3>1. NoneQueued
      BY <2>1 DEF Due, Pending, PendingStatuses, FreshIsDue, NoneQueued
    <3>2. QED
      BY <1>3, <3>1 DEF Select, storeVars, NoneQueued
  <2>2. CASE \E m \in Messages : OldestDue(m) /\ row' = [row EXCEPT ![w] = m] /\ pc' = [pc EXCEPT ![w] = "claim"]
    <3>1. PICK m \in Messages : OldestDue(m) /\ row' = [row EXCEPT ![w] = m] /\ pc' = [pc EXCEPT ![w] = "claim"]
      BY <2>2
    <3>2. Pending(m) /\ status' = status /\ pc'[w] = "claim" /\ row'[w] = m
      BY <1>1, <1>3, <3>1 DEF Select, storeVars, OldestDue, Due
    <3>3. QED
      BY <3>2 DEF WillLook, Pending
  <2>3. QED
    BY <1>3, <2>1, <2>2 DEF Select
<1>4. CASE ClaimLost(w)
  <2>1. CASE stopping
    BY <1>4, <2>1 DEF ClaimLost
  <2>2. CASE ~stopping /\ didWork[w]
    BY <1>1, <1>4, <2>2 DEF ClaimLost, LeaveDrain, WillLook
  <2>3. CASE ~didWork[w]
    BY <1>1, <1>4, <2>3 DEF ClaimLost, WillLook, storeVars, circuitVars
  <2>4. QED
    BY <2>1, <2>2, <2>3
<1>5. CASE StartWait(w)
  BY <1>5 DEF StartWait, WillLook, storeVars, circuitVars
<1>6. CASE ClearWake(w)
  BY <1>1, <1>6 DEF ClearWake, Step, WillLook
<1>7. CASE ClaimWon(w) \/ NotConfigured(w) \/ StartSend(w) \/ SendOk(w)
  BY <1>1, <1>7 DEF ClaimWon, NotConfigured, StartSend, SendOk, Step, WillLook
<1>8. CASE SendRaises(w, "retriable") \/ SendRaises(w, "permanent")
  BY <1>1, <1>8 DEF SendRaises, Step, WillLook
<1>9. CASE RecordSent(w) \/ ReportSent(w) \/ RecordRetry(w) \/ RecordFailed(w)
  BY <1>1, <1>9 DEF RecordSent, ReportSent, RecordRetry, RecordFailed, Step, WillLook
<1>10. CASE Refresh(w)
  BY <1>1, <1>10 DEF Refresh, WillLook
<1>11. CASE TellSuccess(w) \/ TellFailure(w) \/ PollTimeout(w)
  BY <1>1, <1>11 DEF TellSuccess, TellFailure, PollTimeout, Step, WillLook
<1>12. QED
  BY <1>2, <1>3, <1>4, <1>5, <1>6, <1>7, <1>8, <1>9, <1>10, <1>11 DEF WorkerStep

(* Another worker goes on looking, unless its row is claimed before it. *)
LEMMA OthersLook ==
  ASSUME IInv, NEW w \in Workers, WorkerStep(w), NEW v \in Workers \ {w}, WillLook(v)
  PROVE  WillLook(v)' \/ WillLook(w)'
<1>1. pc'[v] = pc[v] /\ row'[v] = row[v] /\ didWork'[v] = didWork[v]
  BY OthersStay DEF IInv
<1>2. CASE Claims(w)
  BY <1>2 DEF Claims, Holds, HoldingPCs, HandlingPCs, WillLook
<1>3. CASE ~Claims(w)
  <2>1. /\ status \in [Messages -> Statuses]
        /\ Holds(w) => row[w] \in Messages /\ status[row[w]] \in {"processing", "sent"}
    BY DEF IInv, TypeOK, StoreTypeOK, ExclusiveClaim
  <2>2. \A m \in Messages : Pending(m) => Pending(m)'
    <3>1. CASE Aside(w)
      BY <3>1 DEF Aside, Pending
    <3>2. CASE Carries(w) \/ Records(w)
      BY <2>1, <3>2 DEF Carries, Records, Outcomes, Pending, PendingStatuses
    <3>3. QED
      BY <1>3, <3>1, <3>2, WorkerKinds
  <2>3. QED
    BY <1>1, <2>2 DEF WillLook
<1>4. QED
  BY <1>2, <1>3

(* What a worker's step does to the shared flags. *)
LEMMA WorkerFlags ==
  ASSUME NEW w \in Workers, WorkerStep(w)
  PROVE  /\ UNCHANGED <<stopping, producer, faults>>
         /\ wake' = wake \/ ClearWake(w)
         /\ circuit' = circuit \/ circuit' # "closed" \/ TellSuccess(w)
<1>1. UNCHANGED <<stopping, producer, faults>> /\ (wake' = wake \/ ClearWake(w))
  BY DEF WorkerStep, Admit, Select, ClaimWon, ClaimLost, NotConfigured, StartSend, SendOk, SendRaises,
     RecordSent, ReportSent, RecordRetry, RecordFailed, Refresh, TellSuccess, TellFailure, StartWait, PollTimeout, ClearWake,
     NoteUndone, budgetVars
<1>2. circuit' = circuit \/ circuit' # "closed" \/ TellSuccess(w)
  BY DEF WorkerStep, Admit, Select, ClaimWon, ClaimLost, NotConfigured, StartSend, SendOk, SendRaises,
     RecordSent, ReportSent, RecordRetry, RecordFailed, Refresh, TellFailure, StartWait, PollTimeout, ClearWake,
     circuitVars, Allow, ReadState, Settled, RecordFailure
<1>3. QED
  BY <1>1, <1>2

(* A worker that goes to wait leaves a reason why no fresh message is      *)
(* forgotten: it found none, or the flag is up.                            *)
LEMMA WorkerExcused ==
  ASSUME IInv, WakeKept, NEW w \in Workers, WorkerStep(w)
  PROVE  Excused'
<1>1. FreshIsDue /\ Excused
  BY WakeParts
<1>2. CASE WillLook(w)' \/ stopping' \/ circuit' # "closed" \/ NoneQueued'
  BY <1>2 DEF Excused
<1>3. CASE ~WillLook(w) /\ UNCHANGED <<wake, circuit, status>>
  BY <1>1, <1>3, WorkerFlags, OthersLook DEF Excused, NoneQueued
<1>4. QED
  BY <1>1, <1>2, <1>3, ActorLooks


(* A worker's step delays no fresh message and holds no worker behind a    *)
(* raised flag.                                                            *)
LEMMA WorkerKeepsWake ==
  ASSUME IInv, WakeKept, NEW w \in Workers, WorkerStep(w)
  PROVE  FreshIsDue' /\ FlagReleases' /\ StopHeard'
<1>1. /\ pc \in [Workers -> WorkerPCs] /\ status \in [Messages -> Statuses]
      /\ delay \in [Messages -> 0..BackoffCap]
      /\ FreshIsDue /\ FlagReleases /\ StopHeard
  BY WakeParts DEF IInv, TypeOK, ThreadTypeOK, StoreTypeOK
<1>2. FreshIsDue'
  <2>1. CASE ClaimWon(w)
    BY <1>1, <2>1 DEF ClaimWon, ClaimUpdate, FreshIsDue
  <2>2. CASE NotConfigured(w) \/ RecordFailed(w)
    BY <1>1, <2>2 DEF NotConfigured, RecordFailed, MarkFailed, FreshIsDue
  <2>3. CASE RecordSent(w) \/ RecordRetry(w)
    <3>1. row[w] \in Messages
      BY <2>3 DEF RecordSent, RecordRetry, Step, IInv, ExclusiveClaim, Holds, HoldingPCs, HandlingPCs
    <3>2. QED
      BY <1>1, <2>3, <3>1 DEF RecordSent, RecordRetry, MarkSent, MarkRetry, FreshIsDue
  <2>4. CASE UNCHANGED storeVars
    BY <1>1, <2>4 DEF storeVars, FreshIsDue
  <2>5. QED
    BY <2>1, <2>2, <2>3, <2>4 DEF WorkerStep, Admit, Select, ClaimLost, StartSend, SendOk, SendRaises,
       ReportSent, Refresh, TellSuccess, TellFailure, StartWait, PollTimeout, ClearWake
<1>3. FlagReleases'
  <2>1. CASE pc'[w] # "waiting"
    BY <1>1, <2>1, WorkerFlags, OthersStay DEF IInv, FlagReleases, ClearWake
  <2>2. CASE pc'[w] = "waiting"
    <3>1. StartWait(w)
      BY <1>1, <2>2 DEF WorkerStep, Admit, Select, ClaimWon, ClaimLost, NotConfigured, StartSend, SendOk, SendRaises,
         RecordSent, ReportSent, RecordRetry, RecordFailed, Refresh, TellSuccess, TellFailure, PollTimeout, ClearWake,
         LeaveDrain, Step
    <3>2. wake' = FALSE
      BY <1>1, <2>2, <3>1 DEF StartWait, IInv, TypeOK, ThreadTypeOK
    <3>3. QED
      BY <3>2 DEF FlagReleases
  <2>3. QED
    BY <2>1, <2>2
<1>4. StopHeard'
  <2>1. pc[w] # "exited"
    BY DEF WorkerStep, Admit, Select, ClaimWon, ClaimLost, NotConfigured, StartSend, SendOk, SendRaises,
       RecordSent, ReportSent, RecordRetry, RecordFailed, Refresh, TellSuccess, TellFailure, StartWait, PollTimeout,
       ClearWake, Step
  <2>2. (\E v \in Workers : pc[v] = "exited") => \E v \in Workers : pc'[v] = "exited"
    BY <2>1, OthersStay DEF IInv
  <2>3. ClearWake(w) /\ stopping => pc'[w] = "exited"
    BY <1>1 DEF ClearWake, Step
  <2>4. QED
    BY <1>1, <2>2, <2>3, WorkerFlags DEF StopHeard
<1>5. QED
  BY <1>2, <1>3, <1>4

(* No step makes a worker miss a wake-up.                                  *)
LEMMA WakeStep == IInv /\ WakeKept /\ [Next]_vars => WakeKept'
<1> SUFFICES ASSUME IInv, WakeKept, [Next]_vars PROVE WakeKept'
  OBVIOUS
<1>1. /\ pc \in [Workers -> WorkerPCs] /\ status \in [Messages -> Statuses]
      /\ delay \in [Messages -> 0..BackoffCap] /\ producer \in [Producers -> ProducerPCs]
      /\ faults \in Nat
  BY DEF IInv, TypeOK, ThreadTypeOK, StoreTypeOK, HistoryTypeOK
<1>2. FreshIsDue /\ FlagReleases /\ StopHeard /\ Excused
  BY WakeParts
<1>3. ASSUME NEW w \in Workers, WorkerStep(w)
      PROVE  WakeKept'
  BY <1>3, WorkerKeepsWake, WorkerExcused, WakePartsNext
<1>4. ASSUME NEW w \in Workers, WorkerRaises(w)
      PROVE  WakeKept'
  <2>1. FreshIsDue' /\ FlagReleases' /\ StopHeard'
    BY <1>1, <1>2, <1>4 DEF WorkerRaises, Escape, ReportRaises, Step, HoldingPCs, HandlingPCs,
       storeVars, FreshIsDue, FlagReleases, StopHeard
  <2>2. Excused'
    BY <1>1, <1>4 DEF WorkerRaises, Escape, ReportRaises, Excused
  <2>3. QED
    BY <2>1, <2>2, WakePartsNext
<1>5. ASSUME NEW p \in Producers, AcceptInsert(p)
      PROVE  WakeKept'
  <2>1. FreshIsDue'
    BY <1>1, <1>2, <1>5 DEF AcceptInsert, Insert, FreshIsDue
  <2>2. FlagReleases' /\ StopHeard'
    BY <1>2, <1>5 DEF AcceptInsert, workerVars, FlagReleases, StopHeard
  <2>3. producer'[p] = "waking"
    BY <1>1, <1>5 DEF AcceptInsert, Goto
  <2>4. QED
    BY <2>1, <2>2, <2>3, WakePartsNext DEF Excused
<1>6. ASSUME SetWake, UNCHANGED storeVars
      PROVE  WakeKept'
  <2>1. wake' /\ \A w \in Workers : pc'[w] # "waiting"
    BY <1>1, <1>6 DEF SetWake
  <2>2. FreshIsDue'
    BY <1>2, <1>6 DEF storeVars, FreshIsDue
  <2>3. QED
    BY <2>1, <2>2, WakePartsNext DEF FlagReleases, StopHeard, Excused
<1>7. CASE Crash
  <2>1. FreshIsDue'
    BY <1>2, <1>7 DEF Crash, storeVars, FreshIsDue
  <2>2. FlagReleases' /\ StopHeard'
    BY <1>7 DEF Crash, FlagReleases, StopHeard
  <2>3. \E w \in Workers : WillLook(w)'
    <3>1. PICK w \in Workers : TRUE
      BY WorkersAssumption
    <3>2. pc'[w] = "admit"
      BY <1>7 DEF Crash
    <3>3. QED
      BY <3>2 DEF WillLook
  <2>4. QED
    BY <2>1, <2>2, <2>3, WakePartsNext DEF Excused
<1>8. ASSUME UNCHANGED <<status, workerVars, wake, stopping, producer, faults>>, FreshIsDue',
             circuit' = circuit \/ circuit' # "closed"
      PROVE  WakeKept'
  <2>1. FlagReleases' /\ StopHeard'
    BY <1>2, <1>8 DEF workerVars, FlagReleases, StopHeard
  <2>2. \A w \in Workers : WillLook(w) => WillLook(w)'
    BY <1>8 DEF workerVars, WillLook, Pending
  <2>3. Excused'
    BY <1>2, <1>8, <2>2 DEF Excused, NoneQueued
  <2>4. QED
    BY <1>8, <2>1, <2>3, WakePartsNext
<1>9. CASE Tick
  <2>1. FreshIsDue'
    BY <1>1, <1>2, <1>9 DEF Tick, StoreElapse, FreshIsDue
  <2>2. QED
    BY <1>8, <1>9, <2>1 DEF Tick, StoreElapse, Elapse, budgetVars
<1>10. CASE SmtpReadCircuit \/ ObserveCircuit
  <2>1. FreshIsDue'
    BY <1>2, <1>10 DEF SmtpReadCircuit, ObserveCircuit, storeVars, FreshIsDue
  <2>2. circuit' = circuit \/ circuit' # "closed"
    BY <1>10 DEF SmtpReadCircuit, ObserveCircuit, ReadState, Settled
  <2>3. CASE ObserveCircuit
    BY <1>8, <2>1, <2>2, <2>3 DEF ObserveCircuit, storeVars, budgetVars
  <2>4. CASE SmtpReadCircuit
    <3>1. producer' = [producer EXCEPT !["smtp"] = "counting"] /\ producer["smtp"] = "idle"
      BY <2>4 DEF SmtpReadCircuit, Goto
    <3>2. (\E p \in Producers : producer[p] = "waking") => \E p \in Producers : producer'[p] = "waking"
      BY <1>1, <3>1
    <3>3. UNCHANGED <<status, workerVars, wake, stopping, faults>>
      BY <2>4 DEF SmtpReadCircuit, storeVars, budgetVars
    <3>4. FlagReleases' /\ StopHeard'
      BY <1>2, <3>3 DEF workerVars, FlagReleases, StopHeard
    <3>5. \A w \in Workers : WillLook(w) => WillLook(w)'
      BY <3>3 DEF workerVars, WillLook, Pending
    <3>6. Excused'
      BY <1>2, <2>2, <3>2, <3>3, <3>5 DEF Excused, NoneQueued
    <3>7. QED
      BY <2>1, <3>4, <3>6, WakePartsNext
  <2>5. QED
    BY <1>10, <2>3, <2>4
<1>11. CASE SmtpCount
  <2>1. /\ UNCHANGED <<storeVars, circuit, workerVars, wake, stopping, faults>>
        /\ \E to \in {"idle", "inserting"} : producer' = [producer EXCEPT !["smtp"] = to]
        /\ producer["smtp"] = "counting"
    BY <1>11 DEF SmtpCount, Goto, circuitVars, budgetVars
  <2>2. (\E p \in Producers : producer[p] = "waking") => \E p \in Producers : producer'[p] = "waking"
    BY <1>1, <2>1
  <2>3. FreshIsDue' /\ FlagReleases' /\ StopHeard'
    BY <1>2, <2>1 DEF storeVars, workerVars, FreshIsDue, FlagReleases, StopHeard
  <2>4. \A w \in Workers : WillLook(w) => WillLook(w)'
    BY <2>1 DEF storeVars, workerVars, WillLook, Pending
  <2>5. Excused'
    BY <1>2, <2>1, <2>2, <2>4 DEF storeVars, Excused, NoneQueued
  <2>6. QED
    BY <2>3, <2>5, WakePartsNext
<1>12. CASE UNCHANGED vars
  BY <1>2, <1>8, <1>12 DEF vars, storeVars, circuitVars, budgetVars, FreshIsDue
<1>13. CASE Stop \/ \E p \in Producers : AcceptWake(p)
  BY <1>6, <1>13 DEF Stop, AcceptWake
<1>14. QED
  BY <1>3, <1>4, <1>5, <1>7, <1>9, <1>10, <1>11, <1>12, <1>13
     DEF Next, SmtpStep, ApiStep, Producers

-----------------------------------------------------------------------------
(* The theorems.                                                           *)

(* An empty queue is within all bounds.                                    *)
LEMMA InitBounds == Init => BInv
<1> SUFFICES ASSUME Init PROVE BInv
  OBVIOUS
<1>1. /\ \A w \in Workers : pc[w] = "admit"
      /\ \A m \in Messages : status[m] = "absent" /\ delay[m] = 0
      /\ producer["smtp"] = "idle" /\ overrun = 0 /\ faults = 0 /\ crashes = 0
      /\ ~wake /\ ~stopping /\ circuit = "closed"
  BY DEF Init, StoreInit, CircuitInit, Producers
<1>2. Cardinality(Workers) \in Nat /\ Cardinality(Workers) > 0
  BY WorkersAssumption, FS_CardinalityType, FS_EmptySet
<1>3. Cardinality({}) = 0
  BY FS_EmptySet
<1>4. OverrunCounted
  BY <1>1, <1>2 DEF OverrunCounted, Settled
<1>5. Held = {}
  BY <1>1, InHeld DEF Holds, HoldingPCs, HandlingPCs
<1>6. ActiveCounted
  <2>1. Active = {}
    BY <1>1, <1>5 DEF Active, Pending, PendingStatuses
  <2>2. QED
    BY <1>1, <1>2, <1>3, <2>1, QueueAssumption DEF ActiveCounted
<1>7. StrandedExplained
  <2>1. Stranded = {}
    BY <1>1 DEF Stranded
  <2>2. faults + crashes * Cardinality(Workers) = 0
    BY <1>1, <1>2
  <2>3. QED
    BY <1>3, <2>1, <2>2 DEF StrandedExplained, Stranded
<1>8. WakeKept
  BY <1>1 DEF WakeKept
<1>9. QED
  BY <1>4, <1>6, <1>7, <1>8 DEF BInv

(* The bounds hold in every state, with the invariant they rest on.        *)
THEOREM BoundsHold == Spec => [](IInv /\ BInv)
<1>1. Init => IInv /\ BInv
  BY InitEstablishes, InitBounds
<1>2. IInv /\ BInv /\ [Next]_vars => IInv' /\ BInv'
  BY StepPreserves, OverrunStep, ActiveStep, StrandedStep, WakeStep DEF BInv
<1>3. QED
  BY <1>1, <1>2, PTL DEF Spec

(* OverrunBounded: whatever the number of workers, fewer sends start while *)
(* the breaker is open than there are workers (_drain asks the breaker     *)
(* once per message, and the one whose failure opened it asks again).      *)
THEOREM OverrunStaysBounded == Spec => []OverrunBounded
<1>1. BInv => OverrunBounded
  BY DEF BInv, OverrunCounted, OverrunBounded
<1>2. QED
  BY <1>1, BoundsHold, PTL

(* PendingBounded: check_backpressure keeps the rows waiting or in hand    *)
(* within the limit and one per worker, although it counts first and the   *)
(* insert comes later.                                                     *)
THEOREM PendingStaysBounded == Spec => []PendingBounded
<1>1. IInv /\ BInv => PendingBounded
  BY ActiveCount DEF BInv, ActiveCounted, PendingBounded
<1>2. QED
  BY <1>1, BoundsHold, PTL

(* StrandedExplained: a row left in processing is accounted for by a step  *)
(* that raised or by a crash.                                              *)
THEOREM StrandedStaysExplained == Spec => []StrandedExplained
<1>1. BInv => StrandedExplained
  BY DEF BInv
<1>2. QED
  BY <1>1, BoundsHold, PTL

(* NoMissedWake: every worker waiting with the flag down while the breaker *)
(* is closed and nothing raised means that no accepted message is untried. *)
THEOREM NoWakeIsMissed == Spec => []NoMissedWake
<1>1. WakeKept => NoMissedWake
  <2> SUFFICES ASSUME WakeKept, faults = 0, circuit = "closed",
                      \A w \in Workers : pc[w] = "waiting",
                      \A p \in Producers : producer[p] # "waking"
               PROVE  NoneQueued
    BY DEF NoMissedWake, NoneQueued
  <2>1. PICK w \in Workers : TRUE
    BY WorkersAssumption
  <2>2. ~wake /\ ~stopping /\ \A v \in Workers : ~WillLook(v)
    BY <2>1 DEF WakeKept, WillLook
  <2>3. QED
    BY <2>2, WakeParts DEF Excused
<1>2. QED
  BY <1>1, BoundsHold, PTL DEF BInv

=============================================================================
