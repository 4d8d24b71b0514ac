----------------------------- MODULE MailQueue ------------------------------
(***************************************************************************)
(* The mail queue of msgate: the SMTP front end and the API insert         *)
(* messages, worker threads claim them, send them to Exchange and record   *)
(* the outcome, under a circuit breaker and with retries after a backoff   *)
(* (src/msgate/queue/{service,worker,processor,repository}.py).            *)
(*                                                                         *)
(* A step is what one thread does between two points where another thread  *)
(* can act: a committed transaction, a locked breaker call, the network    *)
(* call, an operation on the wake event.                                   *)
(***************************************************************************)
EXTENDS MessageStore, CircuitBreaker

CONSTANTS
    Workers,            \* the worker threads
    Api,                \* API threads that submit test messages
    MaxPending,         \* MSGATE_QUEUE_MAX_PENDING
    RejectOnCircuit,    \* MSGATE_SMTP_REJECT_ON_CIRCUIT
    MaxAttempts,        \* MAX_ATTEMPTS
    BackoffBase,        \* first retry delay, in ticks
    BackoffCap,         \* longest retry delay, in ticks
    MaxFaults,          \* bound: steps that raise outside the send
    MaxCrashes,         \* bound: process deaths
    CanStop             \* whether the operator may stop the service

ASSUME QueueAssumption ==
    /\ MaxPending \in Nat \ {0}
    /\ RejectOnCircuit \in BOOLEAN
    /\ MaxAttempts \in Nat \ {0}
    /\ BackoffBase \in Nat \ {0}
    /\ BackoffCap \in Nat \ {0}
    /\ MaxFaults \in Nat
    /\ MaxCrashes \in Nat
    /\ CanStop \in BOOLEAN
    /\ "smtp" \notin Api

(* _worker_count clamps MSGATE_QUEUE_WORKERS to 1..32. *)
ASSUME WorkersAssumption == IsFiniteSet(Workers) /\ Workers # {}

VARIABLES
    pc,         \* where each worker is in _run and _drain
    row,        \* the row a worker selected or claimed, or NoRow
    didWork,    \* did_work of its current _drain
    wake,       \* the flag of the _wake event
    stopping,   \* the _stop event
    producer,   \* where each accepting thread is
    copies,     \* history: attempts whose mail reached Exchange
    ambiguous,  \* history: attempts that raised although the mail got there
    undone,     \* history: rows recorded as sent and then as something else
    overrun,    \* history: claims made while the breaker was open
    faults,     \* steps that raised so far
    crashes     \* process deaths so far

workerVars == <<pc, row, didWork>>
sendVars == <<copies, ambiguous, undone>>
historyVars == <<sendVars, overrun>>
budgetVars == <<faults, crashes>>

vars == <<storeVars, circuitVars, workerVars, wake, stopping, producer,
          historyVars, budgetVars>>

NoRow == 0
Producers == {"smtp"} \cup Api

WorkerPCs == {"admit", "select", "claim", "prepare", "sending", "confirmed",
              "recorded", "retriable", "permanent", "refresh", "succeeded",
              "faulted", "idle", "waiting", "woken", "exited"}
ProducerPCs == {"idle", "counting", "inserting", "waking"}

(* A worker between a successful claim and the moment the outcome it       *)
(* records is out of its hands: what it recorded as sent it may still      *)
(* record as something else.                                               *)
HandlingPCs == {"retriable", "permanent"}
HoldingPCs == {"prepare", "sending", "confirmed", "recorded"} \cup HandlingPCs
Holds(w) == pc[w] \in HoldingPCs
Held == {row[w] : w \in {v \in Workers : Holds(v)}}

(* Mutated Backoff: no maximum. *)
BackoffUncapped(n) == BackoffBase * 2^(n - 1)

(* backoff_seconds for attempts >= 1. *)
Backoff(n) ==
    LET d == BackoffBase * 2^(n - 1)
    IN  IF d \in 0..BackoffCap THEN d ELSE BackoffCap

Init ==
    /\ StoreInit
    /\ CircuitInit
    /\ pc = [w \in Workers |-> "admit"]
    /\ row = [w \in Workers |-> NoRow]
    /\ didWork = [w \in Workers |-> FALSE]
    /\ wake = FALSE
    /\ stopping = FALSE
    /\ producer = [p \in Producers |-> "idle"]
    /\ copies = [m \in Messages |-> 0]
    /\ ambiguous = [m \in Messages |-> 0]
    /\ undone = [m \in Messages |-> 0]
    /\ overrun = 0
    /\ faults = 0
    /\ crashes = 0

-----------------------------------------------------------------------------
(* Accepting mail.  The SMTP handler checks for backpressure first; the    *)
(* API handlers do not.  Both insert the row and then wake the workers.    *)

Goto(p, from, to) ==
    /\ producer[p] = from
    /\ producer' = [producer EXCEPT ![p] = to]

(* check_backpressure, first half: 451 while the breaker is open. *)
SmtpReadCircuit ==
    /\ ~stopping
    /\ ReadState
    /\ RejectOnCircuit => Settled # "open"
    /\ Goto("smtp", "idle", "counting")
    /\ UNCHANGED <<storeVars, workerVars, wake, stopping, historyVars, budgetVars>>

(* Mutated SmtpCount: the limit itself is let through. *)
SmtpCountAbove ==
    /\ Goto("smtp", "counting", IF CountPending > MaxPending THEN "idle" ELSE "inserting")
    /\ UNCHANGED <<storeVars, circuitVars, workerVars, wake, stopping, historyVars, budgetVars>>

(* Second half: 452 when the queue is full. *)
SmtpCount ==
    /\ Goto("smtp", "counting", IF CountPending >= MaxPending THEN "idle" ELSE "inserting")
    /\ UNCHANGED <<storeVars, circuitVars, workerVars, wake, stopping, historyVars, budgetVars>>

(* accept_smtp: the row is committed before anyone is woken. *)
AcceptInsert(p) ==
    /\ Goto(p, IF p = "smtp" THEN "inserting" ELSE "idle", "waking")
    /\ \E m \in Messages : Insert(m)
    /\ UNCHANGED <<circuitVars, workerVars, wake, stopping, historyVars, budgetVars>>

(* Mutated SetWake: whoever waits is notified, and no flag is kept. *)
SetWakeNotify ==
    /\ UNCHANGED wake
    /\ pc' = [w \in Workers |-> IF pc[w] = "waiting" THEN "woken" ELSE pc[w]]

(* Event.set: the flag stays up, and whoever is waiting now is released. *)
SetWake ==
    /\ wake' = TRUE
    /\ pc' = [w \in Workers |-> IF pc[w] = "waiting" THEN "woken" ELSE pc[w]]

AcceptWake(p) ==
    /\ Goto(p, "waking", "idle")
    /\ SetWake
    /\ UNCHANGED <<storeVars, circuitVars, row, didWork, stopping, historyVars, budgetVars>>

-----------------------------------------------------------------------------
(* The workers. *)

(* _drain returns did_work: _run goes round again after work, else it is about to wait. *)
LeaveDrain(w) ==
    /\ pc' = [pc EXCEPT ![w] = IF didWork[w] /\ ~stopping THEN "admit" ELSE "idle"]
    /\ row' = [row EXCEPT ![w] = NoRow]
    /\ didWork' = [didWork EXCEPT ![w] = FALSE]

(* The top of the loop of _drain. *)
Admit(w) ==
    /\ pc[w] = "admit"
    /\ \/ /\ stopping
          /\ LeaveDrain(w)
          /\ UNCHANGED circuitVars
       \/ /\ ~stopping
          /\ Allow(FALSE)
          /\ LeaveDrain(w)
       \/ /\ ~stopping
          /\ Allow(TRUE)
          /\ pc' = [pc EXCEPT ![w] = "select"]
          /\ UNCHANGED <<row, didWork>>
    /\ UNCHANGED <<storeVars, wake, stopping, producer, historyVars, budgetVars>>

(* claim_next, the SELECT. *)
Select(w) ==
    /\ pc[w] = "select"
    /\ \/ /\ Due = {}
          /\ LeaveDrain(w)
       \/ \E m \in Messages :
          /\ OldestDue(m)
          /\ row' = [row EXCEPT ![w] = m]
          /\ pc' = [pc EXCEPT ![w] = "claim"]
          /\ UNCHANGED didWork
    /\ UNCHANGED <<storeVars, circuitVars, wake, stopping, producer, historyVars, budgetVars>>

(* claim_next, the UPDATE: the loser of a race leaves _drain as if idle. *)
ClaimWon(w) ==
    /\ pc[w] = "claim"
    /\ ClaimUpdate(row[w])
    /\ pc' = [pc EXCEPT ![w] = "prepare"]
    /\ didWork' = [didWork EXCEPT ![w] = TRUE]
    /\ overrun' = IF Settled = "open" THEN overrun + 1 ELSE overrun
    /\ UNCHANGED <<circuitVars, row, wake, stopping, producer, sendVars, budgetVars>>

ClaimLost(w) ==
    /\ pc[w] = "claim"
    /\ ~Pending(row[w])
    /\ LeaveDrain(w)
    /\ UNCHANGED <<storeVars, circuitVars, wake, stopping, producer, historyVars, budgetVars>>

Step(w, from, to) ==
    /\ pc[w] = from
    /\ pc' = [pc EXCEPT ![w] = to]
    /\ UNCHANGED <<row, didWork>>

(* Mutated NotConfigured: process_row returns without mark_failed. *)
NotConfiguredSkips(w) ==
    /\ Step(w, "prepare", "refresh")
    /\ UNCHANGED <<storeVars, circuitVars, wake, stopping, producer, historyVars, budgetVars>>

(* process_row finds the driver unconfigured: the row fails without a send. *)
NotConfigured(w) ==
    /\ Step(w, "prepare", "refresh")
    /\ MarkFailed(row[w])
    /\ UNCHANGED <<circuitVars, wake, stopping, producer, historyVars, budgetVars>>

(* Otherwise it decrypts the password, builds the request and calls the driver. *)
StartSend(w) ==
    /\ Step(w, "prepare", "sending")
    /\ UNCHANGED <<storeVars, circuitVars, wake, stopping, producer, historyVars, budgetVars>>

(* Exchange takes the mail and the driver returns. *)
SendOk(w) ==
    /\ Step(w, "sending", "confirmed")
    /\ copies' = [copies EXCEPT ![row[w]] = @ + 1]
    /\ UNCHANGED <<storeVars, circuitVars, wake, stopping, producer, ambiguous, undone, overrun, budgetVars>>

(* The driver raises, an error is_retriable_error accepts or another one;  *)
(* the mail may have reached Exchange all the same.                        *)
SendRaises(w, kind) ==
    /\ Step(w, "sending", kind)
    /\ \/ UNCHANGED <<copies, ambiguous>>
       \/ /\ copies' = [copies EXCEPT ![row[w]] = @ + 1]
          /\ ambiguous' = [ambiguous EXCEPT ![row[w]] = @ + 1]
    /\ UNCHANGED <<storeVars, circuitVars, wake, stopping, producer, undone, overrun, budgetVars>>

(* process_row records the delivery, still inside its try ... *)
RecordSent(w) ==
    /\ Step(w, "confirmed", "recorded")
    /\ MarkSent(row[w])
    /\ UNCHANGED <<circuitVars, wake, stopping, producer, historyVars, budgetVars>>

(* ... and logs and publishes it there. *)
ReportSent(w) ==
    /\ Step(w, "recorded", "refresh")
    /\ UNCHANGED <<storeVars, circuitVars, wake, stopping, producer, historyVars, budgetVars>>

(* The log line selects the row again, for its values expired with the     *)
(* commit: when that or publish_sync raises, the except clause takes it    *)
(* for a failed send.                                                      *)
ReportRaises(w, kind) ==
    /\ faults < MaxFaults
    /\ Step(w, "recorded", kind)
    /\ faults' = faults + 1
    /\ UNCHANGED <<storeVars, circuitVars, wake, stopping, producer, historyVars, crashes>>

(* The except clause does not look at the status it overwrites. *)
NoteUndone(m) ==
    /\ undone' = [undone EXCEPT ![m] = IF status[m] = "sent" THEN @ + 1 ELSE @]
    /\ UNCHANGED <<copies, ambiguous, overrun>>

(* Mutated RecordRetry: an exhausted row is retried. *)
RecordRetryLast(w) ==
    /\ Step(w, "retriable", "refresh")
    /\ attempts[row[w]] <= MaxAttempts
    /\ MarkRetry(row[w], Backoff(attempts[row[w]]))
    /\ NoteUndone(row[w])
    /\ UNCHANGED <<circuitVars, wake, stopping, producer, budgetVars>>

RecordRetry(w) ==
    /\ Step(w, "retriable", "refresh")
    /\ attempts[row[w]] < MaxAttempts
    /\ MarkRetry(row[w], Backoff(attempts[row[w]]))
    /\ NoteUndone(row[w])
    /\ UNCHANGED <<circuitVars, wake, stopping, producer, budgetVars>>

RecordFailed(w) ==
    /\ \/ Step(w, "permanent", "refresh")
       \/ /\ Step(w, "retriable", "refresh")
          /\ attempts[row[w]] >= MaxAttempts
    /\ MarkFailed(row[w])
    /\ NoteUndone(row[w])
    /\ UNCHANGED <<circuitVars, wake, stopping, producer, budgetVars>>

(* session.refresh(row): the status may already be another worker's doing. *)
Refresh(w) ==
    /\ pc[w] = "refresh"
    /\ pc' = [pc EXCEPT ![w] =
                CASE status[row[w]] = "sent" -> "succeeded"
                  [] status[row[w]] \in {"failed", "retrying"} -> "faulted"
                  [] OTHER -> "admit"]
    /\ row' = [row EXCEPT ![w] = NoRow]
    /\ UNCHANGED <<storeVars, circuitVars, didWork, wake, stopping, producer, historyVars, budgetVars>>

TellSuccess(w) ==
    /\ Step(w, "succeeded", "admit")
    /\ RecordSuccess
    /\ overrun' = 0
    /\ UNCHANGED <<storeVars, wake, stopping, producer, sendVars, budgetVars>>

TellFailure(w) ==
    /\ Step(w, "faulted", "admit")
    /\ RecordFailure
    /\ overrun' = IF Settled = "open" THEN overrun ELSE 0
    /\ UNCHANGED <<storeVars, wake, stopping, producer, sendVars, budgetVars>>

(* wake.wait(timeout) returns at once when the flag is up ... *)
StartWait(w) ==
    /\ pc[w] = "idle"
    /\ pc' = [pc EXCEPT ![w] = IF wake THEN "woken" ELSE "waiting"]
    /\ UNCHANGED <<storeVars, circuitVars, row, didWork, wake, stopping, producer, historyVars, budgetVars>>

(* ... and otherwise after the poll interval at the latest. *)
PollTimeout(w) ==
    /\ Step(w, "waiting", "woken")
    /\ UNCHANGED <<storeVars, circuitVars, wake, stopping, producer, historyVars, budgetVars>>

(* Mutated ClearWake: the stop flag is not looked at again. *)
ClearWakeOnly(w) ==
    /\ Step(w, "woken", "admit")
    /\ wake' = FALSE
    /\ UNCHANGED <<storeVars, circuitVars, stopping, producer, historyVars, budgetVars>>

ClearWake(w) ==
    /\ Step(w, "woken", IF stopping THEN "exited" ELSE "admit")
    /\ wake' = FALSE
    /\ UNCHANGED <<storeVars, circuitVars, stopping, producer, historyVars, budgetVars>>

(* A statement outside the driver call raises: a database error in any     *)
(* transaction, or a row that cannot be decrypted or decoded.  _run logs   *)
(* the exception and waits; the transaction is rolled back, the claim that *)
(* was committed before it is not.  A commit of mark_sent that fails ends  *)
(* here too: it leaves the session unusable, so the except clause raises   *)
(* in its turn.                                                            *)
Escape(w) ==
    /\ faults < MaxFaults
    /\ pc[w] \in (HoldingPCs \ {"sending", "recorded"}) \cup {"select", "claim", "refresh"}
    /\ pc' = [pc EXCEPT ![w] = "idle"]
    /\ row' = [row EXCEPT ![w] = NoRow]
    /\ didWork' = [didWork EXCEPT ![w] = FALSE]
    /\ faults' = faults + 1
    /\ UNCHANGED <<storeVars, circuitVars, wake, stopping, producer, historyVars, crashes>>

-----------------------------------------------------------------------------
(* The process and its surroundings. *)

(* The health and metrics endpoints read circuit.state. *)
ObserveCircuit ==
    /\ ReadState
    /\ circuit' # circuit
    /\ UNCHANGED <<storeVars, workerVars, wake, stopping, producer, historyVars, budgetVars>>

Tick ==
    /\ StoreElapse
    /\ Elapse
    /\ <<delay', age'>> # <<delay, age>>
    /\ UNCHANGED <<workerVars, wake, stopping, producer, historyVars, budgetVars>>

(* worker.stop(), after the SMTP controller is down. *)
Stop ==
    /\ CanStop
    /\ ~stopping
    /\ producer["smtp"] = "idle"
    /\ stopping' = TRUE
    /\ SetWake
    /\ UNCHANGED <<storeVars, circuitVars, row, didWork, producer, historyVars, budgetVars>>

(* Mutated Crash: the new process queues again what the old one was sending. *)
CrashRequeues ==
    /\ crashes < MaxCrashes
    /\ crashes' = crashes + 1
    /\ failures' = 0 /\ circuit' = "closed" /\ age' = 0
    /\ pc' = [w \in Workers |-> "admit"]
    /\ row' = [w \in Workers |-> NoRow]
    /\ didWork' = [w \in Workers |-> FALSE]
    /\ wake' = FALSE
    /\ stopping' = FALSE
    /\ producer' = [p \in Producers |-> "idle"]
    /\ overrun' = 0
    /\ status' = [m \in Messages |-> IF status[m] = "processing" THEN "retrying" ELSE status[m]]
    /\ UNCHANGED <<attempts, delay, sendVars, faults>>

(* The process dies, or leaves workers behind that stop() did not wait     *)
(* for, and starts again: only the database survives, and no row in it is  *)
(* touched at start.                                                       *)
Crash ==
    /\ crashes < MaxCrashes
    /\ crashes' = crashes + 1
    /\ failures' = 0 /\ circuit' = "closed" /\ age' = 0
    /\ pc' = [w \in Workers |-> "admit"]
    /\ row' = [w \in Workers |-> NoRow]
    /\ didWork' = [w \in Workers |-> FALSE]
    /\ wake' = FALSE
    /\ stopping' = FALSE
    /\ producer' = [p \in Producers |-> "idle"]
    /\ overrun' = 0
    /\ UNCHANGED <<storeVars, sendVars, faults>>

WorkerStep(w) ==
    \/ Admit(w) \/ Select(w) \/ ClaimWon(w) \/ ClaimLost(w)
    \/ NotConfigured(w) \/ StartSend(w) \/ SendOk(w)
    \/ SendRaises(w, "retriable") \/ SendRaises(w, "permanent")
    \/ RecordSent(w) \/ ReportSent(w) \/ RecordRetry(w) \/ RecordFailed(w)
    \/ Refresh(w) \/ TellSuccess(w) \/ TellFailure(w)
    \/ StartWait(w) \/ PollTimeout(w) \/ ClearWake(w)

WorkerRaises(w) == Escape(w) \/ \E kind \in HandlingPCs : ReportRaises(w, kind)

SmtpStep == SmtpReadCircuit \/ SmtpCount \/ AcceptInsert("smtp") \/ AcceptWake("smtp")
ApiStep(p) == AcceptInsert(p) \/ AcceptWake(p)

Next ==
    \/ SmtpStep
    \/ \E p \in Api : ApiStep(p)
    \/ \E w \in Workers : WorkerStep(w) \/ WorkerRaises(w)
    \/ ObserveCircuit
    \/ Tick
    \/ Stop
    \/ Crash

Spec == Init /\ [][Next]_vars

(* The operating system runs every thread, time passes, and a send ends.   *)
(* Nothing is assumed of how it ends.                                      *)
FairSpec ==
    /\ Spec
    /\ WF_vars(Tick)
    /\ \A w \in Workers : WF_vars(WorkerStep(w))
    /\ \A p \in Producers : WF_vars(AcceptWake(p))

-----------------------------------------------------------------------------
(* Correctness. *)

StoreTypeOK ==
    /\ status \in [Messages -> Statuses]
    /\ attempts \in [Messages -> 0..MaxAttempts]
    /\ delay \in [Messages -> 0..BackoffCap]

ThreadTypeOK ==
    /\ pc \in [Workers -> WorkerPCs]
    /\ row \in [Workers -> Messages \cup {NoRow}]
    /\ didWork \in [Workers -> BOOLEAN]
    /\ wake \in BOOLEAN
    /\ stopping \in BOOLEAN
    /\ producer \in [Producers -> ProducerPCs]

HistoryTypeOK ==
    /\ copies \in [Messages -> Nat]
    /\ ambiguous \in [Messages -> Nat]
    /\ undone \in [Messages -> Nat]
    /\ overrun \in Nat
    /\ faults \in 0..MaxFaults
    /\ crashes \in 0..MaxCrashes

(* Every variable has its type; in particular no attempt count and no      *)
(* retry delay leaves its range.                                           *)
TypeOK == StoreTypeOK /\ CircuitTypeOK /\ ThreadTypeOK /\ HistoryTypeOK

(* A row is in the hands of at most one worker, and is marked as being     *)
(* processed the whole time, or as sent once it was: claim_next really     *)
(* hands it to one thread, although its SELECT and UPDATE are two          *)
(* statements.                                                             *)
ExclusiveClaim ==
    /\ \A w \in Workers : Holds(w) =>
        /\ row[w] \in Messages
        /\ \/ status[row[w]] = "processing" /\ pc[w] # "recorded"
           \/ status[row[w]] = "sent" /\ pc[w] \in {"recorded"} \cup HandlingPCs
    /\ \A v, w \in Workers : Holds(v) /\ Holds(w) /\ row[v] = row[w] => v = w

(* MAX_ATTEMPTS is never exceeded, although claim_next raises the count    *)
(* before process_row tests it: a row that may be claimed again has an     *)
(* attempt left.                                                           *)
AttemptsBounded ==
    \A m \in Messages :
        /\ status[m] \in {"absent", "queued"} => attempts[m] = 0
        /\ status[m] = "retrying" => attempts[m] \in 1..(MaxAttempts - 1)
        /\ status[m] \in {"processing", "sent"} => attempts[m] \in 1..MaxAttempts

(* Two things alone make a message arrive twice, or arrive although it is  *)
(* marked as failed: an attempt that raised although its mail got there,   *)
(* and a delivery recorded as sent whose report raised, so that the same   *)
(* worker recorded it as failed or to be retried; the latter at most once  *)
(* per step that raised.  No race between workers and no crash adds a copy *)
(* or loses one that is marked as sent.                                    *)
CopiesExplained ==
    \A m \in Messages :
        /\ copies[m] <= 1 + ambiguous[m] + undone[m]
        /\ undone[m] <= faults
        /\ status[m] = "sent" => copies[m] = 1 + ambiguous[m] + undone[m]
        /\ status[m] \in {"queued", "retrying", "failed"}
            => copies[m] = ambiguous[m] + undone[m]

(* A worker that selected a row, or has just recorded its outcome, knows it. *)
RowKnown ==
    \A w \in Workers : pc[w] \in {"claim", "refresh"} => row[w] \in Messages

(* The worker that holds the row handles an exception its own report of    *)
(* the delivery raised.                                                    *)
Doubts(w) == pc[w] \in HandlingPCs /\ status[row[w]] = "sent"

(* CopiesExplained, row by row and step by step: while a worker holds a    *)
(* row, a copy is unexplained exactly from the confirmed send to its       *)
(* recording, and from there until an exception of its report is recorded; *)
(* that exception is a fault not counted against the row yet.              *)
CopiesTracked ==
    /\ CopiesExplained
    /\ \A m \in Messages : status[m] = "absent" => copies[m] = ambiguous[m] + undone[m]
    /\ \A w \in Workers : Holds(w) /\ status[row[w]] = "processing" =>
        copies[row[w]] = ambiguous[row[w]] + undone[row[w]]
                            + (IF pc[w] = "confirmed" THEN 1 ELSE 0)
    /\ \A w \in Workers : Doubts(w) => undone[row[w]] < faults

(* The inductive invariant: each of its parts needs the others to survive  *)
(* a step (a claim keeps the attempts in range only because a claimable    *)
(* row has one left, the recording of an outcome only hits the worker's    *)
(* own row because claims are exclusive).                                  *)
IInv == TypeOK /\ RowKnown /\ ExclusiveClaim /\ AttemptsBounded /\ CopiesTracked

(* failed is final, and sent is taken back by no claim, race or restart,   *)
(* whatever worker still holds a stale copy of the row: only by the very   *)
(* worker that recorded it, when the report of it raised, and then without *)
(* giving the attempt back.                                                *)
FinalStates ==
    [][\A m \in Messages :
        /\ status[m] = "failed" => status'[m] = "failed" /\ attempts'[m] = attempts[m]
        /\ status[m] = "sent" =>
            /\ attempts'[m] = attempts[m]
            /\ status'[m] = "sent" \/ \E w \in Workers : Doubts(w) /\ row[w] = m]_vars

(* A row marked as being processed that no worker is processing was left   *)
(* behind by a step that raised or by a crash; one of those leaves at most *)
(* one row per worker, and a clean run or a graceful stop none.            *)
StrandedExplained ==
    Cardinality({m \in Messages : status[m] = "processing" /\ m \notin Held})
        <= faults + crashes * Cardinality(Workers)

(* Once the breaker is open the sends that still start are those of        *)
(* workers let through before: at most one each, and none by the worker    *)
(* that opened it.                                                         *)
OverrunBounded == overrun < Cardinality(Workers)

(* With mail only coming in over SMTP, the rows waiting or in a worker's   *)
(* hands never exceed the limit by more than one per worker: the check and *)
(* the insert are apart, but there is only one SMTP thread, and what comes *)
(* back for a retry was in a worker's hands.                               *)
PendingBounded ==
    Api = {} => CountPending + Cardinality(Held) <= MaxPending + Cardinality(Workers)

(* No wake-up is lost: while the breaker is closed and no step has raised, *)
(* the workers are never all waiting with the flag down while an accepted  *)
(* message has not been tried; no message depends on the poll interval for *)
(* its first attempt.                                                      *)
NoMissedWake ==
    /\ faults = 0
    /\ circuit = "closed"
    /\ \A w \in Workers : pc[w] = "waiting"
    /\ \A p \in Producers : producer[p] # "waking"
    => \A m \in Messages : status[m] # "queued"

(* The queue keeps the promise of module Delivery. *)
InHandAt(m, at) == \E w \in Workers : pc[w] = at /\ row[w] = m

Stage(m) ==
    CASE status[m] = "absent" -> "new"
      [] Pending(m) -> "pending"
      [] status[m] = "processing" ->
            IF InHandAt(m, "confirmed") THEN "confirmed"
            ELSE IF m \in Held THEN "trying" ELSE "stranded"
      [] status[m] = "sent" ->
            IF InHandAt(m, "recorded") THEN "confirmed"
            ELSE IF m \in Held THEN "doubted" ELSE "sent"
      [] OTHER -> "failed"

StageMap == [m \in Messages |-> Stage(m)]

Promise == INSTANCE Delivery
    WITH Limit <- MaxAttempts, stage <- StageMap, tries <- attempts

ImplementsDelivery == Promise!Spec

(* While nothing raises outside the send and the process lives, every      *)
(* accepted message ends as sent or failed, unless the service is stopped: *)
(* neither the backoff, nor an open breaker, nor lost claim races starve   *)
(* it, whatever the sends do.                                              *)
EventuallyResolved ==
    \A m \in Messages :
        status[m] # "absent" ~> status[m] \in {"sent", "failed"} \/ stopping

(* After stop() every worker leaves its loop, one that missed the wake-up  *)
(* included.                                                               *)
StopCompletes ==
    stopping ~> (\A w \in Workers : pc[w] = "exited") \/ ~stopping

-----------------------------------------------------------------------------
(* What the documentation says, and the code does not do. *)

(* docs/queue.md: failures retry with backoff. *)
BackoffHonoured ==
    [][\A m \in Messages :
            status[m] = "retrying" /\ status'[m] = "processing" => delay[m] = 0]_vars

=============================================================================
