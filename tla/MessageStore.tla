---------------------------- MODULE MessageStore ----------------------------
(***************************************************************************)
(* The messages table and the statements src/msgate/queue/repository.py    *)
(* runs on it.  Each operator is one committed transaction.  Messages are  *)
(* numbered in the order of created_at; `delay' is the time left until     *)
(* next_retry_at, in ticks, 0 when it is NULL or past.                     *)
(***************************************************************************)
EXTENDS Integers, FiniteSets

CONSTANT MaxMessages    \* bound: rows ever inserted

ASSUME StoreAssumption == MaxMessages \in Nat

Messages == 1..MaxMessages

VARIABLES status, attempts, delay

storeVars == <<status, attempts, delay>>

(* MessageStatus, and "absent" for a row that is not inserted yet. *)
Statuses == {"absent", "queued", "processing", "retrying", "sent", "failed"}

PendingStatuses == {"queued", "retrying"}

StoreInit ==
    /\ status = [m \in Messages |-> "absent"]
    /\ attempts = [m \in Messages |-> 0]
    /\ delay = [m \in Messages |-> 0]

Pending(m) == status[m] \in PendingStatuses

(* count_pending: rows being processed are not counted. *)
CountPending == Cardinality({m \in Messages : Pending(m)})

(* pending_messages(limit=1): the oldest row whose retry time has come. *)
Due == {m \in Messages : Pending(m) /\ delay[m] = 0}
OldestDue(m) == m \in Due /\ \A k \in Due : m <= k

(* insert_message: queued, due at once. *)
Insert(m) ==
    /\ status[m] = "absent"
    /\ \A k \in Messages : status[k] = "absent" => m <= k
    /\ status' = [status EXCEPT ![m] = "queued"]
    /\ UNCHANGED <<attempts, delay>>

(* Mutated ClaimUpdate: the UPDATE trusts the SELECT. *)
ClaimUpdateBlind(m) ==
    /\ status' = [status EXCEPT ![m] = "processing"]
    /\ attempts' = [attempts EXCEPT ![m] = @ + 1]
    /\ delay' = [delay EXCEPT ![m] = 0]

(* Mutated ClaimUpdate: only a row being processed is refused. *)
ClaimUpdateIdle(m) ==
    /\ status[m] # "processing"
    /\ ClaimUpdateBlind(m)

(* The UPDATE of claim_next: conditional on the status alone, so the retry *)
(* time seen by the SELECT before it is not looked at again.  The stored   *)
(* next_retry_at is kept (mark_* overwrites it), but no one reads it while *)
(* the row is being processed: its remainder is dropped here.              *)
ClaimUpdate(m) ==
    /\ Pending(m)
    /\ status' = [status EXCEPT ![m] = "processing"]
    /\ attempts' = [attempts EXCEPT ![m] = @ + 1]
    /\ delay' = [delay EXCEPT ![m] = 0]

MarkSent(m) ==
    /\ status' = [status EXCEPT ![m] = "sent"]
    /\ delay' = [delay EXCEPT ![m] = 0]
    /\ UNCHANGED attempts

MarkRetry(m, d) ==
    /\ status' = [status EXCEPT ![m] = "retrying"]
    /\ delay' = [delay EXCEPT ![m] = d]
    /\ UNCHANGED attempts

MarkFailed(m) ==
    /\ status' = [status EXCEPT ![m] = "failed"]
    /\ delay' = [delay EXCEPT ![m] = 0]
    /\ UNCHANGED attempts

(* Time passes: every retry comes one tick closer. *)
StoreElapse ==
    /\ delay' = [m \in Messages |-> IF delay[m] > 0 THEN delay[m] - 1 ELSE 0]
    /\ UNCHANGED <<status, attempts>>

=============================================================================
