----------------------------- MODULE DriverCall -----------------------------
(***************************************************************************)
(* What MailQueue assumes of MailDriver.send when it makes an attempt one  *)
(* step: a call ends with an answer only if the mail reached Exchange      *)
(* during that call; a call that raises may have delivered all the same;   *)
(* and nothing is delivered for a call that has ended.                     *)
(***************************************************************************)
CONSTANT Workers

VARIABLES
    answer,     \* where each worker's call is
    delivered   \* whether its mail has reached Exchange

callVars == <<answer, delivered>>

Init ==
    /\ answer = [w \in Workers |-> "none"]
    /\ delivered = [w \in Workers |-> FALSE]

Answer(w, from, to) ==
    /\ answer[w] = from
    /\ answer' = [answer EXCEPT ![w] = to]

Call(w) == Answer(w, "none", "pending") /\ UNCHANGED delivered

Reach(w) ==
    /\ answer[w] = "pending"
    /\ delivered' = [delivered EXCEPT ![w] = TRUE]
    /\ UNCHANGED answer

Confirm(w) ==
    /\ Answer(w, "pending", "ok")
    /\ delivered' = [delivered EXCEPT ![w] = TRUE]

(* The mail of the last send may have got through although it raised. *)
Fail(w) ==
    /\ Answer(w, "pending", "raised")
    /\ \E d \in {delivered[w], TRUE} : delivered' = [delivered EXCEPT ![w] = d]

Return(w) ==
    /\ answer[w] \in {"ok", "raised"}
    /\ answer' = [answer EXCEPT ![w] = "none"]
    /\ delivered' = [delivered EXCEPT ![w] = FALSE]

(* The process ends: every call with it. *)
Die ==
    /\ answer' = [w \in Workers |-> "none"]
    /\ delivered' = [w \in Workers |-> FALSE]

Next ==
    \/ \E w \in Workers : Call(w) \/ Reach(w) \/ Confirm(w) \/ Fail(w) \/ Return(w)
    \/ Die

Spec == Init /\ [][Next]_callVars

=============================================================================
