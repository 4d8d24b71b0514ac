------------------------------ MODULE Delivery ------------------------------
(***************************************************************************)
(* What the queue promises to whoever handed it a message, without         *)
(* workers, claims or a circuit breaker: an accepted message is tried at   *)
(* most Limit times, one attempt at a time; sent and failed are final; an  *)
(* attempt follows a confirmed one only if the confirmation came into      *)
(* doubt before the outcome was final.  The one thing the promise does not *)
(* exclude is that an attempt is abandoned (the process dies or its step   *)
(* fails), which leaves the message stranded for good, or sent.            *)
(***************************************************************************)
EXTENDS Integers

CONSTANTS Messages, Limit

VARIABLES
    stage,  \* where each message is
    tries   \* attempts begun

Stages == {"new", "pending", "trying", "confirmed", "doubted", "stranded",
           "sent", "failed"}

deliveryVars == <<stage, tries>>

DeliveryTypeOK ==
    /\ stage \in [Messages -> Stages]
    /\ tries \in [Messages -> 0..Limit]

Init ==
    /\ stage = [m \in Messages |-> "new"]
    /\ tries = [m \in Messages |-> 0]

Move(m, from, to) ==
    /\ stage[m] \in from
    /\ stage' = [stage EXCEPT ![m] = to]

Accept(m)  == Move(m, {"new"}, "pending") /\ UNCHANGED tries
Begin(m)   == /\ Move(m, {"pending"}, "trying")
              /\ tries[m] < Limit
              /\ tries' = [tries EXCEPT ![m] = @ + 1]
Confirm(m) == Move(m, {"trying"}, "confirmed") /\ UNCHANGED tries
Doubt(m)   == Move(m, {"confirmed"}, "doubted") /\ UNCHANGED tries
Finish(m)  == Move(m, {"confirmed"}, "sent") /\ UNCHANGED tries
GiveUp(m)  == Move(m, {"trying", "doubted"}, "failed") /\ UNCHANGED tries

(* Another attempt is scheduled only while one is left. *)
PutBack(m) ==
    /\ Move(m, {"trying", "doubted"}, "pending")
    /\ tries[m] < Limit
    /\ UNCHANGED tries

(* Several attempts are abandoned at once: those of S are stranded, those  *)
(* of T count as sent.                                                     *)
Abandon(S, T) ==
    /\ \A m \in S : stage[m] \in {"trying", "confirmed"}
    /\ \A m \in T : stage[m] \in {"confirmed", "doubted"}
    /\ stage' = [m \in Messages |-> IF m \in S THEN "stranded"
                                    ELSE IF m \in T THEN "sent" ELSE stage[m]]
    /\ UNCHANGED tries

Next ==
    \/ \E m \in Messages :
        \/ Accept(m) \/ Begin(m) \/ Confirm(m) \/ Doubt(m)
        \/ Finish(m) \/ GiveUp(m) \/ PutBack(m)
    \/ \E S, T \in SUBSET Messages : Abandon(S, T)

Spec == Init /\ [][Next]_deliveryVars

=============================================================================
