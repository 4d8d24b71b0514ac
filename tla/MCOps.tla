------------------------------- MODULE MCOps --------------------------------
(* Instances of Ops for TLC. *)
EXTENDS Ops

(* A fresh installation, and everything switched on. *)
MCStored == {[admin_email |-> FALSE, email_alerts |-> TRUE, daily |-> FALSE, weekly |-> FALSE],
             [admin_email |-> TRUE, email_alerts |-> TRUE, daily |-> TRUE, weekly |-> TRUE]}

(* Calm, at the first threshold, critical by age and by the breaker alone. *)
MCLoads == {[pending |-> 0, age |-> NoAge, open |-> FALSE],
            [pending |-> 2, age |-> 0, open |-> FALSE],
            [pending |-> 1, age |-> 6, open |-> FALSE],
            [pending |-> 0, age |-> NoAge, open |-> TRUE]}

MCActivities == {{"watcher", "alerts"}, {"scheduler", "digests"}, {"alerts", "digests"}}

=============================================================================
