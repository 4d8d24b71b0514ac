----------------------------- MODULE MCMailQueue ----------------------------
(* Instances of MailQueue for TLC. *)
EXTENDS MailQueue, TLC

(* The workers run the same loop and nothing tells them apart. *)
Interchangeable == Permutations(Workers)

(* What Next reads: the history of the sends is left out where no property *)
(* of the run looks at it.                                                 *)
WithoutSends ==
    <<storeVars, circuitVars, pc, row, didWork, wake, stopping, producer, overrun, budgetVars>>

(* The same without the history of the breaker. *)
WithoutBreakerHistory ==
    <<storeVars, circuitVars, pc, row, didWork, wake, stopping, producer,
      sendVars, budgetVars>>

(* Nothing but what Next reads. *)
WithoutHistory ==
    <<storeVars, circuitVars, pc, row, didWork, wake, stopping, producer, budgetVars>>

=============================================================================
