---------------------------- MODULE PaymentLifecycle ----------------------------
(***************************************************************************)
(* What the service promises about the status column of the payments       *)
(* table, whoever writes it: the life of a payment, one row at a time.     *)
(*                                                                         *)
(*   simulated:  ROUTED -> PROCESSING -> COMPLETED or FAILED               *)
(*   testnet:    ROUTED -> PROCESSING -> SUBMITTED -> COMPLETED or FAILED  *)
(*               with PROCESSING -> FAILED when a pre-flight check fails   *)
(*                                                                         *)
(* Every transition is one guarded UPDATE of one row.  PaymentPipeline and *)
(* TestnetExecution are the detailed specifications that implement it.     *)
(***************************************************************************)

CONSTANTS
  Payments,   \* payment ids
  Mode        \* execution_mode of every payment, fixed when it is created

VARIABLE status     \* payments.status, "NONE" before the row exists

Statuses == {"ROUTED", "PROCESSING", "SUBMITTED", "COMPLETED", "FAILED"}

Terminal == {"COMPLETED", "FAILED"}

Move(p, from, to) ==
  /\ status[p] = from
  /\ status' = [status EXCEPT ![p] = to]

\* CreateOrGetPayment inserts the row; the column's default is ROUTED.
Create(p) == Move(p, "NONE", "ROUTED")

\* ClaimPayment: UPDATE ... WHERE status = 'ROUTED'.
Claim(p) == Move(p, "ROUTED", "PROCESSING")

\* CompletePayment: UPDATE ... WHERE status = 'PROCESSING'; the consumer and
\* the recovery sweep call it, for simulated payments only.
Complete(p) ==
  /\ Mode[p] = "simulated"
  /\ \E t \in Terminal : Move(p, "PROCESSING", t)

\* MarkProcessingFailed: a testnet payment's pre-flight check failed.
RejectUnexecuted(p) == Mode[p] = "testnet" /\ Move(p, "PROCESSING", "FAILED")

\* MarkSubmitted: the transaction of a testnet payment was broadcast.
Submit(p) == Mode[p] = "testnet" /\ Move(p, "PROCESSING", "SUBMITTED")

\* CompleteSubmittedPayment: the reconciler saw the outcome.
Settle(p) ==
  /\ Mode[p] = "testnet"
  /\ \E t \in Terminal : Move(p, "SUBMITTED", t)

Init == status = [p \in Payments |-> "NONE"]

Next ==
  \E p \in Payments :
    \/ Create(p)
    \/ Claim(p)
    \/ Complete(p)
    \/ RejectUnexecuted(p)
    \/ Submit(p)
    \/ Settle(p)

Spec == Init /\ [][Next]_status

=============================================================================
