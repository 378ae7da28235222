--------------------------- MODULE MCPaymentPipeline ---------------------------
(* Instances of PaymentPipeline small enough for TLC. *)
EXTENDS PaymentPipeline, TLC

CONSTANTS p1, p2

\* Both payments hash to one partition, so that their events share an offset
\* sequence; a second partition exists and stays empty.
MCExecute == p1 :> "COMPLETED" @@ p2 :> "FAILED"
MCPartitionOf == p1 :> 1 @@ p2 :> 1

\* Each payment in a partition of its own.
MCPartitionOfEach == p1 :> 1 @@ p2 :> 2

\* Payments that execute alike, in one partition, are interchangeable.
MCExecuteAlike == p1 :> "COMPLETED" @@ p2 :> "COMPLETED"

Symmetry ==
  Permutations(Publishers) \cup Permutations(Consumers) \cup Permutations(Payments)

=============================================================================
