---------------------------- MODULE PaymentPipeline ----------------------------
(***************************************************************************)
(* The asynchronous path of a simulated payment: the API's transaction     *)
(* that writes the payment and its outbox event, the outbox publishers,    *)
(* the Kafka topic, the consumer goroutines of the worker, its recovery    *)
(* sweep, and crashes of the worker process.                               *)
(*                                                                         *)
(* One worker process runs all publishers and consumers (cmd/worker,       *)
(* WORKER_PUBLISHER_CONCURRENCY and WORKER_CONSUMER_CONCURRENCY goroutines *)
(* over one shared kafka-go Reader).  A database statement or transaction  *)
(* is one step; everything a goroutine does between two of them may        *)
(* interleave with the others.  A statement that reports an error may or   *)
(* may not have been applied (a timeout after the server committed).       *)
(*                                                                         *)
(* Wall-clock staleness (updated_at older than the threshold) is left      *)
(* open: the sweep may see any PROCESSING payment as stale, which includes *)
(* the stalled-but-alive worker the comment on Recovery talks about.       *)
(***************************************************************************)
EXTENDS Naturals, Sequences, FiniteSets, Functions

CONSTANTS
  Payments,       \* payment ids
  NoPayment,      \* "no row" for an idle publisher
  Execute,        \* execution.Execute as a function: COMPLETED or FAILED
  NumPartitions,  \* partitions of chainroute.payments.routed
  PartitionOf,    \* the producer's Hash balancer over the payment id
  Publishers,     \* outbox publisher goroutines
  Consumers,      \* consumer goroutines
  MaxCreatedAt,   \* bound: distinct created_at timestamps of outbox rows
  Faulty,         \* which kinds of faults happen
  MaxFaults       \* bound: how many faults happen in all

Partitions == 1..NumPartitions

\* What can go wrong: the worker process dies; its membership of the consumer
\* group starts a new generation; one of the attempts of the producer's Writer
\* fails and it tries again; PublishNextOutboxEvent, ClaimPayment,
\* CompletePayment or CommitMessages returns an error.
FaultKinds == {"crash", "rebalance", "produce", "publish", "claim", "complete", "commit"}

ASSUME PaymentsAssumption == NoPayment \notin Payments

ASSUME ExecuteAssumption == Execute \in [Payments -> {"COMPLETED", "FAILED"}]

ASSUME PartitionAssumption ==
  /\ NumPartitions \in Nat \ {0}
  /\ PartitionOf \in [Payments -> Partitions]

ASSUME BoundsAssumption ==
  /\ MaxCreatedAt \in Nat \ {0}
  /\ Faulty \subseteq FaultKinds
  /\ MaxFaults \in Nat

VARIABLES
  status,     \* payments.status, "NONE" before the row exists
  createdAt,  \* outbox_events.created_at, 0 before the row exists
  published,  \* payments whose outbox row has published_at set
  pubPc,      \* each publisher: "idle", "claimed" or "sent"
  pubRow,     \* the row whose lock its open transaction holds
  log,        \* Kafka: the messages of each partition, oldest first
  inFlight,   \* Kafka: produce requests of each event that the writer has given
              \* up on and the broker may still append
  position,   \* Kafka reader: messages of each partition handed out
  committed,  \* Kafka: messages of each partition up to the committed offset
  con,        \* each consumer: where it is and the message it holds
  sweep,      \* recovery: ids of the current sweep not yet visited
  faults      \* faults so far, by kind

dbVars == <<status, createdAt, published>>
pubVars == <<pubPc, pubRow>>
kafkaVars == <<log, inFlight, position, committed>>
vars == <<dbVars, pubVars, kafkaVars, con, sweep, faults>>

Statuses == {"NONE", "ROUTED", "PROCESSING", "COMPLETED", "FAILED"}

Terminal == {"COMPLETED", "FAILED"}

\* A consumer between two messages.  Messages are numbered from 1.
Idle == [pc |-> "idle", part |-> 0, off |-> 0]

ConsumerStates ==
  {Idle} \cup [pc : {"fetched", "claimed", "handled"},
               part : Partitions, off : Nat \ {0}]

Offsets(i) == 1..Len(log[i])

\* No component points past the end of a partition, and a publisher holds a
\* row lock exactly while its transaction is open.
PointersInRange ==
  /\ \A i \in Partitions : position[i] <= Len(log[i]) /\ committed[i] <= Len(log[i])
  /\ \A c \in Consumers : con[c] # Idle => con[c].off \in Offsets(con[c].part)
  /\ \A w \in Publishers : pubPc[w] = "idle" <=> pubRow[w] = NoPayment

\* The type invariant: the values the columns, offsets and goroutines of the
\* pipeline may have, and that what points into a log points inside it.
TypeOK ==
  /\ status \in [Payments -> Statuses]
  /\ createdAt \in [Payments -> 0..MaxCreatedAt]
  /\ published \in SUBSET Payments
  /\ pubPc \in [Publishers -> {"idle", "claimed", "sent"}]
  /\ pubRow \in [Publishers -> Payments \cup {NoPayment}]
  /\ log \in [Partitions -> Seq(Payments)]
  /\ inFlight \in [Payments -> Nat]
  /\ position \in [Partitions -> Nat]
  /\ committed \in [Partitions -> Nat]
  /\ con \in [Consumers -> ConsumerStates]
  /\ sweep \in SUBSET Payments
  /\ faults \in [FaultKinds -> Nat]
  /\ PointersInRange

Init ==
  /\ status = [p \in Payments |-> "NONE"]
  /\ createdAt = [p \in Payments |-> 0]
  /\ published = {}
  /\ pubPc = [w \in Publishers |-> "idle"]
  /\ pubRow = [w \in Publishers |-> NoPayment]
  /\ log = [i \in Partitions |-> <<>>]
  /\ inFlight = [p \in Payments |-> 0]
  /\ position = [i \in Partitions |-> 0]
  /\ committed = [i \in Partitions |-> 0]
  /\ con = [c \in Consumers |-> Idle]
  /\ sweep = {}
  /\ faults = [k \in FaultKinds |-> 0]

TotalFaults == FoldFunction(+, 0, faults)

Fault(kind) ==
  /\ kind \in Faulty
  /\ TotalFaults < MaxFaults
  /\ faults' = [faults EXCEPT ![kind] = @ + 1]

-----------------------------------------------------------------------------
(***************************************************************************)
(* The API.  CreateOrGetPayment inserts the payment (status ROUTED) and    *)
(* its outbox row in one transaction.  created_at is the transaction's     *)
(* start time, so rows need not commit in created_at order.                *)
(***************************************************************************)
CreatePayment(p, t) ==
  /\ status[p] = "NONE"
  /\ status' = [status EXCEPT ![p] = "ROUTED"]
  /\ createdAt' = [createdAt EXCEPT ![p] = t]
  /\ UNCHANGED <<published, pubVars, kafkaVars, con, sweep, faults>>

-----------------------------------------------------------------------------
(***************************************************************************)
(* The outbox publishers: one PollOnce is one transaction of               *)
(* PublishNextOutboxEvent, held open across the Kafka write.               *)
(***************************************************************************)
LockedRows == {pubRow[w] : w \in Publishers}

\* Mutant: the query takes no row lock.
UnclaimedRowsUnlocked == {p \in Payments : createdAt[p] # 0} \ published

\* SELECT ... WHERE published_at IS NULL ... FOR UPDATE SKIP LOCKED
UnclaimedRows == {p \in Payments : createdAt[p] # 0} \ (published \cup LockedRows)

\* ... ORDER BY created_at LIMIT 1
PublisherClaim(w) ==
  /\ pubPc[w] = "idle"
  /\ \E p \in UnclaimedRows :
       /\ \A q \in UnclaimedRows : createdAt[p] <= createdAt[q]
       /\ pubPc' = [pubPc EXCEPT ![w] = "claimed"]
       /\ pubRow' = [pubRow EXCEPT ![w] = p]
  /\ UNCHANGED <<dbVars, kafkaVars, con, sweep, faults>>

\* The broker appends the event of a produce request, keyed by payment id.
Deliver(p) == log' = [log EXCEPT ![PartitionOf[p]] = Append(@, p)]

\* The writer stops waiting for the answer to a produce request.
GiveUp(p) == inFlight' = [inFlight EXCEPT ![p] = @ + 1]

\* producer.Publish: the broker has acknowledged the last attempt.
PublisherSend(w) ==
  /\ pubPc[w] = "claimed"
  /\ Deliver(pubRow[w])
  /\ pubPc' = [pubPc EXCEPT ![w] = "sent"]
  /\ UNCHANGED <<dbVars, pubRow, inFlight, position, committed, con, sweep, faults>>

\* The Writer is not idempotent and its MaxAttempts is the default of 10: an
\* attempt without an answer is followed by another, inside Publish.
ProduceRetry(w) ==
  /\ Fault("produce")
  /\ pubPc[w] = "claimed"
  /\ GiveUp(pubRow[w])
  /\ UNCHANGED <<dbVars, pubVars, log, position, committed, con, sweep>>

\* A request nobody waits for any more takes effect after all, however late.
\* One that was lost never does.
BrokerAppend(p) ==
  /\ inFlight[p] > 0
  /\ Deliver(p)
  /\ inFlight' = [inFlight EXCEPT ![p] = @ - 1]
  /\ UNCHANGED <<dbVars, pubVars, position, committed, con, sweep, faults>>

\* Mutant: the row stays locked after the transaction ends.
PublisherReleaseKeepsLock(w) ==
  /\ pubPc' = [pubPc EXCEPT ![w] = "idle"]
  /\ UNCHANGED pubRow

\* Ending the transaction, either way, releases the row lock.
PublisherRelease(w) ==
  /\ pubPc' = [pubPc EXCEPT ![w] = "idle"]
  /\ pubRow' = [pubRow EXCEPT ![w] = NoPayment]

\* Mutant: the row is marked published before the event is sent.
PublisherCommitEarly(w) ==
  /\ pubPc[w] \in {"claimed", "sent"}
  /\ published' = published \cup {pubRow[w]}
  /\ PublisherRelease(w)
  /\ UNCHANGED <<status, createdAt, kafkaVars, con, sweep, faults>>

\* UPDATE outbox_events SET published_at = now(); COMMIT
PublisherCommit(w) ==
  /\ pubPc[w] = "sent"
  /\ published' = published \cup {pubRow[w]}
  /\ PublisherRelease(w)
  /\ UNCHANGED <<status, createdAt, kafkaVars, con, sweep, faults>>

\* Publish reports an error, whether or not the broker takes the event of its
\* last attempt: the deferred Rollback leaves the row unpublished.
PublisherSendFail(w) ==
  /\ Fault("publish")
  /\ pubPc[w] = "claimed"
  /\ GiveUp(pubRow[w])
  /\ PublisherRelease(w)
  /\ UNCHANGED <<dbVars, log, position, committed, con, sweep>>

\* The UPDATE or the COMMIT reports an error after a successful publish.
PublisherCommitFail(w) ==
  /\ Fault("publish")
  /\ pubPc[w] = "sent"
  /\ published' \in {published, published \cup {pubRow[w]}}
  /\ PublisherRelease(w)
  /\ UNCHANGED <<status, createdAt, kafkaVars, con, sweep>>

-----------------------------------------------------------------------------
(***************************************************************************)
(* The consumer goroutines: runConsumeLoop and HandleRoutedPayment.        *)
(***************************************************************************)
\* The payment id in the event consumer c is handling.
Held(c) == log[con[c].part][con[c].off]

Advance(c, from, to) ==
  /\ con[c].pc = from
  /\ con' = [con EXCEPT ![c] = to]

\* FetchMessage hands out the next message of some partition, once.
FetchMessage(c, i) ==
  /\ position[i] < Len(log[i])
  /\ position' = [position EXCEPT ![i] = @ + 1]
  /\ Advance(c, "idle", [pc |-> "fetched", part |-> i, off |-> position[i] + 1])
  /\ UNCHANGED <<dbVars, pubVars, log, inFlight, committed, sweep, faults>>

\* Mutant: the UPDATE without AND status = 'ROUTED'.
ClaimPaymentUnguarded(p) == status' = [status EXCEPT ![p] = "PROCESSING"]

\* UPDATE payments SET status = 'PROCESSING' WHERE id = p AND status = 'ROUTED'
ClaimPayment(p) ==
  status' = [status EXCEPT ![p] = IF @ = "ROUTED" THEN "PROCESSING" ELSE @]

\* UPDATE payments SET status = terminal WHERE id = p AND status = 'PROCESSING'
CompletePayment(p) ==
  status' = [status EXCEPT ![p] = IF @ = "PROCESSING" THEN Execute[p] ELSE @]

\* Mutant: HandleRoutedPayment ignores claimed = false.
HandleClaimAlways(c) ==
  /\ Advance(c, "fetched", [con[c] EXCEPT !.pc = "claimed"])
  /\ ClaimPayment(Held(c))
  /\ UNCHANGED <<createdAt, published, pubVars, kafkaVars, sweep, faults>>

\* claimed = false returns nil at once: the payment is not executed again.
HandleClaim(c) ==
  /\ Advance(c, "fetched", [con[c] EXCEPT !.pc =
       IF status[Held(c)] = "ROUTED" THEN "claimed" ELSE "handled"])
  /\ ClaimPayment(Held(c))
  /\ UNCHANGED <<createdAt, published, pubVars, kafkaVars, sweep, faults>>

HandleComplete(c) ==
  /\ Advance(c, "claimed", [con[c] EXCEPT !.pc = "handled"])
  /\ CompletePayment(Held(c))
  /\ UNCHANGED <<createdAt, published, pubVars, kafkaVars, sweep, faults>>

\* HandleRoutedPayment returns an error: the loop logs it and continues with
\* the next message; this one is neither committed nor fetched again.
HandleClaimFail(c) ==
  /\ Fault("claim")
  /\ Advance(c, "fetched", Idle)
  /\ ClaimPayment(Held(c)) \/ UNCHANGED status
  /\ UNCHANGED <<createdAt, published, pubVars, kafkaVars, sweep>>

HandleCompleteFail(c) ==
  /\ Fault("complete")
  /\ Advance(c, "claimed", Idle)
  /\ CompletePayment(Held(c)) \/ UNCHANGED status
  /\ UNCHANGED <<createdAt, published, pubVars, kafkaVars, sweep>>

\* Committing a message sets the group's offset of its partition to just
\* after it, whatever was committed before.
Commit(c) == committed' = [committed EXCEPT ![con[c].part] = con[c].off]

\* Mutant: the offset is committed when the message is fetched.
CommitMessagesEarly(c) ==
  /\ con[c].pc \in {"fetched", "handled"}
  /\ Commit(c)
  /\ con' = [con EXCEPT ![c] = IF @.pc = "handled" THEN Idle ELSE @]
  /\ UNCHANGED <<dbVars, pubVars, log, inFlight, position, sweep, faults>>

CommitMessages(c) ==
  /\ Advance(c, "handled", Idle)
  /\ Commit(c)
  /\ UNCHANGED <<dbVars, pubVars, log, inFlight, position, sweep, faults>>

\* A failed commit is only logged.
CommitMessagesFail(c) ==
  /\ Fault("commit")
  /\ Advance(c, "handled", Idle)
  /\ Commit(c) \/ UNCHANGED committed
  /\ UNCHANGED <<dbVars, pubVars, log, inFlight, position, sweep>>

-----------------------------------------------------------------------------
(***************************************************************************)
(* The recovery sweep: StalePaymentIDs, then Execute and CompletePayment   *)
(* for each id it returned, however much later.                            *)
(***************************************************************************)
\* Mutant: the sweep looks for the wrong status.
StalePaymentIDsFailed == {p \in Payments : status[p] = "FAILED"}

StalePaymentIDs == {p \in Payments : status[p] = "PROCESSING"}

SweepQuery(stale) ==
  /\ sweep = {}
  /\ stale # {}
  /\ stale \subseteq StalePaymentIDs
  /\ sweep' = stale
  /\ UNCHANGED <<dbVars, pubVars, kafkaVars, con, faults>>

SweepComplete(p) ==
  /\ p \in sweep
  /\ CompletePayment(p)
  /\ sweep' = sweep \ {p}
  /\ UNCHANGED <<createdAt, published, pubVars, kafkaVars, con, faults>>

\* CompletePayment fails: the sweep logs it and goes on to the next id.
SweepCompleteFail(p) ==
  /\ p \in sweep
  /\ Fault("complete")
  /\ CompletePayment(p) \/ UNCHANGED status
  /\ sweep' = sweep \ {p}
  /\ UNCHANGED <<createdAt, published, pubVars, kafkaVars, con>>

-----------------------------------------------------------------------------
\* What a publisher that dies was waiting for may be appended later.
Orphan ==
  inFlight' = [p \in Payments |->
    IF \E w \in Publishers : pubPc[w] = "claimed" /\ pubRow[w] = p
      THEN inFlight[p] + 1
      ELSE inFlight[p]]

\* Mutant: the reader resumes at the end of the log.
WorkerCrashSkipsBacklog ==
  /\ Fault("crash")
  /\ pubPc' = [w \in Publishers |-> "idle"]
  /\ pubRow' = [w \in Publishers |-> NoPayment]
  /\ con' = [c \in Consumers |-> Idle]
  /\ position' = [i \in Partitions |-> Len(log[i])]
  /\ Orphan
  /\ sweep' = {}
  /\ UNCHANGED <<dbVars, log, committed>>

\* The worker process dies and is restarted: open transactions roll back,
\* everything in memory is gone, the reader resumes at the committed offsets.
WorkerCrash ==
  /\ Fault("crash")
  /\ pubPc' = [w \in Publishers |-> "idle"]
  /\ pubRow' = [w \in Publishers |-> NoPayment]
  /\ con' = [c \in Consumers |-> Idle]
  /\ position' = committed
  /\ Orphan
  /\ sweep' = {}
  /\ UNCHANGED <<dbVars, log, committed>>

\* The reader rejoins its consumer group (a missed heartbeat, a broker
\* restart): it fetches from the committed offsets again while the consumers
\* still hold the messages they were given before.
Rebalance ==
  /\ Fault("rebalance")
  /\ position' = committed
  /\ UNCHANGED <<dbVars, pubVars, log, inFlight, committed, con, sweep>>

PublisherStep(w) == PublisherClaim(w) \/ PublisherSend(w) \/ PublisherCommit(w)

PublisherFault(w) == ProduceRetry(w) \/ PublisherSendFail(w) \/ PublisherCommitFail(w)

ConsumerStep(c) ==
  \/ \E i \in Partitions : FetchMessage(c, i)
  \/ HandleClaim(c)
  \/ HandleComplete(c)
  \/ CommitMessages(c)

ConsumerFault(c) ==
  HandleClaimFail(c) \/ HandleCompleteFail(c) \/ CommitMessagesFail(c)

Next ==
  \/ \E p \in Payments, t \in 1..MaxCreatedAt : CreatePayment(p, t)
  \/ \E w \in Publishers : PublisherStep(w) \/ PublisherFault(w)
  \/ \E p \in Payments : BrokerAppend(p)
  \/ \E c \in Consumers : ConsumerStep(c) \/ ConsumerFault(c)
  \/ \E stale \in SUBSET Payments : SweepQuery(stale)
  \/ \E p \in Payments : SweepComplete(p) \/ SweepCompleteFail(p)
  \/ WorkerCrash
  \/ Rebalance

Spec == Init /\ [][Next]_vars

(***************************************************************************)
(* Every goroutine of the worker is a loop that keeps being scheduled, and *)
(* a payment that stays PROCESSING eventually passes the staleness         *)
(* threshold of one of the periodic sweeps.  Nothing obliges a client to   *)
(* create a payment or a fault to happen.                                  *)
(***************************************************************************)
Fairness ==
  /\ \A w \in Publishers : WF_vars(PublisherStep(w))
  /\ \A c \in Consumers : WF_vars(ConsumerStep(c))
  /\ WF_vars(SweepQuery(StalePaymentIDs))
  /\ \A p \in Payments : WF_vars(SweepComplete(p))

FairSpec == Spec /\ Fairness

-----------------------------------------------------------------------------
(***************************************************************************)
(* Properties.                                                             *)
(***************************************************************************)
\* README: a payment can never be "in Kafka" without also being safely in the
\* database, or vice versa.  Every event in the topic is of a committed payment
\* and sits in its own partition; every row marked published has its event
\* there, and so has every row whose publisher is about to mark it.
InTopic(p) == \E k \in Offsets(PartitionOf[p]) : log[PartitionOf[p]][k] = p

OutboxKafkaAgreement ==
  /\ \A i \in Partitions : \A k \in Offsets(i) :
       status[log[i][k]] # "NONE" /\ PartitionOf[log[i][k]] = i
  /\ \A p \in published : InTopic(p)
  /\ \A w \in Publishers : pubPc[w] = "sent" => InTopic(pubRow[w])

\* ClaimPayment is "the sole mechanism preventing duplicate claims": however
\* often an event is delivered, no two consumers execute one payment at once,
\* and none executes one that was not claimed.
ExclusiveClaim ==
  \A c \in Consumers : con[c].pc = "claimed" =>
    /\ status[Held(c)] \notin {"NONE", "ROUTED"}
    /\ \A d \in Consumers : con[d].pc = "claimed" /\ Held(d) = Held(c) => d = c

\* FOR UPDATE SKIP LOCKED and published_at keep concurrent publishers from
\* sending one event twice: a second copy takes an attempt that the writer
\* retried, or a failed or interrupted transaction, and each of those adds at
\* most one, however late the broker appends it.
DuplicatesNeedFaults ==
  \A p \in Payments :
    Cardinality({k \in Offsets(PartitionOf[p]) : log[PartitionOf[p]][k] = p})
      <= 1 + faults["produce"] + faults["publish"] + faults["crash"]

\* The commit-after-success ordering of runConsumeLoop: no message up to a
\* partition's committed offset is of a payment still waiting to be claimed.
CommitAfterSuccess ==
  \A i \in Partitions : \A k \in 1..committed[i] : status[log[i][k]] # "ROUTED"

\* README: no payment gets silently lost.  A payment that waits to be claimed
\* still has someone coming for it: its outbox row is unpublished, its event
\* has not been handed out yet, or a consumer is about to claim it.  (Nothing
\* sweeps ROUTED payments.)
NoPaymentStranded ==
  \A p \in Payments : status[p] = "ROUTED" =>
    \/ p \notin published
    \/ \E k \in Offsets(PartitionOf[p]) :
         k > position[PartitionOf[p]] /\ log[PartitionOf[p]][k] = p
    \/ \E c \in Consumers : con[c].pc = "fetched" /\ Held(c) = p

\* README: if the worker dies partway through, a recovery sweep picks the
\* payment back up and finishes it.  Every accepted payment reaches a terminal
\* status.
RoutedEventuallyTerminal ==
  \A p \in Payments : status[p] = "ROUTED" ~> status[p] \in Terminal

\* Every component above moves a payment only along the lifecycle of a
\* simulated payment, and never out of a terminal status.
Lifecycle == INSTANCE PaymentLifecycle
  WITH Mode <- [p \in Payments |-> "simulated"]

RefinesLifecycle == Lifecycle!Spec

=============================================================================
