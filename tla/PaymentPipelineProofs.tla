------------------------- MODULE PaymentPipelineProofs -------------------------
(***************************************************************************)
(* Proofs about PaymentPipeline for any number of payments, partitions,    *)
(* publishers, consumers and faults.                                       *)
(***************************************************************************)
EXTENDS PaymentPipeline, TLAPS

\* A leaf may wait for its turn: the limits are above the default ones.
USE SMTT(20), ZenonT(20)

\* A goroutine that is not idle holds a message that exists.
LEMMA HeldMessage ==
  ASSUME TypeOK, NEW c \in Consumers, con[c].pc # "idle"
  PROVE  /\ con[c].part \in Partitions
         /\ con[c].off \in Nat \ {0}
         /\ con[c].off \in Offsets(con[c].part)
         /\ con[c].off <= Len(log[con[c].part])
         /\ Held(c) \in Payments
         /\ con[c] \in [pc : {"fetched", "claimed", "handled"},
                        part : Partitions, off : Nat \ {0}]
<1>1. con[c] \in ConsumerStates /\ con[c] # Idle
  BY DEF TypeOK, Idle
<1>2. con[c] \in [pc : {"fetched", "claimed", "handled"},
                  part : Partitions, off : Nat \ {0}]
  BY <1>1 DEF ConsumerStates
<1>3. con[c].part \in Partitions /\ con[c].off \in Nat \ {0}
  BY <1>2
<1>4. con[c].off \in Offsets(con[c].part)
  BY <1>1 DEF TypeOK, PointersInRange
<1>5. log[con[c].part] \in Seq(Payments)
  BY <1>3 DEF TypeOK
<1>6. Held(c) \in Payments /\ con[c].off <= Len(log[con[c].part])
  BY <1>3, <1>4, <1>5 DEF Held, Offsets
<1> QED BY <1>2, <1>3, <1>4, <1>6

\* Every message is the event of a payment.
LEMMA MessageTyped ==
  ASSUME TypeOK, NEW i \in Partitions, NEW k \in Offsets(i)
  PROVE  log[i][k] \in Payments
<1>1. log[i] \in Seq(Payments)
  BY DEF TypeOK
<1> QED BY <1>1 DEF Offsets

\* A publisher with an open transaction holds the row of a payment.
LEMMA LockedRow ==
  ASSUME TypeOK, NEW w \in Publishers, pubPc[w] # "idle"
  PROVE  pubRow[w] \in Payments
BY DEF TypeOK, PointersInRange

\* A fault is counted under its kind.
LEMMA FaultTyped ==
  ASSUME TypeOK, NEW kind \in FaultKinds, Fault(kind)
  PROVE  faults' \in [FaultKinds -> Nat]
BY DEF TypeOK, Fault

\* The broker appends: earlier messages keep their offsets.
LEMMA DeliverAppends ==
  ASSUME TypeOK, NEW p \in Payments, Deliver(p)
  PROVE  /\ log' \in [Partitions -> Seq(Payments)]
         /\ \A i \in Partitions :
              /\ Len(log[i]) \in Nat /\ Len(log'[i]) \in Nat
              /\ Len(log[i]) <= Len(log'[i])
              /\ \A k \in Offsets(i) : log'[i][k] = log[i][k]
              /\ \A k \in 1..Len(log'[i]) : k > Len(log[i]) => i = PartitionOf[p] /\ log'[i][k] = p
         /\ LET i == PartitionOf[p] IN
              i \in Partitions /\ Len(log'[i]) = Len(log[i]) + 1 /\ log'[i][Len(log[i]) + 1] = p
<1>1. PartitionOf[p] \in Partitions
  BY PartitionAssumption
<1>2. \A i \in Partitions : log[i] \in Seq(Payments)
  BY DEF TypeOK
<1>3. log' = [log EXCEPT ![PartitionOf[p]] = Append(log[PartitionOf[p]], p)]
  BY DEF Deliver
<1>4. \A i \in Partitions : log'[i] = IF i = PartitionOf[p] THEN Append(log[i], p) ELSE log[i]
  BY <1>1, <1>3 DEF TypeOK
<1>5. log' \in [Partitions -> Seq(Payments)]
  BY <1>1, <1>2, <1>3 DEF TypeOK
<1>6. ASSUME NEW i \in Partitions
      PROVE  /\ Len(log[i]) \in Nat /\ Len(log'[i]) \in Nat
             /\ Len(log[i]) <= Len(log'[i])
             /\ \A k \in Offsets(i) : log'[i][k] = log[i][k]
             /\ \A k \in 1..Len(log'[i]) : k > Len(log[i]) => i = PartitionOf[p] /\ log'[i][k] = p
  <2>1. log[i] \in Seq(Payments) /\ Len(log[i]) \in Nat
    BY <1>2
  <2>2. CASE i = PartitionOf[p]
    <3>1. log'[i] = Append(log[i], p)
      BY <1>4, <2>2, ZenonT(40)
    <3>2. Len(log'[i]) = Len(log[i]) + 1
      BY <2>1, <3>1
    <3>3. \A k \in 1..Len(log[i]) : log'[i][k] = log[i][k]
      BY <2>1, <3>1
    <3>4. log'[i][Len(log[i]) + 1] = p
      BY <2>1, <3>1
    <3>5. \A k \in 1..Len(log'[i]) : k > Len(log[i]) => k = Len(log[i]) + 1
      BY <2>1, <3>2
    <3> QED BY <2>1, <2>2, <3>2, <3>3, <3>4, <3>5 DEF Offsets
  <2>3. CASE i # PartitionOf[p]
    <3>1. log'[i] = log[i]
      BY <1>4, <2>3
    <3> QED BY <2>1, <3>1 DEF Offsets
  <2> QED BY <2>2, <2>3
<1>7. /\ Len(log'[PartitionOf[p]]) = Len(log[PartitionOf[p]]) + 1
      /\ log'[PartitionOf[p]][Len(log[PartitionOf[p]]) + 1] = p
  <2>1. log'[PartitionOf[p]] = Append(log[PartitionOf[p]], p)
    BY <1>1, <1>4, ZenonT(40)
  <2> QED BY <1>1, <1>2, <2>1
<1> QED BY <1>1, <1>5, <1>6, <1>7

\* Requests that the writer gives up on, one at a time or all at a crash, are
\* counted.
LEMMA FlightTyped ==
  ASSUME TypeOK,
         \/ UNCHANGED inFlight
         \/ Orphan
         \/ \E p \in Payments : GiveUp(p)
         \/ \E p \in Payments : inFlight[p] > 0 /\ inFlight' = [inFlight EXCEPT ![p] = @ - 1]
  PROVE  inFlight' \in [Payments -> Nat]
<1>1. inFlight \in [Payments -> Nat]
  BY DEF TypeOK
<1>2. CASE Orphan
  BY <1>1, <1>2 DEF Orphan
<1>3. ASSUME NEW p \in Payments, GiveUp(p)
      PROVE  inFlight' \in [Payments -> Nat]
  BY <1>1, <1>3 DEF GiveUp
<1>4. ASSUME NEW p \in Payments, inFlight[p] > 0, inFlight' = [inFlight EXCEPT ![p] = @ - 1]
      PROVE  inFlight' \in [Payments -> Nat]
  BY <1>1, <1>4
<1> QED BY <1>1, <1>2, <1>3, <1>4

\* So whatever pointed into a log still does.
LEMMA DeliverInRange ==
  ASSUME TypeOK, NEW p \in Payments, Deliver(p), UNCHANGED <<position, committed, con>>
  PROVE  /\ \A i \in Partitions : position'[i] <= Len(log'[i]) /\ committed'[i] <= Len(log'[i])
         /\ \A c \in Consumers : con'[c] # Idle => con'[c].off \in 1..Len(log'[con'[c].part])
<1>1. ASSUME NEW i \in Partitions
      PROVE  position'[i] <= Len(log'[i]) /\ committed'[i] <= Len(log'[i])
  <2>1. Len(log[i]) \in Nat /\ Len(log'[i]) \in Nat /\ Len(log[i]) <= Len(log'[i])
    BY DeliverAppends
  <2>2. /\ position[i] \in Nat /\ committed[i] \in Nat
        /\ position[i] <= Len(log[i]) /\ committed[i] <= Len(log[i])
    BY DEF TypeOK, PointersInRange
  <2> QED BY <2>1, <2>2
<1>2. ASSUME NEW c \in Consumers, con[c] # Idle
      PROVE  con[c].off \in 1..Len(log'[con[c].part])
  <2>1. con[c].part \in Partitions /\ con[c].off \in 1..Len(log[con[c].part])
    BY <1>2 DEF TypeOK, PointersInRange, ConsumerStates, Offsets
  <2> QED BY <2>1, DeliverAppends
<1> QED BY <1>1, <1>2

-----------------------------------------------------------------------------
\* ClaimPayment and CompletePayment write a status to one row.
LEMMA GuardedUpdates ==
  ASSUME TypeOK, NEW p \in Payments,
         ClaimPayment(p) \/ CompletePayment(p) \/ UNCHANGED status
  PROVE  status' \in [Payments -> Statuses]
BY ExecuteAssumption, ZenonT(40) DEF TypeOK, ClaimPayment, CompletePayment, Statuses

\* A consumer's move to another point of its loop, or back to FetchMessage.
LEMMA AdvanceTyped ==
  ASSUME TypeOK, NEW c \in Consumers, con[c].pc # "idle",
         NEW to \in {"claimed", "handled"},
         \/ con' = [con EXCEPT ![c] = [con[c] EXCEPT !.pc = to]]
         \/ con' = [con EXCEPT ![c] = Idle]
  PROVE  /\ con' \in [Consumers -> ConsumerStates]
         /\ \A d \in Consumers : con'[d] # Idle =>
              con[d] # Idle /\ con'[d].part = con[d].part /\ con'[d].off = con[d].off
<1>1. con[c] \in [pc : {"fetched", "claimed", "handled"},
                  part : Partitions, off : Nat \ {0}]
  BY HeldMessage
<1>2. [con[c] EXCEPT !.pc = to] \in ConsumerStates
  BY <1>1 DEF ConsumerStates
<1>3. con[c] # Idle
  BY DEF Idle
<1>4. con \in [Consumers -> ConsumerStates] /\ Idle \in ConsumerStates
  BY DEF TypeOK, ConsumerStates
<1> QED BY <1>1, <1>2, <1>3, <1>4

\* The type invariant in the parts that the actions touch separately: the
\* tables, the publishers, and the topic with the consumers reading it.
DbTyped ==
  /\ status \in [Payments -> Statuses]
  /\ createdAt \in [Payments -> 0..MaxCreatedAt]
  /\ published \in SUBSET Payments

PubTyped ==
  /\ pubPc \in [Publishers -> {"idle", "claimed", "sent"}]
  /\ pubRow \in [Publishers -> Payments \cup {NoPayment}]
  /\ \A w \in Publishers : pubPc[w] = "idle" <=> pubRow[w] = NoPayment

TopicTyped ==
  /\ log \in [Partitions -> Seq(Payments)]
  /\ inFlight \in [Payments -> Nat]
  /\ position \in [Partitions -> Nat]
  /\ committed \in [Partitions -> Nat]
  /\ \A i \in Partitions : position[i] <= Len(log[i]) /\ committed[i] <= Len(log[i])

ConTyped ==
  /\ con \in [Consumers -> ConsumerStates]
  /\ \A c \in Consumers : con[c] # Idle => con[c].off \in 1..Len(log[con[c].part])

LEMMA TypeParts ==
  TypeOK <=> /\ DbTyped /\ PubTyped /\ TopicTyped /\ ConTyped
             /\ sweep \in SUBSET Payments /\ faults \in [FaultKinds -> Nat]
BY DEF TypeOK, PointersInRange, Offsets, DbTyped, PubTyped, TopicTyped, ConTyped

\* A part whose variables a step leaves alone stays well typed.
LEMMA DbKept == ASSUME DbTyped, UNCHANGED dbVars PROVE DbTyped'
BY DEF DbTyped, dbVars

LEMMA PubKept == ASSUME PubTyped, UNCHANGED pubVars PROVE PubTyped'
BY DEF PubTyped, pubVars

LEMMA TopicKept == ASSUME TopicTyped, UNCHANGED kafkaVars PROVE TopicTyped'
BY DEF TopicTyped, kafkaVars

LEMMA ConKept == ASSUME ConTyped, UNCHANGED <<log, con>> PROVE ConTyped'
BY DEF ConTyped

\* A consumer that goes back to FetchMessage points nowhere.
LEMMA ConIdle ==
  ASSUME ConTyped, UNCHANGED log, NEW c, con' = [con EXCEPT ![c] = Idle]
  PROVE  ConTyped'
<1>1. Idle \in ConsumerStates
  BY DEF ConsumerStates
<1>2. con' \in [Consumers -> ConsumerStates]
  BY <1>1, ZenonT(40) DEF ConTyped
<1>3. \A d \in Consumers : con'[d] # Idle => con'[d] = con[d]
  BY DEF ConTyped
<1> QED BY <1>2, <1>3 DEF ConTyped

\* Ending a transaction frees the publisher and its row.
LEMMA PubReleased ==
  ASSUME PubTyped, NEW w \in Publishers, PublisherRelease(w)
  PROVE  PubTyped'
<1>1. /\ pubPc' = [pubPc EXCEPT ![w] = "idle"]
      /\ pubRow' = [pubRow EXCEPT ![w] = NoPayment]
  BY DEF PublisherRelease
<1>2. /\ pubPc' \in [Publishers -> {"idle", "claimed", "sent"}]
      /\ pubRow' \in [Publishers -> Payments \cup {NoPayment}]
  BY <1>1 DEF PubTyped
<1>3. \A v \in Publishers : pubPc'[v] = "idle" <=> pubRow'[v] = NoPayment
  BY <1>1 DEF PubTyped
<1> QED BY <1>2, <1>3 DEF PubTyped

\* The broker's append keeps the topic and everything pointing into it.
LEMMA TopicDelivered ==
  ASSUME TypeOK, NEW p \in Payments, Deliver(p), inFlight' \in [Payments -> Nat],
         UNCHANGED <<position, committed, con>>
  PROVE  TopicTyped' /\ ConTyped'
<1>1. log' \in [Partitions -> Seq(Payments)]
  BY DeliverAppends
<1>2. /\ position' \in [Partitions -> Nat] /\ committed' \in [Partitions -> Nat]
      /\ con' \in [Consumers -> ConsumerStates]
  BY DEF TypeOK
<1>3. /\ \A i \in Partitions : position'[i] <= Len(log'[i]) /\ committed'[i] <= Len(log'[i])
      /\ \A c \in Consumers : con'[c] # Idle => con'[c].off \in 1..Len(log'[con'[c].part])
  BY DeliverInRange
<1> QED BY <1>1, <1>2, <1>3 DEF TopicTyped, ConTyped

\* A conditional update of the status column keeps the tables typed.
LEMMA DbUpdated ==
  ASSUME TypeOK, NEW p \in Payments, ClaimPayment(p) \/ CompletePayment(p) \/ UNCHANGED status,
         UNCHANGED <<createdAt, published>>
  PROVE  DbTyped'
<1>1. status' \in [Payments -> Statuses]
  BY GuardedUpdates
<1> QED BY <1>1, TypeParts DEF DbTyped

\* The empty database and topic are well typed.
LEMMA TypeInit == Init => TypeOK
<1> SUFFICES ASSUME Init PROVE TypeOK
  OBVIOUS
<1>1. DbTyped
  BY BoundsAssumption DEF Init, DbTyped, Statuses
<1>2. PubTyped
  BY DEF Init, PubTyped
<1>3. TopicTyped
  <2>1. \A i \in Partitions : log[i] = <<>> /\ position[i] = 0 /\ committed[i] = 0
    BY DEF Init
  <2>2. log \in [Partitions -> Seq(Payments)]
    BY DEF Init
  <2>3. /\ position \in [Partitions -> Nat] /\ committed \in [Partitions -> Nat]
        /\ inFlight \in [Payments -> Nat]
    BY DEF Init
  <2>4. Len(<<>>) = 0
    OBVIOUS
  <2> QED BY <2>1, <2>2, <2>3, <2>4 DEF TopicTyped
<1>4. ConTyped
  BY DEF Init, ConTyped, ConsumerStates
<1>5. sweep \in SUBSET Payments /\ faults \in [FaultKinds -> Nat]
  BY DEF Init
<1> QED BY <1>1, <1>2, <1>3, <1>4, <1>5, TypeParts

\* Every step keeps the types and leaves every pointer inside its log.
LEMMA TypeStep == TypeOK /\ [Next]_vars => TypeOK'
<1> SUFFICES ASSUME TypeOK, [Next]_vars PROVE TypeOK'
  OBVIOUS
<1>a. /\ DbTyped /\ PubTyped /\ TopicTyped /\ ConTyped
      /\ sweep \in SUBSET Payments /\ faults \in [FaultKinds -> Nat]
  BY TypeParts
<1>b. (/\ DbTyped /\ PubTyped /\ TopicTyped /\ ConTyped
       /\ sweep \in SUBSET Payments /\ faults \in [FaultKinds -> Nat])' => TypeOK'
  BY DEF TypeOK, PointersInRange, Offsets, DbTyped, PubTyped, TopicTyped, ConTyped
<1>1. ASSUME NEW p \in Payments, NEW t \in 1..MaxCreatedAt, CreatePayment(p, t)
      PROVE  TypeOK'
  <2>1. DbTyped'
    <3>1. t \in 0..MaxCreatedAt
      BY BoundsAssumption
    <3>2. status' \in [Payments -> Statuses]
      BY <1>1, <1>a DEF CreatePayment, DbTyped, Statuses
    <3>3. createdAt' \in [Payments -> 0..MaxCreatedAt]
      BY <1>1, <1>a, <3>1 DEF CreatePayment, DbTyped
    <3> QED BY <1>1, <1>a, <3>2, <3>3 DEF CreatePayment, DbTyped
  <2>2. UNCHANGED <<pubVars, kafkaVars, log, con, sweep, faults>>
    BY <1>1 DEF CreatePayment, kafkaVars
  <2> QED BY <1>a, <1>b, <2>1, <2>2, PubKept, TopicKept, ConKept
<1>2. ASSUME NEW w \in Publishers, PublisherClaim(w) PROVE TypeOK'
  <2>1. PICK p \in UnclaimedRows : /\ pubPc' = [pubPc EXCEPT ![w] = "claimed"]
                                   /\ pubRow' = [pubRow EXCEPT ![w] = p]
    BY <1>2, ZenonT(40) DEF PublisherClaim
  <2>2. p \in Payments /\ p # NoPayment
    BY <2>1, PaymentsAssumption DEF UnclaimedRows
  <2>3. /\ pubPc' \in [Publishers -> {"idle", "claimed", "sent"}]
        /\ pubRow' \in [Publishers -> Payments \cup {NoPayment}]
    BY <1>a, <2>1, <2>2 DEF PubTyped
  <2>4. \A v \in Publishers : pubPc'[v] = "idle" <=> pubRow'[v] = NoPayment
    BY <1>a, <2>1, <2>2 DEF PubTyped
  <2>5. PubTyped'
    BY <2>3, <2>4 DEF PubTyped
  <2>6. UNCHANGED <<dbVars, kafkaVars, log, con, sweep, faults>>
    BY <1>2 DEF PublisherClaim, kafkaVars
  <2> QED BY <1>a, <1>b, <2>5, <2>6, DbKept, TopicKept, ConKept
<1>3. ASSUME NEW w \in Publishers, PublisherSend(w) PROVE TypeOK'
  <2>1. pubRow[w] \in Payments /\ Deliver(pubRow[w])
    BY <1>3, LockedRow DEF PublisherSend
  <2>2. UNCHANGED <<dbVars, pubRow, inFlight, position, committed, con, sweep, faults>>
    BY <1>3 DEF PublisherSend
  <2>3. TopicTyped' /\ ConTyped'
    BY <2>1, <2>2, FlightTyped, TopicDelivered
  <2>4. pubPc[w] = "claimed" /\ pubPc' = [pubPc EXCEPT ![w] = "sent"]
    BY <1>3 DEF PublisherSend
  <2>5. PubTyped'
    BY <1>a, <2>2, <2>4 DEF PubTyped
  <2> QED BY <1>a, <1>b, <2>2, <2>3, <2>5, DbKept
<1>4. ASSUME NEW w \in Publishers, PublisherCommit(w) PROVE TypeOK'
  <2>1. pubRow[w] \in Payments
    BY <1>4, LockedRow DEF PublisherCommit
  <2>2. DbTyped'
    BY <1>4, <1>a, <2>1 DEF PublisherCommit, DbTyped
  <2>3. PubTyped'
    BY <1>4, <1>a, PubReleased DEF PublisherCommit
  <2>4. UNCHANGED <<kafkaVars, log, con, sweep, faults>>
    BY <1>4 DEF PublisherCommit, kafkaVars
  <2> QED BY <1>a, <1>b, <2>2, <2>3, <2>4, TopicKept, ConKept
<1>5. ASSUME NEW w \in Publishers, ProduceRetry(w) \/ PublisherSendFail(w) PROVE TypeOK'
  <2>1. faults' \in [FaultKinds -> Nat]
    BY <1>5, FaultTyped DEF ProduceRetry, PublisherSendFail, FaultKinds
  <2>2. pubRow[w] \in Payments
    BY <1>5, LockedRow DEF ProduceRetry, PublisherSendFail
  <2>3. PubTyped'
    BY <1>5, <1>a, PubKept, PubReleased DEF ProduceRetry, PublisherSendFail
  <2>4. GiveUp(pubRow[w]) /\ UNCHANGED <<dbVars, log, position, committed, con, sweep>>
    BY <1>5 DEF ProduceRetry, PublisherSendFail
  <2>5. inFlight' \in [Payments -> Nat]
    BY <2>2, <2>4, FlightTyped
  <2>6. TopicTyped'
    BY <1>a, <2>4, <2>5 DEF TopicTyped
  <2> QED BY <1>a, <1>b, <2>1, <2>3, <2>4, <2>6, DbKept, ConKept
<1>6. ASSUME NEW w \in Publishers, PublisherCommitFail(w) PROVE TypeOK'
  <2>1. faults' \in [FaultKinds -> Nat]
    BY <1>6, FaultTyped DEF PublisherCommitFail, FaultKinds
  <2>2. pubRow[w] \in Payments
    BY <1>6, LockedRow DEF PublisherCommitFail
  <2>3. DbTyped'
    BY <1>6, <1>a, <2>2 DEF PublisherCommitFail, DbTyped
  <2>4. PubTyped'
    BY <1>6, <1>a, PubReleased DEF PublisherCommitFail
  <2>5. UNCHANGED <<kafkaVars, log, con, sweep>>
    BY <1>6 DEF PublisherCommitFail, kafkaVars
  <2> QED BY <1>a, <1>b, <2>1, <2>3, <2>4, <2>5, TopicKept, ConKept
<1>7. ASSUME NEW c \in Consumers, NEW i \in Partitions, FetchMessage(c, i) PROVE TypeOK'
  <2>1. position[i] \in Nat /\ Len(log[i]) \in Nat /\ position[i] < Len(log[i])
    BY <1>7 DEF TypeOK, FetchMessage
  <2>2. [pc |-> "fetched", part |-> i, off |-> position[i] + 1] \in ConsumerStates
    BY <2>1 DEF ConsumerStates
  <2>3. /\ con' = [con EXCEPT ![c] = [pc |-> "fetched", part |-> i, off |-> position[i] + 1]]
        /\ position' = [position EXCEPT ![i] = position[i] + 1]
        /\ UNCHANGED <<dbVars, pubVars, log, inFlight, committed, sweep, faults>>
    BY <1>7 DEF FetchMessage, Advance
  <2>4. ConTyped'
    <3>1. con' \in [Consumers -> ConsumerStates]
      BY <1>a, <2>2, <2>3 DEF ConTyped
    <3>2. position[i] + 1 \in 1..Len(log[i])
      BY <2>1
    <3>3. \A d \in Consumers : con'[d] # Idle => con'[d].off \in 1..Len(log[con'[d].part])
      BY <1>a, <2>3, <3>2 DEF ConTyped
    <3> QED BY <2>3, <3>1, <3>3 DEF ConTyped
  <2>5. TopicTyped'
    <3>1. position' \in [Partitions -> Nat]
      BY <1>a, <2>1, <2>3 DEF TopicTyped
    <3>2. \A j \in Partitions : position'[j] <= Len(log[j])
      BY <1>a, <2>1, <2>3 DEF TopicTyped
    <3> QED BY <1>a, <2>3, <3>1, <3>2 DEF TopicTyped
  <2> QED BY <1>a, <1>b, <2>3, <2>4, <2>5, DbKept, PubKept
<1>8. ASSUME NEW c \in Consumers, HandleClaim(c) \/ HandleComplete(c) PROVE TypeOK'
  <2>1. con[c].pc # "idle" /\ Held(c) \in Payments
    BY <1>8, HeldMessage DEF HandleClaim, HandleComplete, Advance
  <2>2. PICK to \in {"claimed", "handled"} : con' = [con EXCEPT ![c] = [con[c] EXCEPT !.pc = to]]
    BY <1>8 DEF HandleClaim, HandleComplete, Advance
  <2>3. /\ ClaimPayment(Held(c)) \/ CompletePayment(Held(c))
        /\ UNCHANGED <<createdAt, published, pubVars, kafkaVars, log, sweep, faults>>
    BY <1>8 DEF HandleClaim, HandleComplete, kafkaVars
  <2>4. DbTyped'
    BY <2>1, <2>3, DbUpdated
  <2>5. /\ con' \in [Consumers -> ConsumerStates]
        /\ \A d \in Consumers : con'[d] # Idle =>
             con[d] # Idle /\ con'[d].part = con[d].part /\ con'[d].off = con[d].off
    BY <2>1, <2>2, AdvanceTyped, ZenonT(40)
  <2>6. ConTyped'
    BY <1>a, <2>3, <2>5 DEF ConTyped
  <2> QED BY <1>a, <1>b, <2>3, <2>4, <2>6, PubKept, TopicKept
<1>9. ASSUME NEW c \in Consumers, HandleClaimFail(c) \/ HandleCompleteFail(c) PROVE TypeOK'
  <2>1. con[c].pc # "idle" /\ Held(c) \in Payments
    BY <1>9, HeldMessage, ZenonT(40) DEF HandleClaimFail, HandleCompleteFail, Advance
  <2>2. /\ con' = [con EXCEPT ![c] = Idle]
        /\ ClaimPayment(Held(c)) \/ CompletePayment(Held(c)) \/ UNCHANGED status
        /\ UNCHANGED <<createdAt, published, pubVars, kafkaVars, log, sweep>>
    BY <1>9 DEF HandleClaimFail, HandleCompleteFail, Advance, kafkaVars
  <2>3. DbTyped' /\ ConTyped'
    BY <1>a, <2>1, <2>2, DbUpdated, ConIdle, ZenonT(40)
  <2>4. faults' \in [FaultKinds -> Nat]
    BY <1>9, FaultTyped DEF HandleClaimFail, HandleCompleteFail, FaultKinds
  <2> QED BY <1>a, <1>b, <2>2, <2>3, <2>4, PubKept, TopicKept
<1>10. ASSUME NEW c \in Consumers, CommitMessages(c) \/ CommitMessagesFail(c) PROVE TypeOK'
  <2>1. con[c].part \in Partitions /\ con[c].off \in Nat /\ con[c].off <= Len(log[con[c].part])
    BY <1>10, HeldMessage DEF CommitMessages, CommitMessagesFail, Advance
  <2>2. /\ con' = [con EXCEPT ![c] = Idle]
        /\ Commit(c) \/ UNCHANGED committed
        /\ UNCHANGED <<dbVars, pubVars, log, inFlight, position, sweep>>
    BY <1>10 DEF CommitMessages, CommitMessagesFail, Advance
  <2>3. faults' \in [FaultKinds -> Nat]
    BY <1>10, <1>a, FaultTyped DEF CommitMessages, CommitMessagesFail, FaultKinds
  <2>4. /\ committed' \in [Partitions -> Nat]
        /\ \A i \in Partitions : committed'[i] <= Len(log[i])
    BY <1>a, <2>1, <2>2, ZenonT(40) DEF Commit, TopicTyped
  <2>5. TopicTyped' /\ ConTyped'
    BY <1>a, <2>2, <2>4, ConIdle, ZenonT(40) DEF TopicTyped
  <2> QED BY <1>a, <1>b, <2>2, <2>3, <2>5, DbKept, PubKept
<1>11. ASSUME NEW stale \in SUBSET Payments, SweepQuery(stale) PROVE TypeOK'
  <2>1. sweep' \in SUBSET Payments /\ UNCHANGED <<dbVars, pubVars, kafkaVars, log, con, faults>>
    BY <1>11 DEF SweepQuery, kafkaVars
  <2> QED BY <1>a, <1>b, <2>1, DbKept, PubKept, TopicKept, ConKept
<1>12. ASSUME NEW p \in Payments, SweepComplete(p) \/ SweepCompleteFail(p) PROVE TypeOK'
  <2>1. /\ CompletePayment(p) \/ UNCHANGED status
        /\ sweep' = sweep \ {p}
        /\ UNCHANGED <<createdAt, published, pubVars, kafkaVars, log, con>>
    BY <1>12 DEF SweepComplete, SweepCompleteFail, kafkaVars
  <2>2. DbTyped'
    BY <2>1, DbUpdated
  <2>3. faults' \in [FaultKinds -> Nat]
    BY <1>12, <1>a, FaultTyped DEF SweepComplete, SweepCompleteFail, FaultKinds
  <2>4. sweep' \in SUBSET Payments
    BY <1>a, <2>1
  <2> QED BY <1>a, <1>b, <2>1, <2>2, <2>3, <2>4, PubKept, TopicKept, ConKept
<1>13. ASSUME WorkerCrash \/ Rebalance PROVE TypeOK'
  <2>1. faults' \in [FaultKinds -> Nat]
    BY <1>13, FaultTyped DEF WorkerCrash, Rebalance, FaultKinds
  <2>2. /\ position' = committed /\ UNCHANGED <<dbVars, log, committed>>
        /\ Orphan \/ UNCHANGED inFlight
    BY <1>13 DEF WorkerCrash, Rebalance
  <2>3. TopicTyped'
    BY <1>a, <2>2, FlightTyped DEF TopicTyped
  <2>4. CASE WorkerCrash
    <3>1. sweep' = {} /\ con' = [c \in Consumers |-> Idle]
      BY <2>4 DEF WorkerCrash
    <3>2. ConTyped'
      BY <3>1 DEF ConTyped, ConsumerStates
    <3>3. PubTyped'
      BY <2>4 DEF WorkerCrash, PubTyped
    <3> QED BY <1>a, <1>b, <2>1, <2>2, <2>3, <3>1, <3>2, <3>3, DbKept
  <2>5. CASE Rebalance
    <3>1. UNCHANGED <<pubVars, con, sweep>>
      BY <2>5 DEF Rebalance
    <3> QED BY <1>a, <1>b, <2>1, <2>2, <2>3, <3>1, DbKept, PubKept, ConKept
  <2> QED BY <1>13, <2>4, <2>5
<1>14. CASE UNCHANGED vars
  <2>1. UNCHANGED <<dbVars, pubVars, kafkaVars, log, con, sweep, faults>>
    BY <1>14 DEF vars, kafkaVars
  <2> QED BY <1>a, <1>b, <2>1, DbKept, PubKept, TopicKept, ConKept
<1>15. ASSUME NEW p \in Payments, BrokerAppend(p) PROVE TypeOK'
  <2>1. /\ Deliver(p) /\ inFlight[p] > 0 /\ inFlight' = [inFlight EXCEPT ![p] = @ - 1]
        /\ UNCHANGED <<dbVars, pubVars, position, committed, con, sweep, faults>>
    BY <1>15 DEF BrokerAppend
  <2>2. inFlight' \in [Payments -> Nat]
    BY <2>1, FlightTyped
  <2>3. TopicTyped' /\ ConTyped'
    BY <2>1, <2>2, TopicDelivered
  <2> QED BY <1>a, <1>b, <2>1, <2>3, DbKept, PubKept
<1> QED
  BY <1>1, <1>2, <1>3, <1>4, <1>5, <1>6, <1>7, <1>8, <1>9, <1>10, <1>11, <1>12, <1>13, <1>14, <1>15
     DEF Next, PublisherStep, PublisherFault, ConsumerStep, ConsumerFault

\* The type invariant holds in every run of the pipeline, whatever fails.
THEOREM TypeCorrect == Spec => []TypeOK
BY TypeInit, TypeStep, PTL DEF Spec

-----------------------------------------------------------------------------
\* What a step can do to the status column.
LEMMA StatusStep ==
  ASSUME TypeOK, [Next]_vars
  PROVE  \/ UNCHANGED status
         \/ \E p \in Payments :
              \/ status[p] = "NONE" /\ status' = [status EXCEPT ![p] = "ROUTED"]
              \/ ClaimPayment(p)
              \/ CompletePayment(p)
<1>1. ASSUME NEW c \in Consumers, ConsumerStep(c) \/ ConsumerFault(c)
      PROVE  UNCHANGED status \/ \E p \in Payments : ClaimPayment(p) \/ CompletePayment(p)
  <2>1. CASE con[c].pc = "idle"
    BY <1>1, <2>1
       DEF ConsumerStep, ConsumerFault, FetchMessage, HandleClaim, HandleComplete, HandleClaimFail,
           HandleCompleteFail, CommitMessages, CommitMessagesFail, Advance, dbVars
  <2>2. CASE con[c].pc # "idle"
    <3>1. Held(c) \in Payments
      BY <2>2, HeldMessage
    <3> QED
      BY <1>1, <3>1, ZenonT(40)
         DEF ConsumerStep, ConsumerFault, FetchMessage, HandleClaim, HandleComplete,
             HandleClaimFail, HandleCompleteFail, CommitMessages, CommitMessagesFail, dbVars
  <2> QED BY <2>1, <2>2
<1>2. ASSUME NEW w \in Publishers, PublisherStep(w) \/ PublisherFault(w)
      PROVE  UNCHANGED status
  BY <1>2 DEF PublisherStep, PublisherFault, PublisherClaim, PublisherSend, PublisherCommit,
              ProduceRetry, PublisherSendFail, PublisherCommitFail, dbVars
<1>3. CASE UNCHANGED vars
  BY <1>3 DEF vars, dbVars
<1>4. CASE WorkerCrash \/ Rebalance \/ \E stale \in SUBSET Payments : SweepQuery(stale)
  BY <1>4, ZenonT(40) DEF WorkerCrash, Rebalance, SweepQuery, dbVars
<1>5. CASE \E p \in Payments : SweepComplete(p) \/ SweepCompleteFail(p)
  BY <1>5 DEF SweepComplete, SweepCompleteFail
<1>6. CASE \E p \in Payments, t \in 1..MaxCreatedAt : CreatePayment(p, t)
  BY <1>6, ZenonT(40) DEF CreatePayment
<1>7. CASE \E p \in Payments : BrokerAppend(p)
  BY <1>7 DEF BrokerAppend, dbVars
<1> QED BY <1>1, <1>2, <1>3, <1>4, <1>5, <1>6, <1>7 DEF Next

\* A produce request for the event of payment p may still reach the broker.
Pending(p) ==
  \/ inFlight[p] > 0
  \/ \E w \in Publishers : pubPc[w] = "claimed" /\ pubRow[w] = p

\* Only a pending request writes to the topic.
LEMMA LogStep ==
  ASSUME TypeOK, [Next]_vars
  PROVE  UNCHANGED log \/ \E p \in Payments : Pending(p) /\ Deliver(p)
<1>1. ASSUME NEW c \in Consumers, ConsumerStep(c) \/ ConsumerFault(c)
      PROVE  UNCHANGED log
  BY <1>1, ZenonT(40)
     DEF ConsumerStep, ConsumerFault, FetchMessage, HandleClaim, HandleComplete, HandleClaimFail,
         HandleCompleteFail, CommitMessages, CommitMessagesFail, kafkaVars
<1>2. ASSUME NEW w \in Publishers, PublisherStep(w) \/ PublisherFault(w)
      PROVE  UNCHANGED log \/ \E p \in Payments : Pending(p) /\ Deliver(p)
  <2>1. CASE PublisherSend(w)
    <3>1. pubPc[w] = "claimed" /\ pubRow[w] \in Payments /\ Deliver(pubRow[w])
      BY <2>1, LockedRow DEF PublisherSend
    <3> QED BY <3>1, ZenonT(40) DEF Pending
  <2>2. CASE ~PublisherSend(w)
    BY <1>2, <2>2, ZenonT(40)
       DEF PublisherStep, PublisherFault, PublisherClaim, PublisherCommit, ProduceRetry, PublisherSendFail,
           PublisherCommitFail, kafkaVars
  <2> QED BY <2>1, <2>2
<1>3. CASE UNCHANGED vars
  BY <1>3, ZenonT(40) DEF vars, kafkaVars
<1>4. CASE WorkerCrash \/ Rebalance \/ \E stale \in SUBSET Payments : SweepQuery(stale)
  BY <1>4, ZenonT(40) DEF WorkerCrash, Rebalance, SweepQuery, kafkaVars
<1>5. CASE \E p \in Payments : SweepComplete(p) \/ SweepCompleteFail(p)
  BY <1>5 DEF SweepComplete, SweepCompleteFail, kafkaVars
<1>6. CASE \E p \in Payments, t \in 1..MaxCreatedAt : CreatePayment(p, t)
  BY <1>6 DEF CreatePayment, kafkaVars
<1>7. CASE \E p \in Payments : BrokerAppend(p)
  BY <1>7, ZenonT(40) DEF BrokerAppend, Pending
<1> QED BY <1>1, <1>2, <1>3, <1>4, <1>5, <1>6, <1>7, ZenonT(40) DEF Next

\* The payment has been claimed, now or earlier.
Past(p) == status[p] \notin {"NONE", "ROUTED"}

\* Messages keep their offsets, payments never disappear and never become
\* unclaimed again.
LEMMA Monotone ==
  ASSUME TypeOK, [Next]_vars
  PROVE  /\ \A i \in Partitions :
              /\ Len(log[i]) \in Nat /\ Len(log'[i]) \in Nat /\ Len(log[i]) <= Len(log'[i])
              /\ \A k \in Offsets(i) : log'[i][k] = log[i][k]
         /\ \A p \in Payments :
              /\ status[p] # "NONE" => status'[p] # "NONE"
              /\ status'[p] = "ROUTED" => status[p] \in {"NONE", "ROUTED"}
              /\ Past(p) => Past(p)'
<1>1. \A i \in Partitions :
        /\ Len(log[i]) \in Nat /\ Len(log'[i]) \in Nat /\ Len(log[i]) <= Len(log'[i])
        /\ \A k \in Offsets(i) : log'[i][k] = log[i][k]
  <2>1. CASE UNCHANGED log
    BY <2>1 DEF TypeOK
  <2>2. CASE \E p \in Payments : Pending(p) /\ Deliver(p)
    BY <2>2, DeliverAppends, ZenonT(40)
  <2> QED BY <2>1, <2>2, LogStep
<1>2. \A p \in Payments :
        /\ status[p] # "NONE" => status'[p] # "NONE"
        /\ status'[p] = "ROUTED" => status[p] \in {"NONE", "ROUTED"}
        /\ Past(p) => Past(p)'
  BY StatusStep, ExecuteAssumption, ZenonT(40) DEF TypeOK, Past, ClaimPayment, CompletePayment
<1> QED BY <1>1, <1>2

-----------------------------------------------------------------------------
(***************************************************************************)
(* The pipeline implements the payment lifecycle.                          *)
(***************************************************************************)
\* Whatever publishers, consumers, sweeps and crashes do, a payment's status
\* only moves NONE, ROUTED, PROCESSING, terminal: CompletePayment's guard makes
\* redelivered, raced and swept executions leave a terminal status alone.
THEOREM ImplementsLifecycle == Spec => RefinesLifecycle
<1>1. Init => Lifecycle!Init
  BY DEF Init, Lifecycle!Init
<1>2. TypeOK /\ [Next]_vars => [Lifecycle!Next]_status
  <2> SUFFICES ASSUME TypeOK, [Next]_vars PROVE Lifecycle!Next \/ UNCHANGED status
    OBVIOUS
  <2>1. ASSUME NEW p \in Payments, status[p] = "NONE", status' = [status EXCEPT ![p] = "ROUTED"]
        PROVE  Lifecycle!Create(p)
    BY <2>1 DEF Lifecycle!Create, Lifecycle!Move
  <2>2. ASSUME NEW p \in Payments, ClaimPayment(p)
        PROVE  Lifecycle!Claim(p) \/ UNCHANGED status
    BY <2>2, ZenonT(40) DEF TypeOK, ClaimPayment, Lifecycle!Claim, Lifecycle!Move
  <2>3. ASSUME NEW p \in Payments, CompletePayment(p)
        PROVE  Lifecycle!Complete(p) \/ UNCHANGED status
    <3>1. CASE status[p] = "PROCESSING"
      <4>1. Execute[p] \in Lifecycle!Terminal
        BY ExecuteAssumption DEF Lifecycle!Terminal
      <4>2. Lifecycle!Move(p, "PROCESSING", Execute[p])
        BY <2>3, <3>1 DEF CompletePayment, Lifecycle!Move
      <4> QED BY <4>1, <4>2 DEF Lifecycle!Complete
    <3>2. CASE status[p] # "PROCESSING"
      BY <2>3, <3>2 DEF TypeOK, CompletePayment
    <3> QED BY <3>1, <3>2
  <2> QED BY <2>1, <2>2, <2>3, StatusStep DEF Lifecycle!Next
<1> QED BY <1>1, <1>2, TypeCorrect, PTL DEF Spec, RefinesLifecycle, Lifecycle!Spec

-----------------------------------------------------------------------------
(***************************************************************************)
(* The outbox, the topic and the database agree.                           *)
(***************************************************************************)
\* Strengthening of OutboxKafkaAgreement: an outbox row exists exactly when its
\* payment does (one transaction inserts both), so a publisher can only hold
\* the row of a committed payment, and only such an event can be in flight.
AgreementInv ==
  /\ TypeOK
  /\ OutboxKafkaAgreement
  /\ \A p \in Payments : createdAt[p] # 0 => status[p] # "NONE"
  /\ \A w \in Publishers : pubPc[w] # "idle" => status[pubRow[w]] # "NONE"
  /\ \A p \in Payments : inFlight[p] > 0 => status[p] # "NONE"

\* Once in the topic, an event stays there.
LEMMA InTopicStable ==
  ASSUME TypeOK, [Next]_vars, NEW p \in Payments, InTopic(p)
  PROVE  InTopic(p)'
<1>1. PICK k \in Offsets(PartitionOf[p]) : log[PartitionOf[p]][k] = p
  BY DEF InTopic
<1>2. PartitionOf[p] \in Partitions
  BY PartitionAssumption
<1>3. k \in Offsets(PartitionOf[p])' /\ log'[PartitionOf[p]][k] = p
  BY <1>1, <1>2, Monotone DEF Offsets
<1> QED BY <1>3 DEF InTopic

\* A step creates rows with their payments, and only they have created_at.
LEMMA CreatedAtStep ==
  ASSUME TypeOK, [Next]_vars
  PROVE  \/ UNCHANGED createdAt
         \/ \E p \in Payments, t \in 1..MaxCreatedAt : CreatePayment(p, t)
<1>1. ASSUME NEW c \in Consumers, ConsumerStep(c) \/ ConsumerFault(c)
      PROVE  UNCHANGED createdAt
  BY <1>1, ZenonT(40)
     DEF ConsumerStep, ConsumerFault, FetchMessage, HandleClaim, HandleComplete, HandleClaimFail,
         HandleCompleteFail, CommitMessages, CommitMessagesFail, dbVars
<1>2. ASSUME NEW w \in Publishers, PublisherStep(w) \/ PublisherFault(w)
      PROVE  UNCHANGED createdAt
  BY <1>2, ZenonT(40) DEF PublisherStep, PublisherFault, PublisherClaim, PublisherSend, PublisherCommit,
              ProduceRetry, PublisherSendFail, PublisherCommitFail, dbVars
<1>3. CASE UNCHANGED vars
  BY <1>3 DEF vars, dbVars
<1>4. CASE WorkerCrash \/ Rebalance \/ \E stale \in SUBSET Payments : SweepQuery(stale)
  BY <1>4 DEF WorkerCrash, Rebalance, SweepQuery, dbVars
<1>5. CASE \E p \in Payments : SweepComplete(p) \/ SweepCompleteFail(p)
  BY <1>5 DEF SweepComplete, SweepCompleteFail
<1>6. CASE \E p \in Payments : BrokerAppend(p)
  BY <1>6 DEF BrokerAppend, dbVars
<1> QED BY <1>1, <1>2, <1>3, <1>4, <1>5, <1>6 DEF Next

\* What a step can do to the publishers and to published_at.
LEMMA PublisherEffect ==
  ASSUME TypeOK, [Next]_vars
  PROVE  \/ UNCHANGED <<pubPc, pubRow, published>>
         \/ /\ pubPc' = [w \in Publishers |-> "idle"]
            /\ UNCHANGED published
         \/ \E w \in Publishers : PublisherStep(w) \/ PublisherFault(w)
<1>1. ASSUME NEW c \in Consumers, ConsumerStep(c) \/ ConsumerFault(c)
      PROVE  UNCHANGED <<pubPc, pubRow, published>>
  BY <1>1, ZenonT(40)
     DEF ConsumerStep, ConsumerFault, FetchMessage, HandleClaim, HandleComplete, HandleClaimFail,
         HandleCompleteFail, CommitMessages, CommitMessagesFail, dbVars, pubVars
<1>2. CASE UNCHANGED vars
  BY <1>2 DEF vars, dbVars, pubVars
<1>3. CASE WorkerCrash
  BY <1>3 DEF WorkerCrash, dbVars
<1>4. CASE Rebalance \/ \E stale \in SUBSET Payments : SweepQuery(stale)
  BY <1>4 DEF Rebalance, SweepQuery, dbVars, pubVars
<1>5. CASE \E p \in Payments : SweepComplete(p) \/ SweepCompleteFail(p)
  BY <1>5 DEF SweepComplete, SweepCompleteFail, pubVars
<1>6. CASE \E p \in Payments, t \in 1..MaxCreatedAt : CreatePayment(p, t)
  BY <1>6 DEF CreatePayment, pubVars
<1>7. CASE \E p \in Payments : BrokerAppend(p)
  BY <1>7 DEF BrokerAppend, dbVars, pubVars
<1> QED BY <1>1, <1>2, <1>3, <1>4, <1>5, <1>6, <1>7 DEF Next

\* A request that the broker may append after a step was pending before it.
LEMMA FlightStep ==
  ASSUME TypeOK, [Next]_vars
  PROVE  \A p \in Payments : inFlight'[p] > 0 => Pending(p)
<1>0. inFlight \in [Payments -> Nat]
  BY DEF TypeOK
<1>1. CASE UNCHANGED inFlight
  BY <1>1 DEF Pending
<1>2. ASSUME NEW w \in Publishers, pubPc[w] = "claimed", GiveUp(pubRow[w])
      PROVE  \A p \in Payments : inFlight'[p] > 0 => Pending(p)
  <2>1. \A p \in Payments : p # pubRow[w] => inFlight'[p] = inFlight[p]
    BY <1>0, <1>2 DEF GiveUp
  <2> QED BY <1>2, <2>1, ZenonT(40) DEF Pending
<1>3. CASE WorkerCrash
  BY <1>0, <1>3, ZenonT(40) DEF WorkerCrash, Orphan, Pending
<1>4. CASE \E p \in Payments : BrokerAppend(p)
  BY <1>0, <1>4 DEF BrokerAppend, Pending
<1>5. ASSUME NEW c \in Consumers, ConsumerStep(c) \/ ConsumerFault(c)
      PROVE  UNCHANGED inFlight
  BY <1>5, ZenonT(40)
     DEF ConsumerStep, ConsumerFault, FetchMessage, HandleClaim, HandleComplete, HandleClaimFail,
         HandleCompleteFail, CommitMessages, CommitMessagesFail, kafkaVars
<1>6. ASSUME NEW w \in Publishers, PublisherStep(w) \/ PublisherFault(w)
      PROVE  UNCHANGED inFlight \/ (pubPc[w] = "claimed" /\ GiveUp(pubRow[w]))
  BY <1>6, ZenonT(40)
     DEF PublisherStep, PublisherFault, PublisherClaim, PublisherSend, PublisherCommit, ProduceRetry,
         PublisherSendFail, PublisherCommitFail, kafkaVars
<1>7. CASE \/ UNCHANGED vars
           \/ Rebalance
           \/ \E stale \in SUBSET Payments : SweepQuery(stale)
           \/ \E p \in Payments : SweepComplete(p) \/ SweepCompleteFail(p)
           \/ \E p \in Payments, t \in 1..MaxCreatedAt : CreatePayment(p, t)
  <2>1. UNCHANGED inFlight
    BY <1>7, ZenonT(40)
       DEF vars, Rebalance, SweepQuery, SweepComplete, SweepCompleteFail, CreatePayment, kafkaVars
  <2> QED BY <1>1, <2>1
<1> QED BY <1>1, <1>2, <1>3, <1>4, <1>5, <1>6, <1>7, ZenonT(40) DEF Next

\* Requests are sent for committed payments only.
LEMMA PendingCreated ==
  ASSUME AgreementInv, NEW p \in Payments, Pending(p)
  PROVE  status[p] # "NONE"
BY ZenonT(40) DEF AgreementInv, Pending

\* Every step keeps outbox and topic in agreement.
LEMMA AgreementStep == AgreementInv /\ [Next]_vars => AgreementInv'
<1> SUFFICES ASSUME AgreementInv, [Next]_vars PROVE AgreementInv'
  OBVIOUS
<1>1. TypeOK /\ TypeOK'
  BY TypeStep DEF AgreementInv
<1>2. (\A p \in Payments : createdAt[p] # 0 => status[p] # "NONE")'
  <2>1. CASE UNCHANGED createdAt
    BY <1>1, <2>1, Monotone, ZenonT(40) DEF AgreementInv
  <2>2. CASE \E p \in Payments, t \in 1..MaxCreatedAt : CreatePayment(p, t)
    BY <1>1, <2>2, ZenonT(40) DEF CreatePayment, AgreementInv, TypeOK
  <2> QED BY <1>1, <2>1, <2>2, CreatedAtStep
<1>3. \A w \in Publishers : pubPc'[w] # "idle" => status'[pubRow'[w]] # "NONE"
  <2>1. ASSUME NEW w \in Publishers, pubPc'[w] # "idle",
               pubRow'[w] = pubRow[w], pubPc[w] # "idle"
        PROVE  status'[pubRow'[w]] # "NONE"
    BY <1>1, <2>1, LockedRow, Monotone, ZenonT(40) DEF AgreementInv
  <2>2. ASSUME NEW w \in Publishers, PublisherClaim(w)
        PROVE  pubRow'[w] \in Payments /\ status'[pubRow'[w]] # "NONE"
    <3>1. pubRow'[w] \in UnclaimedRows
      BY <1>1, <2>2 DEF PublisherClaim, TypeOK
    <3>2. pubRow'[w] \in Payments /\ createdAt[pubRow'[w]] # 0
      BY <3>1 DEF UnclaimedRows
    <3> QED BY <1>1, <3>2, Monotone, ZenonT(40) DEF AgreementInv
  <2>3. ASSUME NEW w \in Publishers, PublisherStep(w) \/ PublisherFault(w),
               NEW v \in Publishers, pubPc'[v] # "idle"
        PROVE  \/ pubRow'[v] = pubRow[v] /\ pubPc[v] # "idle"
               \/ v = w /\ PublisherClaim(w)
    BY <1>1, <2>3, ZenonT(40)
       DEF PublisherStep, PublisherFault, PublisherClaim, PublisherSend, PublisherCommit,
           ProduceRetry, PublisherSendFail, PublisherCommitFail, PublisherRelease, pubVars, TypeOK
  <2> QED BY <1>1, <2>1, <2>2, <2>3, PublisherEffect, ZenonT(40)
<1>4. \A i \in Partitions : \A k \in Offsets(i)' :
        status'[log'[i][k]] # "NONE" /\ PartitionOf[log'[i][k]] = i
  <2> SUFFICES ASSUME NEW i \in Partitions, NEW k \in 1..Len(log'[i])
               PROVE  status'[log'[i][k]] # "NONE" /\ PartitionOf[log'[i][k]] = i
    BY DEF Offsets
  <2>1. CASE k \in Offsets(i)
    <3>1. log'[i][k] = log[i][k] /\ log[i][k] \in Payments
      BY <1>1, <2>1, Monotone, MessageTyped, ZenonT(40)
    <3>2. status[log[i][k]] # "NONE" /\ PartitionOf[log[i][k]] = i
      BY <2>1, ZenonT(40) DEF AgreementInv, OutboxKafkaAgreement
    <3>3. status'[log[i][k]] # "NONE"
      BY <1>1, <3>1, <3>2, Monotone, ZenonT(40)
    <3> QED BY <3>1, <3>2, <3>3, ZenonT(40)
  <2>2. CASE k \notin Offsets(i)
    <3>1. PICK p \in Payments : Pending(p) /\ Deliver(p)
      <4>1. CASE UNCHANGED log
        BY <2>2, <4>1, ZenonT(40) DEF Offsets
      <4> QED BY <1>1, <4>1, LogStep
    <3>2. status[p] # "NONE"
      BY <1>1, <3>1, PendingCreated, ZenonT(40)
    <3>3. i = PartitionOf[p] /\ log'[i][k] = p
      <4>1. Len(log[i]) \in Nat
        BY <1>1, <3>1, DeliverAppends, ZenonT(40)
      <4>2. k > Len(log[i])
        BY <2>2, <4>1 DEF Offsets
      <4> QED BY <1>1, <3>1, <4>2, DeliverAppends, ZenonT(40)
    <3> QED BY <1>1, <3>2, <3>3, Monotone
  <2> QED BY <2>1, <2>2
<1>5. \A w \in Publishers : pubPc'[w] = "sent" => InTopic(pubRow[w])' /\ pubRow'[w] = pubRow[w]
  <2>1. ASSUME NEW w \in Publishers, PublisherSend(w) PROVE InTopic(pubRow[w])'
    <3>1. pubRow[w] \in Payments /\ pubRow'[w] = pubRow[w] /\ Deliver(pubRow[w])
      BY <1>1, <2>1, LockedRow DEF PublisherSend
    <3>2. LET i == PartitionOf[pubRow[w]] IN
            /\ i \in Partitions /\ Len(log[i]) \in Nat
            /\ Len(log'[i]) = Len(log[i]) + 1 /\ log'[i][Len(log[i]) + 1] = pubRow[w]
      BY <1>1, <3>1, DeliverAppends, ZenonT(40)
    <3>3. PICK i, n : i = PartitionOf[pubRow[w]] /\ n = Len(log[i])
      BY ZenonT(40)
    <3>4. n + 1 \in 1..Len(log'[i])
      BY <3>2, <3>3
    <3> QED BY <3>1, <3>2, <3>3, <3>4, ZenonT(40) DEF InTopic, Offsets
  <2>2. ASSUME NEW w \in Publishers, pubPc[w] = "sent", pubRow'[w] = pubRow[w]
        PROVE  InTopic(pubRow[w])'
    <3>1. pubRow[w] \in Payments /\ InTopic(pubRow[w])
      BY <1>1, <2>2, LockedRow, ZenonT(40) DEF AgreementInv, OutboxKafkaAgreement
    <3>2. ASSUME NEW p \in Payments, InTopic(p) PROVE InTopic(p)'
      BY <1>1, <3>2, InTopicStable, ZenonT(40)
    <3> QED BY <2>2, <3>1, <3>2, ZenonT(40) DEF InTopic
  <2>3. ASSUME NEW w \in Publishers, PublisherStep(w) \/ PublisherFault(w),
               NEW v \in Publishers, pubPc'[v] = "sent"
        PROVE  /\ pubRow'[v] = pubRow[v]
               /\ pubPc[v] = "sent" \/ (v = w /\ PublisherSend(w))
    BY <1>1, <2>3, ZenonT(40)
       DEF PublisherStep, PublisherFault, PublisherClaim, PublisherSend, PublisherCommit,
           ProduceRetry, PublisherSendFail, PublisherCommitFail, PublisherRelease, pubVars, TypeOK
  <2> QED BY <1>1, <2>1, <2>2, <2>3, PublisherEffect
<1>6. \A p \in published' : InTopic(p)'
  <2>1. ASSUME NEW p \in Payments, InTopic(p) PROVE InTopic(p)'
    BY <1>1, <2>1, InTopicStable, ZenonT(40)
  <2>2. ASSUME NEW w \in Publishers, PublisherStep(w) \/ PublisherFault(w),
               NEW p \in published', p \notin published
        PROVE  p \in Payments /\ InTopic(p)
    <3>1. p = pubRow[w] /\ pubPc[w] = "sent"
      BY <2>2, ZenonT(40) DEF PublisherStep, PublisherFault, PublisherClaim, PublisherSend, PublisherCommit,
                  ProduceRetry, PublisherSendFail, PublisherCommitFail, dbVars
    <3> QED BY <1>1, <3>1, LockedRow, ZenonT(40) DEF AgreementInv, OutboxKafkaAgreement
  <2>3. \A p \in published : p \in Payments /\ InTopic(p)
    BY <1>1, ZenonT(40) DEF AgreementInv, OutboxKafkaAgreement, TypeOK
  <2> QED BY <1>1, <2>1, <2>2, <2>3, PublisherEffect
<1>7. \A p \in Payments : inFlight'[p] > 0 => status'[p] # "NONE"
  BY <1>1, FlightStep, PendingCreated, Monotone, ZenonT(40)
<1> QED BY <1>1, <1>2, <1>3, <1>4, <1>5, <1>6, <1>7, ZenonT(40) DEF AgreementInv, OutboxKafkaAgreement, InTopic

\* README: a payment is never "in Kafka" without being in the database, and
\* a row marked published has its event in the topic, for every interleaving
\* of publishers and every failed or interrupted publish.
THEOREM OutboxSafe == Spec => []OutboxKafkaAgreement
<1>1. Init => AgreementInv
  BY TypeInit DEF Init, AgreementInv, OutboxKafkaAgreement, Offsets, InTopic
<1>2. AgreementInv => OutboxKafkaAgreement
  BY ZenonT(40) DEF AgreementInv
<1> QED BY <1>1, <1>2, AgreementStep, PTL DEF Spec

-----------------------------------------------------------------------------
(***************************************************************************)
(* One execution of a payment at a time.                                   *)
(***************************************************************************)
\* A consumer that keeps its message keeps its payment.
LEMMA HeldStable ==
  ASSUME TypeOK, [Next]_vars, NEW c \in Consumers, con[c].pc # "idle",
         con'[c].part = con[c].part, con'[c].off = con[c].off
  PROVE  Held(c)' = Held(c)
<1>1. con[c].part \in Partitions /\ con[c].off \in Offsets(con[c].part)
  BY HeldMessage, ZenonT(40)
<1> QED BY <1>1, Monotone, ZenonT(40) DEF Held

\* A consumer starts to execute only by winning ClaimPayment.
LEMMA ClaimStep ==
  ASSUME TypeOK, [Next]_vars, NEW d \in Consumers, con'[d].pc = "claimed"
  PROVE  \/ con'[d] = con[d]
         \/ /\ con[d].pc = "fetched" /\ status[Held(d)] = "ROUTED" /\ ClaimPayment(Held(d))
            /\ con' = [con EXCEPT ![d] = [con[d] EXCEPT !.pc = "claimed"]]
<1>1. ASSUME NEW c \in Consumers, HandleClaim(c)
      PROVE  \/ con'[d] = con[d]
             \/ /\ con[d].pc = "fetched" /\ status[Held(d)] = "ROUTED" /\ ClaimPayment(Held(d))
                /\ con' = [con EXCEPT ![d] = [con[d] EXCEPT !.pc = "claimed"]]
  <2>1. CASE d = c
    <3>1. con[c] \in [pc : {"fetched", "claimed", "handled"},
                      part : Partitions, off : Nat \ {0}]
      BY <1>1, HeldMessage DEF HandleClaim, Advance
    <3> QED BY <1>1, <2>1, <3>1, ZenonT(40) DEF HandleClaim, Advance, TypeOK
  <2>2. CASE d # c
    BY <1>1, <2>2 DEF HandleClaim, Advance, TypeOK
  <2> QED BY <2>1, <2>2
<1>2. ASSUME NEW c \in Consumers, NEW i \in Partitions, FetchMessage(c, i)
      PROVE  con'[d] = con[d]
  BY <1>2, ZenonT(40) DEF FetchMessage, Advance, TypeOK
<1>3. ASSUME NEW c \in Consumers, HandleComplete(c) PROVE con'[d] = con[d]
  <2>1. con[c] \in [pc : {"fetched", "claimed", "handled"}, part : Partitions, off : Nat \ {0}]
    BY <1>3, HeldMessage DEF HandleComplete, Advance
  <2> QED BY <1>3, <2>1 DEF HandleComplete, Advance, TypeOK
<1>4. ASSUME NEW c \in Consumers, ConsumerFault(c) \/ CommitMessages(c)
      PROVE  con'[d] = con[d]
  BY <1>4 DEF ConsumerFault, HandleClaimFail, HandleCompleteFail, CommitMessages,
              CommitMessagesFail, Advance, Idle, TypeOK
<1>5. CASE WorkerCrash
  BY <1>5 DEF WorkerCrash, Idle
<1>6. CASE \/ UNCHANGED vars
           \/ Rebalance
           \/ \E stale \in SUBSET Payments : SweepQuery(stale)
           \/ \E p \in Payments : SweepComplete(p) \/ SweepCompleteFail(p) \/ BrokerAppend(p)
           \/ \E p \in Payments, t \in 1..MaxCreatedAt : CreatePayment(p, t)
  BY <1>6 DEF vars, Rebalance, SweepQuery, SweepComplete, SweepCompleteFail, BrokerAppend, CreatePayment
<1>7. CASE \E w \in Publishers : PublisherStep(w) \/ PublisherFault(w)
  BY <1>7 DEF PublisherStep, PublisherFault, PublisherClaim, PublisherSend, PublisherCommit,
              ProduceRetry, PublisherSendFail, PublisherCommitFail
<1> QED BY <1>1, <1>2, <1>3, <1>4, <1>5, <1>6, <1>7 DEF Next, ConsumerStep

\* Every step keeps at most one consumer executing a payment.
LEMMA ExclusiveStep == TypeOK /\ ExclusiveClaim /\ [Next]_vars => ExclusiveClaim'
<1> SUFFICES ASSUME TypeOK, ExclusiveClaim, [Next]_vars PROVE ExclusiveClaim'
  OBVIOUS
<1>1. ASSUME NEW c \in Consumers, con'[c].pc = "claimed"
      PROVE  /\ Held(c)' = Held(c) /\ Held(c) \in Payments
             /\ Past(Held(c))'
  <2>1. CASE con'[c] = con[c]
    <3>1. Held(c)' = Held(c) /\ Held(c) \in Payments
      BY <1>1, <2>1, HeldStable, HeldMessage, ZenonT(40)
    <3>2. Past(Held(c))
      BY <1>1, <2>1 DEF ExclusiveClaim, Past
    <3> QED BY <3>1, <3>2, Monotone, ZenonT(40) DEF Past
  <2>2. CASE /\ con[c].pc = "fetched" /\ status[Held(c)] = "ROUTED" /\ ClaimPayment(Held(c))
             /\ con' = [con EXCEPT ![c] = [con[c] EXCEPT !.pc = "claimed"]]
    <3>1. con[c] \in [pc : {"fetched", "claimed", "handled"}, part : Partitions, off : Nat \ {0}]
      BY <2>2, HeldMessage
    <3>2. con'[c].part = con[c].part /\ con'[c].off = con[c].off
      BY <2>2, <3>1 DEF TypeOK
    <3>3. Held(c)' = Held(c) /\ Held(c) \in Payments
      BY <2>2, <3>2, HeldStable, HeldMessage
    <3>4. status'[Held(c)] = "PROCESSING"
      BY <2>2, <3>3 DEF ClaimPayment, TypeOK
    <3> QED BY <3>3, <3>4 DEF Past
  <2> QED BY <1>1, <2>1, <2>2, ClaimStep
<1>2. ASSUME NEW c \in Consumers, NEW d \in Consumers, con'[c].pc = "claimed",
             con'[d].pc = "claimed", Held(d)' = Held(c)'
      PROVE  c = d
  <2>1. Held(c) = Held(d)
    BY <1>1, <1>2, ZenonT(40)
  <2>2. CASE con'[c] = con[c] /\ con'[d] = con[d]
    BY <1>2, <2>1, <2>2, ZenonT(40) DEF ExclusiveClaim
  <2>3. ASSUME NEW a \in Consumers, NEW b \in Consumers, a # b, Held(a) = Held(b),
               con'[a].pc = "claimed", con'[a] # con[a], con'[b].pc = "claimed"
        PROVE  FALSE
    <3>1. status[Held(a)] = "ROUTED" /\ con' = [con EXCEPT ![a] = [con[a] EXCEPT !.pc = "claimed"]]
      BY <2>3, ClaimStep
    <3>2. con[b].pc = "claimed"
      BY <2>3, <3>1 DEF TypeOK
    <3> QED BY <2>3, <3>1, <3>2 DEF ExclusiveClaim
  <2> QED BY <1>2, <2>1, <2>2, <2>3, ZenonT(40)
<1> QED BY <1>1, <1>2, ZenonT(40) DEF ExclusiveClaim, Past

\* "The sole mechanism preventing duplicate claims" works: however often an
\* event is published, delivered or redelivered, no two consumer goroutines
\* execute a payment at the same time.
THEOREM ClaimsExclusive == Spec => []ExclusiveClaim
<1>1. Init => ExclusiveClaim
  BY DEF Init, ExclusiveClaim, Idle
<1> QED BY <1>1, TypeInit, TypeStep, ExclusiveStep, PTL DEF Spec

-----------------------------------------------------------------------------
(***************************************************************************)
(* Nothing is lost while ClaimPayment does not fail and either there is    *)
(* one consumer goroutine or the reader never goes back to the committed   *)
(* offsets.                                                                *)
(***************************************************************************)
OneConsumer == \A c, d \in Consumers : c = d

NeverRewinds == "crash" \notin Faulty /\ "rebalance" \notin Faulty

ClaimsNeverFail == "claim" \notin Faulty

\* The payment of message k of partition i has been claimed.
Settled(i, k) == Past(log[i][k])

\* A message that was handed out is settled or about to be claimed.
HandedOut ==
  \A i \in Partitions : \A k \in 1..position[i] :
    \/ Settled(i, k)
    \/ \E c \in Consumers : con[c].pc = "fetched" /\ con[c].part = i /\ con[c].off = k

\* A single consumer has settled everything before the message it holds, and
\* that message too once it goes on to execute or commit it.
InOrder ==
  \A c \in Consumers : con[c].pc # "idle" =>
    /\ \A k \in 1..(con[c].off - 1) : Settled(con[c].part, k)
    /\ con[c].pc # "fetched" => Settled(con[c].part, con[c].off)

CommittedSettled == \A i \in Partitions : \A k \in 1..committed[i] : Settled(i, k)

\* The inductive invariant.  CommitAfterSuccess alone is not inductive: it says
\* nothing of the messages a consumer has passed on its way to a commit.
DeliveryInv ==
  /\ AgreementInv
  /\ HandedOut
  /\ OneConsumer => InOrder /\ CommittedSettled

\* A settled message stays settled.
LEMMA SettledStable ==
  ASSUME TypeOK, [Next]_vars, NEW i \in Partitions, NEW k \in Offsets(i), Settled(i, k)
  PROVE  Settled(i, k)'
<1>1. log'[i][k] = log[i][k] /\ log[i][k] \in Payments
  BY Monotone, MessageTyped, ZenonT(40)
<1> QED BY <1>1, Monotone DEF Settled, Past

\* Steps that leave the consumers and their offsets alone.
LEMMA QuietStep ==
  ASSUME DeliveryInv, [Next]_vars, UNCHANGED <<position, committed, con>>
  PROVE  HandedOut' /\ (OneConsumer => InOrder' /\ CommittedSettled')
<1>1. TypeOK
  BY DEF DeliveryInv, AgreementInv
<1>2. ASSUME NEW i \in Partitions, NEW k \in 1..position[i] PROVE k \in Offsets(i)
  BY <1>1, <1>2 DEF TypeOK, PointersInRange, Offsets
<1>3. ASSUME NEW i \in Partitions, NEW k \in 1..committed[i] PROVE k \in Offsets(i)
  BY <1>1, <1>3 DEF TypeOK, PointersInRange, Offsets
<1>4. HandedOut'
  BY <1>1, <1>2, SettledStable DEF DeliveryInv, HandedOut
<1>5. ASSUME OneConsumer PROVE CommittedSettled'
  BY <1>1, <1>3, <1>5, SettledStable DEF DeliveryInv, CommittedSettled
<1>6. ASSUME OneConsumer PROVE InOrder'
  <2>1. ASSUME NEW c \in Consumers, con[c].pc # "idle"
        PROVE  /\ con[c].part \in Partitions /\ con[c].off \in Offsets(con[c].part)
               /\ \A k \in 1..(con[c].off - 1) : k \in Offsets(con[c].part)
    BY <1>1, <2>1, HeldMessage DEF TypeOK, Offsets
  <2> QED BY <1>1, <1>6, <2>1, SettledStable, ZenonT(40) DEF DeliveryInv, InOrder
<1> QED BY <1>4, <1>5, <1>6

\* Steps of a consumer c that holds a message: they disturb HandedOut only for
\* that message, and only if it was "fetched" and does not come out settled.
LEMMA HolderStep ==
  ASSUME DeliveryInv, [Next]_vars, NEW c \in Consumers, con[c].pc # "idle",
         UNCHANGED position,
         \A d \in Consumers \ {c} : con'[d] = con[d],
         \A i \in Partitions : \A k \in Offsets(i) :
           con[c].pc = "fetched" /\ con[c].part = i /\ con[c].off = k => Settled(i, k)'
  PROVE  HandedOut'
<1>1. TypeOK
  BY ZenonT(40) DEF DeliveryInv, AgreementInv
<1> SUFFICES ASSUME NEW i \in Partitions, NEW k \in 1..position[i]
             PROVE  \/ Settled(i, k)'
                    \/ \E d \in Consumers : con'[d].pc = "fetched" /\ con'[d].part = i /\ con'[d].off = k
  BY ZenonT(40) DEF HandedOut
<1>2. k \in Offsets(i)
  <2>1. position[i] \in Nat /\ Len(log[i]) \in Nat
    BY <1>1 DEF TypeOK
  <2>2. position[i] <= Len(log[i])
    BY <1>1, ZenonT(40) DEF TypeOK, PointersInRange
  <2> QED BY <2>1, <2>2 DEF Offsets
<1>3. CASE Settled(i, k)
  BY <1>1, <1>2, <1>3, SettledStable, ZenonT(40)
<1>4. ASSUME NEW d \in Consumers, con[d].pc = "fetched", con[d].part = i, con[d].off = k
      PROVE  \/ Settled(i, k)'
             \/ con'[d].pc = "fetched" /\ con'[d].part = i /\ con'[d].off = k
  BY <1>2, <1>4, ZenonT(40)
<1>5. \/ Settled(i, k)
      \/ \E d \in Consumers : con[d].pc = "fetched" /\ con[d].part = i /\ con[d].off = k
  BY DEF DeliveryInv, HandedOut
<1> QED BY <1>3, <1>4, <1>5, ZenonT(40)

\* Every step keeps the bookkeeping of handed out and committed messages.
LEMMA DeliveryStep ==
  ASSUME ClaimsNeverFail, OneConsumer \/ NeverRewinds
  PROVE  DeliveryInv /\ [Next]_vars => DeliveryInv'
<1> SUFFICES ASSUME DeliveryInv, [Next]_vars
             PROVE  HandedOut' /\ (OneConsumer => InOrder' /\ CommittedSettled')
  BY AgreementStep DEF DeliveryInv
<1>0. TypeOK /\ TypeOK'
  BY TypeStep DEF DeliveryInv, AgreementInv
<1>1. ASSUME NEW c \in Consumers, NEW i \in Partitions, FetchMessage(c, i)
      PROVE  HandedOut' /\ (OneConsumer => InOrder' /\ CommittedSettled')
  <2>1. /\ position[i] \in Nat /\ position' = [position EXCEPT ![i] = position[i] + 1]
        /\ con[c].pc = "idle"
        /\ con' = [con EXCEPT ![c] = [pc |-> "fetched", part |-> i, off |-> position[i] + 1]]
        /\ UNCHANGED <<status, log, committed>>
    BY <1>0, <1>1, ZenonT(40) DEF FetchMessage, Advance, TypeOK, dbVars
  <2>2. \A d \in Consumers : con'[d] = IF d = c
          THEN [pc |-> "fetched", part |-> i, off |-> position[i] + 1] ELSE con[d]
    BY <1>0, <2>1, ZenonT(40) DEF TypeOK
  <2>3. HandedOut'
    <3> SUFFICES ASSUME NEW j \in Partitions, NEW k \in 1..position'[j]
                 PROVE  \/ Settled(j, k)'
                        \/ \E d \in Consumers :
                             con'[d].pc = "fetched" /\ con'[d].part = j /\ con'[d].off = k
      BY ZenonT(40) DEF HandedOut
    <3>1. CASE k \in 1..position[j]
      <4>1. CASE Settled(j, k)
        BY <2>1, <4>1, ZenonT(40) DEF Settled, Past
      <4>2. CASE \E d \in Consumers : con[d].pc = "fetched" /\ con[d].part = j /\ con[d].off = k
        BY <2>1, <2>2, <4>2, ZenonT(40)
      <4> QED BY <3>1, <4>1, <4>2, ZenonT(40) DEF DeliveryInv, HandedOut
    <3>2. CASE k \notin 1..position[j]
      <4>1. position'[j] = IF j = i THEN position[i] + 1 ELSE position[j]
        BY <1>0, <2>1, ZenonT(40) DEF TypeOK
      <4>2. position[j] \in Nat
        BY <1>0, ZenonT(40) DEF TypeOK
      <4>3. j = i /\ k = position[i] + 1
        BY <2>1, <3>2, <4>1, <4>2
      <4> QED BY <2>2, <4>3
    <3> QED BY <3>1, <3>2, ZenonT(40)
  <2>4. ASSUME OneConsumer PROVE InOrder'
    <3>1. \A k \in 1..position[i] : Settled(i, k)
      BY <2>1, <2>4 DEF DeliveryInv, HandedOut, OneConsumer
    <3>2. \A k \in 1..position[i] : Settled(i, k)'
      BY <2>1, <3>1, ZenonT(40) DEF Settled, Past
    <3>3. \A d \in Consumers : d = c
      BY <2>4 DEF OneConsumer
    <3> QED BY <2>1, <2>2, <3>2, <3>3 DEF InOrder
  <2>5. ASSUME OneConsumer PROVE CommittedSettled'
    BY <2>1, <2>5, ZenonT(40) DEF DeliveryInv, CommittedSettled, Settled, Past
  <2> QED BY <2>3, <2>4, <2>5, ZenonT(40)
<1>2. ASSUME OneConsumer, UNCHANGED committed PROVE CommittedSettled'
  <2>1. ASSUME NEW i \in Partitions, NEW k \in 1..committed[i] PROVE k \in Offsets(i)
    BY <1>0, <2>1 DEF TypeOK, PointersInRange, Offsets
  <2> QED BY <1>0, <1>2, <2>1, SettledStable DEF DeliveryInv, CommittedSettled
<1>3. ASSUME NEW c \in Consumers, OneConsumer, con[c].pc # "idle",
             NEW i \in Partitions, NEW o \in Offsets(i), con[c].part = i, con[c].off = o
      PROVE  /\ \A k \in 1..(o - 1) : Settled(i, k)'
             /\ con[c].pc # "fetched" => Settled(i, o)'
  <2>1. \A k \in 1..(o - 1) : k \in Offsets(i)
    BY <1>0 DEF TypeOK, Offsets
  <2> QED BY <1>0, <1>3, <2>1, SettledStable, ZenonT(40) DEF DeliveryInv, InOrder
<1>4. ASSUME NEW c \in Consumers, HandleClaim(c)
      PROVE  HandedOut' /\ (OneConsumer => InOrder' /\ CommittedSettled')
  <2>1. con[c].pc = "fetched" /\ ClaimPayment(Held(c)) /\ UNCHANGED <<log, position, committed>>
    BY <1>4, ZenonT(40) DEF HandleClaim, Advance, kafkaVars
  <2>2. PICK i \in Partitions, o \in Nat :
          /\ o \in Offsets(i) /\ con[c].part = i /\ con[c].off = o
          /\ Held(c) = log[i][o] /\ Held(c) \in Payments
    BY <1>0, <2>1, HeldMessage, ZenonT(40) DEF Held
  <2>3. Settled(i, o)'
    <3>1. status[log[i][o]] # "NONE"
      BY <2>2, ZenonT(40) DEF DeliveryInv, AgreementInv, OutboxKafkaAgreement
    <3>2. status'[log[i][o]] \notin {"NONE", "ROUTED"}
      BY <1>0, <2>1, <2>2, <3>1, ZenonT(40) DEF ClaimPayment, TypeOK
    <3> QED BY <2>1, <3>2 DEF Settled, Past
  <2>4. PICK to \in {"claimed", "handled"} :
          con' = [con EXCEPT ![c] = [con[c] EXCEPT !.pc = to]]
    BY <1>4, ZenonT(40) DEF HandleClaim, Advance
  <2>5. con[c] \in [pc : {"fetched", "claimed", "handled"}, part : Partitions, off : Nat \ {0}]
    BY <1>0, <2>1, HeldMessage, ZenonT(40)
  <2>6. /\ \A d \in Consumers \ {c} : con'[d] = con[d]
        /\ con'[c].part = i /\ con'[c].off = o /\ con'[c].pc = to
    BY <1>0, <2>2, <2>4, <2>5, ZenonT(40) DEF TypeOK
  <2>7. HandedOut'
    BY <2>1, <2>2, <2>3, <2>6, HolderStep, ZenonT(40)
  <2>8. ASSUME OneConsumer PROVE InOrder'
    <3>1. \A d \in Consumers : d = c
      BY <2>8, ZenonT(40) DEF OneConsumer
    <3>2. \A k \in 1..(o - 1) : Settled(i, k)'
      BY <1>3, <2>1, <2>2, <2>8, ZenonT(40)
    <3> QED BY <2>3, <2>6, <3>1, <3>2 DEF InOrder
  <2> QED BY <1>2, <2>1, <2>7, <2>8
<1>5. ASSUME NEW c \in Consumers, HandleComplete(c)
      PROVE  HandedOut' /\ (OneConsumer => InOrder' /\ CommittedSettled')
  <2>1. con[c].pc = "claimed" /\ UNCHANGED <<log, position, committed>>
    BY <1>5 DEF HandleComplete, Advance, kafkaVars
  <2>2. con[c] \in [pc : {"fetched", "claimed", "handled"}, part : Partitions, off : Nat \ {0}]
    BY <1>0, <2>1, HeldMessage
  <2>3. PICK i \in Partitions, o \in Nat :
          o \in Offsets(i) /\ con[c].part = i /\ con[c].off = o
    BY <1>0, <2>1, HeldMessage
  <2>4. /\ \A d \in Consumers \ {c} : con'[d] = con[d]
        /\ con'[c].part = i /\ con'[c].off = o /\ con'[c].pc = "handled"
    BY <1>0, <1>5, <2>2, <2>3, ZenonT(40) DEF HandleComplete, Advance, TypeOK
  <2>5. HandedOut'
    BY <2>1, <2>4, HolderStep, ZenonT(40)
  <2>6. ASSUME OneConsumer PROVE InOrder'
    <3>1. \A d \in Consumers : d = c
      BY <2>6 DEF OneConsumer
    <3>2. (\A k \in 1..(o - 1) : Settled(i, k)') /\ Settled(i, o)'
      BY <1>3, <2>1, <2>3, <2>6, ZenonT(40)
    <3> QED BY <2>4, <3>1, <3>2 DEF InOrder
  <2> QED BY <1>2, <2>1, <2>5, <2>6
<1>6. ASSUME NEW c \in Consumers, HandleClaimFail(c) PROVE FALSE
  BY <1>6 DEF HandleClaimFail, Fault, ClaimsNeverFail
<1>7. ASSUME NEW c \in Consumers, con[c].pc \in {"claimed", "handled"},
             con' = [con EXCEPT ![c] = Idle], UNCHANGED position
      PROVE  HandedOut' /\ (OneConsumer => InOrder')
  <2>1. con'[c] = Idle /\ \A d \in Consumers \ {c} : con'[d] = con[d]
    BY <1>0, <1>7, ZenonT(40) DEF TypeOK
  <2>2. HandedOut'
    BY <1>7, <2>1, HolderStep, ZenonT(40)
  <2>3. OneConsumer => InOrder'
    BY <2>1 DEF OneConsumer, InOrder, Idle
  <2> QED BY <2>2, <2>3
<1>8. ASSUME NEW c \in Consumers, HandleCompleteFail(c)
      PROVE  HandedOut' /\ (OneConsumer => InOrder' /\ CommittedSettled')
  BY <1>2, <1>7, <1>8, ZenonT(40) DEF HandleCompleteFail, Advance, kafkaVars
<1>9. ASSUME NEW c \in Consumers, CommitMessages(c) \/ CommitMessagesFail(c)
      PROVE  HandedOut' /\ (OneConsumer => InOrder' /\ CommittedSettled')
  <2>1. /\ con[c].pc = "handled" /\ con' = [con EXCEPT ![c] = Idle]
        /\ UNCHANGED <<status, log, position>>
        /\ Commit(c) \/ UNCHANGED committed
    BY <1>9 DEF CommitMessages, CommitMessagesFail, Advance, dbVars
  <2>2. HandedOut' /\ (OneConsumer => InOrder')
    BY <1>7, <2>1, ZenonT(40)
  <2>3. ASSUME OneConsumer, Commit(c) PROVE CommittedSettled'
    <3>1. PICK i \in Partitions, o \in Nat :
          o \in Offsets(i) /\ con[c].part = i /\ con[c].off = o
      BY <1>0, <2>1, HeldMessage
    <3>2. (\A k \in 1..(o - 1) : Settled(i, k)) /\ Settled(i, o)
      BY <2>1, <2>3, <3>1 DEF DeliveryInv, InOrder
    <3>3. o \in Nat /\ committed' = [committed EXCEPT ![i] = o]
      BY <1>0, <2>3, <3>1, ZenonT(40) DEF Commit, Offsets, TypeOK
    <3>4. ASSUME NEW j \in Partitions, NEW k \in 1..committed'[j] PROVE Settled(j, k)
      <4>1. committed'[j] = IF j = i THEN o ELSE committed[j]
        BY <1>0, <3>3, ZenonT(40) DEF TypeOK
      <4>2. CASE j = i
        <5>1. k \in 1..(o - 1) \/ k = o
          BY <3>3, <4>1, <4>2
        <5> QED BY <3>2, <4>2, <5>1
      <4>3. CASE j # i
        BY <2>3, <4>1, <4>3 DEF DeliveryInv, CommittedSettled
      <4> QED BY <4>2, <4>3
    <3> QED BY <2>1, <3>4 DEF CommittedSettled, Settled, Past
  <2> QED BY <1>2, <2>1, <2>2, <2>3
<1>10. ASSUME WorkerCrash \/ Rebalance
       PROVE  HandedOut' /\ (OneConsumer => InOrder' /\ CommittedSettled')
  <2>1. OneConsumer /\ UNCHANGED <<status, log, committed>> /\ position' = committed
    BY <1>10 DEF WorkerCrash, Rebalance, Fault, NeverRewinds, dbVars
  <2>2. HandedOut'
    BY <2>1, ZenonT(40) DEF DeliveryInv, CommittedSettled, HandedOut, Settled, Past
  <2>3. CASE WorkerCrash
    BY <1>2, <2>1, <2>2, <2>3, ZenonT(40) DEF WorkerCrash, InOrder, Idle
  <2>4. CASE Rebalance
    <3>1. UNCHANGED con
      BY <2>4, ZenonT(40) DEF Rebalance
    <3>2. InOrder'
      BY <2>1, <3>1, ZenonT(40) DEF DeliveryInv, InOrder, Settled, Past
    <3> QED BY <1>2, <2>1, <2>2, <3>2
  <2> QED BY <1>10, <2>3, <2>4
<1>11. CASE \/ UNCHANGED vars
            \/ \E stale \in SUBSET Payments : SweepQuery(stale)
            \/ \E p \in Payments : SweepComplete(p) \/ SweepCompleteFail(p) \/ BrokerAppend(p)
            \/ \E p \in Payments, t \in 1..MaxCreatedAt : CreatePayment(p, t)
  <2>1. UNCHANGED <<position, committed, con>>
    BY <1>11, ZenonT(40)
       DEF vars, SweepQuery, SweepComplete, SweepCompleteFail, BrokerAppend, CreatePayment, kafkaVars
  <2> QED BY <2>1, QuietStep
<1>12. CASE \E w \in Publishers : PublisherStep(w) \/ PublisherFault(w)
  <2>1. UNCHANGED <<position, committed, con>>
    BY <1>12, ZenonT(40) DEF PublisherStep, PublisherFault, PublisherClaim, PublisherSend, PublisherCommit,
                 ProduceRetry, PublisherSendFail, PublisherCommitFail, kafkaVars
  <2> QED BY <2>1, QuietStep
<1> QED
  BY <1>1, <1>4, <1>5, <1>6, <1>8, <1>9, <1>10, <1>11, <1>12
     DEF Next, ConsumerStep, ConsumerFault

\* It holds when nothing has been handed out.
LEMMA DeliveryInit == Init => DeliveryInv
<1> SUFFICES ASSUME Init PROVE DeliveryInv
  BY ZenonT(40)
<1>1. AgreementInv
  BY TypeInit DEF Init, AgreementInv, OutboxKafkaAgreement, Offsets, InTopic
<1>2. HandedOut
  BY DEF Init, HandedOut
<1>3. InOrder
  BY DEF Init, InOrder, Idle
<1>4. CommittedSettled
  BY DEF Init, CommittedSettled
<1> QED BY <1>1, <1>2, <1>3, <1>4 DEF DeliveryInv

\* The commit-after-success ordering holds with the default single consumer
\* goroutine, across crashes, redelivery, failed executions and failed commits,
\* as long as ClaimPayment itself never fails.
THEOREM CommitOrdering ==
  ASSUME OneConsumer, ClaimsNeverFail
  PROVE  Spec => []CommitAfterSuccess
<1>1. DeliveryInv => CommitAfterSuccess
  BY DEF DeliveryInv, CommittedSettled, Settled, Past, CommitAfterSuccess
<1>2. DeliveryInv /\ [Next]_vars => DeliveryInv'
  BY DeliveryStep
<1> QED BY <1>1, <1>2, DeliveryInit, PTL DEF Spec

\* README: no payment gets silently lost.  A payment that waits to be claimed is
\* in the outbox, in the topic ahead of the reader, or with a consumer, under
\* the same conditions, or with any number of consumers if the reader never
\* goes back to the committed offsets.
THEOREM NothingStranded ==
  ASSUME ClaimsNeverFail, OneConsumer \/ NeverRewinds
  PROVE  Spec => []NoPaymentStranded
<1>1. ASSUME DeliveryInv, NEW p \in Payments, status[p] = "ROUTED", p \in published
      PROVE  \/ \E k \in Offsets(PartitionOf[p]) :
                  k > position[PartitionOf[p]] /\ log[PartitionOf[p]][k] = p
             \/ \E c \in Consumers : con[c].pc = "fetched" /\ Held(c) = p
  <2>1. TypeOK /\ InTopic(p)
    BY <1>1 DEF DeliveryInv, AgreementInv, OutboxKafkaAgreement
  <2>2. PICK k \in Offsets(PartitionOf[p]) : log[PartitionOf[p]][k] = p
    BY <2>1 DEF InTopic
  <2>3. PartitionOf[p] \in Partitions /\ position[PartitionOf[p]] \in Nat /\ k \in Nat \ {0}
    BY <2>1, PartitionAssumption DEF TypeOK, Offsets
  <2>4. CASE k <= position[PartitionOf[p]]
    <3>1. k \in 1..position[PartitionOf[p]] /\ ~Settled(PartitionOf[p], k)
      BY <1>1, <2>2, <2>3, <2>4 DEF Settled, Past
    <3>2. HandedOut
      BY <1>1, ZenonT(40) DEF DeliveryInv
    <3>3. PICK c \in Consumers : /\ con[c].pc = "fetched"
                                 /\ con[c].part = PartitionOf[p] /\ con[c].off = k
      BY <2>3, <3>1, <3>2 DEF HandedOut
    <3>4. Held(c) = p
      BY <2>2, <3>3 DEF Held
    <3> QED BY <3>3, <3>4, ZenonT(40)
  <2>5. CASE k > position[PartitionOf[p]]
    BY <2>2, <2>5, ZenonT(40)
  <2>6. k <= position[PartitionOf[p]] \/ k > position[PartitionOf[p]]
    BY <2>3
  <2> QED BY <2>4, <2>5, <2>6, ZenonT(40)
<1>2. DeliveryInv => NoPaymentStranded
  BY <1>1, ZenonT(40) DEF NoPaymentStranded
<1>3. DeliveryInv /\ [Next]_vars => DeliveryInv'
  BY DeliveryStep
<1> QED BY <1>2, <1>3, DeliveryInit, PTL DEF Spec

-----------------------------------------------------------------------------
(***************************************************************************)
(* Copies of an event.                                                     *)
(***************************************************************************)
\* What is left counts the copies.
INSTANCE FiniteSetTheorems

\* The offsets at which the event of payment p is in the topic.
Copies(p) == {k \in Offsets(PartitionOf[p]) : log[PartitionOf[p]][k] = p}

\* With those that the broker may still append.
Load(p) == Cardinality(Copies(p)) + inFlight[p]

\* The attempts that were retried and the transactions that failed or were
\* interrupted.
Interruptions == faults["produce"] + faults["publish"] + faults["crash"]

\* The event has not been sent by a transaction that marked it published, or
\* that is about to.
Unsent(p) == p \notin published /\ \A w \in Publishers : pubPc[w] = "sent" => pubRow[w] # p

\* Strengthening of DuplicatesNeedFaults: a row lock has one holder, a locked
\* row is unpublished, requests in flight count as copies, and there are no more
\* of them for an unsent event than there were interruptions.
CopiesInv ==
  /\ TypeOK
  /\ \A v, w \in Publishers : pubPc[w] # "idle" /\ pubRow[v] = pubRow[w] => v = w
  /\ \A w \in Publishers : pubPc[w] # "idle" => pubRow[w] \notin published
  /\ \A p \in Payments : /\ Load(p) <= 1 + Interruptions
                         /\ Unsent(p) => Load(p) <= Interruptions

\* Copies, requests in flight and interruptions are counted in numbers.
LEMMA CopiesTyped ==
  ASSUME TypeOK, NEW p \in Payments
  PROVE  /\ IsFiniteSet(Copies(p)) /\ Cardinality(Copies(p)) \in Nat
         /\ inFlight[p] \in Nat /\ Load(p) \in Nat
         /\ Interruptions \in Nat
<1>1. PartitionOf[p] \in Partitions
  BY PartitionAssumption
<1>2. Len(log[PartitionOf[p]]) \in Nat
  BY <1>1 DEF TypeOK
<1>3. IsFiniteSet(1..Len(log[PartitionOf[p]]))
  BY <1>2, FS_Interval
<1>4. Copies(p) \in SUBSET (1..Len(log[PartitionOf[p]]))
  BY ZenonT(40) DEF Copies, Offsets
<1>5. IsFiniteSet(Copies(p))
  BY <1>3, <1>4, FS_Subset, ZenonT(40)
<1>6. Cardinality(Copies(p)) \in Nat
  BY <1>5, FS_CardinalityType
<1>7. Interruptions \in Nat
  <2>1. faults["produce"] \in Nat /\ faults["publish"] \in Nat /\ faults["crash"] \in Nat
    BY ZenonT(40) DEF TypeOK, FaultKinds
  <2> QED BY <2>1 DEF Interruptions
<1>8. inFlight[p] \in Nat
  BY ZenonT(40) DEF TypeOK
<1>9. Load(p) \in Nat
  BY <1>6, <1>8 DEF Load
<1> QED BY <1>5, <1>6, <1>7, <1>8, <1>9

\* A delivery adds one copy of one event.
LEMMA DeliverCopies ==
  ASSUME TypeOK, NEW p \in Payments, Deliver(p)
  PROVE  /\ Cardinality(Copies(p)') = Cardinality(Copies(p)) + 1
         /\ \A q \in Payments \ {p} : Copies(q)' = Copies(q)
<1>1. PICK i \in Partitions, n \in Nat : i = PartitionOf[p] /\ n = Len(log[i])
  BY PartitionAssumption DEF TypeOK
<1>2. Len(log'[i]) = n + 1 /\ log'[i][n + 1] = p /\ \A k \in 1..n : log'[i][k] = log[i][k]
  BY <1>1, DeliverAppends, ZenonT(40) DEF Offsets
<1>3. Copies(p) = {k \in 1..n : log[i][k] = p} /\ Copies(p)' = {k \in 1..(n + 1) : log'[i][k] = p}
  BY <1>1, <1>2, ZenonT(40) DEF Copies, Offsets
<1>4. Copies(p)' = Copies(p) \cup {n + 1} /\ n + 1 \notin Copies(p)
  <2>1. 1..(n + 1) = (1..n) \cup {n + 1} /\ n + 1 \notin 1..n
    OBVIOUS
  <2> QED BY <1>2, <1>3, <2>1, ZenonT(40)
<1>5. Cardinality(Copies(p)') = Cardinality(Copies(p)) + 1
  BY <1>4, CopiesTyped, FS_AddElement, ZenonT(40)
<1>6. ASSUME NEW q \in Payments \ {p}
      PROVE  Copies(q)' = Copies(q)
  <2>1. PICK j \in Partitions : j = PartitionOf[q]
    BY PartitionAssumption
  <2>2. /\ Len(log[j]) \in Nat /\ Len(log'[j]) \in Nat /\ Len(log[j]) <= Len(log'[j])
        /\ \A k \in 1..Len(log[j]) : log'[j][k] = log[j][k]
        /\ \A k \in 1..Len(log'[j]) : k > Len(log[j]) => log'[j][k] = p
    BY DeliverAppends, ZenonT(40) DEF Offsets
  <2>3. /\ Copies(q) = {k \in 1..Len(log[j]) : log[j][k] = q}
        /\ Copies(q)' = {k \in 1..Len(log'[j]) : log'[j][k] = q}
    BY <2>1, ZenonT(40) DEF Copies, Offsets
  <2>4. \A k : k \in Copies(q)' <=> k \in Copies(q)
    BY <2>2, <2>3
  <2> QED BY <2>4
<1> QED BY <1>5, <1>6

\* Faults are only ever counted up.
LEMMA FaultsGrow ==
  ASSUME TypeOK, [Next]_vars
  PROVE  \A k \in FaultKinds : faults'[k] \in Nat /\ faults'[k] >= faults[k]
<1>1. ASSUME NEW kind \in FaultKinds, Fault(kind)
      PROVE  \A k \in FaultKinds : faults'[k] \in Nat /\ faults'[k] >= faults[k]
  BY <1>1 DEF Fault, TypeOK
<1>2. CASE UNCHANGED faults
  BY <1>2 DEF TypeOK
<1>3. UNCHANGED faults \/ \E kind \in FaultKinds : Fault(kind)
  <2>1. ASSUME NEW w \in Publishers, PublisherStep(w) \/ PublisherFault(w)
        PROVE  UNCHANGED faults \/ Fault("produce") \/ Fault("publish")
    BY <2>1, ZenonT(40) DEF PublisherStep, PublisherFault, PublisherClaim, PublisherSend, PublisherCommit,
                ProduceRetry, PublisherSendFail, PublisherCommitFail
  <2>2. ASSUME NEW c \in Consumers, ConsumerStep(c) \/ ConsumerFault(c)
        PROVE  UNCHANGED faults \/ \E kind \in {"claim", "complete", "commit"} : Fault(kind)
    BY <2>2, ZenonT(40)
       DEF ConsumerStep, ConsumerFault, FetchMessage, HandleClaim, HandleComplete, HandleClaimFail,
           HandleCompleteFail, CommitMessages, CommitMessagesFail
  <2>3. CASE UNCHANGED vars
    BY <2>3 DEF vars
  <2>4. CASE WorkerCrash \/ Rebalance
    BY <2>4 DEF WorkerCrash, Rebalance, FaultKinds
  <2>5. CASE \E stale \in SUBSET Payments : SweepQuery(stale)
    BY <2>5 DEF SweepQuery
  <2>6. CASE \E p \in Payments : SweepComplete(p) \/ SweepCompleteFail(p) \/ BrokerAppend(p)
    BY <2>6 DEF SweepComplete, SweepCompleteFail, BrokerAppend, FaultKinds
  <2>7. CASE \E p \in Payments, t \in 1..MaxCreatedAt : CreatePayment(p, t)
    BY <2>7 DEF CreatePayment
  <2> QED BY <2>1, <2>2, <2>3, <2>4, <2>5, <2>6, <2>7, ZenonT(40) DEF Next, FaultKinds
<1> QED BY <1>1, <1>2, <1>3

\* The number of interruptions before and after a step.
LEMMA InterruptionsTyped ==
  ASSUME TypeOK, TypeOK'
  PROVE  Interruptions \in Nat /\ Interruptions' \in Nat
<1>1. faults["produce"] \in Nat /\ faults["publish"] \in Nat /\ faults["crash"] \in Nat
  BY ZenonT(40) DEF TypeOK, FaultKinds
<1>2. faults'["produce"] \in Nat /\ faults'["publish"] \in Nat /\ faults'["crash"] \in Nat
  BY ZenonT(40) DEF TypeOK, FaultKinds
<1> QED BY <1>1, <1>2 DEF Interruptions

\* A step that leaves the publishers and the outbox alone, and the topic too or
\* moves a request in flight into it.
LEMMA CopiesFrame ==
  ASSUME CopiesInv, TypeOK', UNCHANGED <<pubPc, pubRow, published>>,
         \A p \in Payments : Load(p)' = Load(p), Interruptions' >= Interruptions
  PROVE  CopiesInv'
<1>1. Interruptions \in Nat /\ Interruptions' \in Nat
  BY InterruptionsTyped, ZenonT(40) DEF CopiesInv
<1>2. \A p \in Payments : Load(p)' = Load(p) /\ Load(p) \in Nat /\ (Unsent(p)' => Unsent(p))
  BY CopiesTyped, ZenonT(40) DEF CopiesInv, Unsent
<1>3. \A p \in Payments : /\ Load(p)' <= 1 + Interruptions'
                          /\ Unsent(p)' => Load(p)' <= Interruptions'
  <2>1. \A c, i, j \in Nat : j >= i => (c <= 1 + i => c <= 1 + j) /\ (c <= i => c <= j)
    OBVIOUS
  <2>2. \A p \in Payments : /\ Load(p) <= 1 + Interruptions'
                            /\ Unsent(p) => Load(p) <= Interruptions'
    BY <1>1, <1>2, <2>1, ZenonT(40) DEF CopiesInv
  <2> QED BY <1>2, <2>2, ZenonT(40)
<1>4. /\ \A v, w \in Publishers : pubPc'[w] # "idle" /\ pubRow'[v] = pubRow'[w] => v = w
      /\ \A w \in Publishers : pubPc'[w] # "idle" => pubRow'[w] \notin published'
  BY ZenonT(40) DEF CopiesInv
<1> QED BY <1>3, <1>4, ZenonT(40) DEF CopiesInv

\* The event that a publisher has not sent yet is unsent: nobody else holds it.
LEMMA ClaimedUnsent ==
  ASSUME CopiesInv, NEW w \in Publishers, pubPc[w] = "claimed", NEW p, pubRow[w] = p
  PROVE  Unsent(p)
BY ZenonT(40) DEF CopiesInv, Unsent

\* A retried attempt, a transaction that ends without its row marked published,
\* and every crash is an interruption: it pays for the copy that was sent and
\* for the request that is left in flight.
LEMMA CopiesInterrupted ==
  ASSUME CopiesInv, TypeOK', Interruptions' = Interruptions + 1, UNCHANGED log,
         \A p \in Payments :
           \/ inFlight'[p] = inFlight[p]
           \/ /\ inFlight'[p] = inFlight[p] + 1
              /\ \E w \in Publishers : pubPc[w] = "claimed" /\ pubRow[w] = p,
         \A w \in Publishers : \/ pubPc'[w] = "idle" /\ pubRow'[w] = NoPayment
                               \/ pubPc'[w] = pubPc[w] /\ pubRow'[w] = pubRow[w],
         \A p \in published' \ published :
           \E w \in Publishers : pubPc[w] # "idle" /\ pubRow[w] = p /\ pubPc'[w] = "idle",
         published \subseteq published'
  PROVE  CopiesInv'
<1>1. Interruptions \in Nat /\ Interruptions' \in Nat
  BY InterruptionsTyped, ZenonT(40) DEF CopiesInv
<1>2. \A p \in Payments : /\ Copies(p)' = Copies(p) /\ Cardinality(Copies(p)) \in Nat
                          /\ inFlight[p] \in Nat
  BY CopiesTyped, ZenonT(40) DEF Copies, Offsets, CopiesInv
<1>3. ASSUME NEW p \in Payments
      PROVE  Load(p)' \in Nat /\ Load(p)' <= Interruptions'
  <2>1. PICK c \in Nat, f \in Nat : c = Cardinality(Copies(p)) /\ f = inFlight[p]
    BY <1>2, ZenonT(40)
  <2>2. Load(p) = c + f /\ Load(p)' = c + inFlight'[p]
    BY <1>2, <2>1, ZenonT(40) DEF Load
  <2>3. CASE inFlight'[p] = inFlight[p]
    <3>1. Load(p) <= 1 + Interruptions
      BY ZenonT(40) DEF CopiesInv
    <3>2. Load(p)' = c + f /\ c + f <= 1 + Interruptions
      BY <2>1, <2>2, <2>3, <3>1, ZenonT(40)
    <3>3. c + f \in Nat /\ c + f <= Interruptions'
      BY <1>1, <2>1, <3>2
    <3> QED BY <3>2, <3>3, ZenonT(40)
  <2>4. CASE inFlight'[p] = inFlight[p] + 1 /\ \E w \in Publishers : pubPc[w] = "claimed" /\ pubRow[w] = p
    <3>1. Load(p) <= Interruptions
      BY <2>4, ClaimedUnsent, ZenonT(40) DEF CopiesInv
    <3>2. Load(p)' = c + (f + 1) /\ c + f <= Interruptions
      BY <2>1, <2>2, <2>4, <3>1, ZenonT(40)
    <3>3. c + (f + 1) \in Nat /\ c + (f + 1) <= Interruptions'
      BY <1>1, <2>1, <3>2
    <3> QED BY <3>2, <3>3, ZenonT(40)
  <2> QED BY <2>3, <2>4, ZenonT(40)
<1>4. /\ \A w \in Publishers : pubPc'[w] = "idle" <=> pubRow'[w] = NoPayment
      /\ \A w \in Publishers : pubPc[w] = "idle" <=> pubRow[w] = NoPayment
  BY ZenonT(40) DEF CopiesInv, TypeOK, PointersInRange
<1>5. ASSUME NEW v \in Publishers, NEW w \in Publishers, pubPc'[w] # "idle", pubRow'[v] = pubRow'[w]
      PROVE  v = w
  <2>1. pubPc'[v] # "idle"
    BY <1>4, <1>5, ZenonT(40)
  <2>2. pubPc[w] # "idle" /\ pubRow[v] = pubRow[w]
    BY <1>5, <2>1, ZenonT(40)
  <2>3. \A x, y \in Publishers : pubPc[y] # "idle" /\ pubRow[x] = pubRow[y] => x = y
    BY ZenonT(40) DEF CopiesInv
  <2> QED BY <2>2, <2>3
<1>6. ASSUME NEW w \in Publishers, pubPc'[w] # "idle", pubRow'[w] \in published'
      PROVE  FALSE
  <2>1. pubPc'[w] = pubPc[w] /\ pubRow'[w] = pubRow[w] /\ pubRow[w] \notin published
    BY <1>6, ZenonT(40) DEF CopiesInv
  <2>2. PICK v \in Publishers : pubPc[v] # "idle" /\ pubRow[v] = pubRow[w] /\ pubPc'[v] = "idle"
    BY <1>6, <2>1
  <2>3. \A x, y \in Publishers : pubPc[y] # "idle" /\ pubRow[x] = pubRow[y] => x = y
    BY ZenonT(40) DEF CopiesInv
  <2> QED BY <1>6, <2>1, <2>2, <2>3
<1>7. \A p \in Payments : Load(p)' <= 1 + Interruptions' /\ Load(p)' <= Interruptions'
  <2>1. \A c \in Nat : c <= Interruptions' => c <= 1 + Interruptions'
    BY <1>1
  <2> QED BY <1>3, <2>1, ZenonT(40)
<1>8. /\ \A v, w \in Publishers : pubPc'[w] # "idle" /\ pubRow'[v] = pubRow'[w] => v = w
      /\ \A w \in Publishers : pubPc'[w] # "idle" => pubRow'[w] \notin published'
  BY <1>5, <1>6
<1> QED BY <1>7, <1>8, ZenonT(40) DEF CopiesInv

\* The publisher of an unsent event sends it.
LEMMA CopiesSent ==
  ASSUME CopiesInv, TypeOK', NEW w \in Publishers, pubPc[w] = "claimed", Deliver(pubRow[w]),
         UNCHANGED <<published, pubRow, inFlight>>, Interruptions' = Interruptions,
         pubPc'[w] = "sent", \A v \in Publishers \ {w} : pubPc'[v] = pubPc[v]
  PROVE  CopiesInv'
<1>1. PICK p \in Payments : p = pubRow[w]
  BY LockedRow, ZenonT(40) DEF CopiesInv
<1>2. /\ Cardinality(Copies(p)') = Cardinality(Copies(p)) + 1
      /\ \A q \in Payments \ {p} : Copies(q)' = Copies(q)
      /\ Cardinality(Copies(p)) \in Nat /\ inFlight[p] \in Nat /\ Interruptions \in Nat
  BY <1>1, DeliverCopies, CopiesTyped, ZenonT(40) DEF CopiesInv
<1>3. \A u, v \in Publishers : pubPc'[v] # "idle" /\ pubRow'[u] = pubRow'[v] => u = v
  BY ZenonT(40) DEF CopiesInv
<1>4. \A v \in Publishers : pubPc'[v] # "idle" => pubRow'[v] \notin published'
  BY ZenonT(40) DEF CopiesInv
<1>5. Load(p)' <= 1 + Interruptions /\ ~Unsent(p)'
  <2>1. Load(p) <= Interruptions
    BY <1>1, ClaimedUnsent, ZenonT(40) DEF CopiesInv
  <2>2. Load(p)' = Cardinality(Copies(p)) + 1 + inFlight[p]
    BY <1>2, ZenonT(40) DEF Load
  <2>3. Load(p)' <= 1 + Interruptions
    BY <1>2, <2>1, <2>2 DEF Load
  <2>4. ~Unsent(p)'
    BY <1>1, ZenonT(40) DEF Unsent
  <2> QED BY <2>3, <2>4
<1>6. ASSUME NEW q \in Payments, q # p
      PROVE  Load(q)' <= 1 + Interruptions /\ (Unsent(q)' => Load(q)' <= Interruptions)
  <2>1. Load(q)' = Load(q)
    BY <1>2, <1>6, ZenonT(40) DEF Load
  <2>2. Unsent(q)' => Unsent(q)
    BY <1>1, <1>6, ZenonT(40) DEF Unsent
  <2> QED BY <2>1, <2>2, ZenonT(40) DEF CopiesInv
<1> QED BY <1>3, <1>4, <1>5, <1>6, ZenonT(40) DEF CopiesInv

\* Every step keeps the copies of an event within the interruptions.
LEMMA CopiesStep == CopiesInv /\ [Next]_vars => CopiesInv'
<1> SUFFICES ASSUME CopiesInv, [Next]_vars PROVE CopiesInv'
  OBVIOUS
<1>1. TypeOK /\ TypeOK'
  BY TypeStep, ZenonT(40) DEF CopiesInv
<1>2. Interruptions' >= Interruptions
  <2>1. \A k \in {"produce", "publish", "crash"} :
          faults[k] \in Nat /\ faults'[k] \in Nat /\ faults'[k] >= faults[k]
    BY <1>1, FaultsGrow, ZenonT(40) DEF TypeOK, FaultKinds
  <2> QED BY <2>1 DEF Interruptions
<1>3. ASSUME NEW kind \in {"produce", "publish", "crash"}, Fault(kind)
      PROVE  Interruptions' = Interruptions + 1
  <2>1. /\ \A k \in {"produce", "publish", "crash"} : faults[k] \in Nat
        /\ faults' = [faults EXCEPT ![kind] = faults[kind] + 1]
        /\ {"produce", "publish", "crash"} \subseteq DOMAIN faults
    BY <1>1, <1>3 DEF Fault, TypeOK, FaultKinds
  <2> QED BY <2>1 DEF Interruptions
<1>4. ASSUME UNCHANGED faults
      PROVE  Interruptions' = Interruptions
  BY <1>4 DEF Interruptions
<1>5. ASSUME NEW w \in Publishers, PublisherRelease(w)
      PROVE  /\ pubPc'[w] = "idle" /\ pubRow'[w] = NoPayment
             /\ \A v \in Publishers \ {w} : pubPc'[v] = pubPc[v] /\ pubRow'[v] = pubRow[v]
  BY <1>1, <1>5, ZenonT(40) DEF PublisherRelease, TypeOK
<1>6. ASSUME NEW w \in Publishers, PublisherClaim(w)
      PROVE  CopiesInv'
  <2>1. PICK p \in UnclaimedRows : /\ pubPc' = [pubPc EXCEPT ![w] = "claimed"]
                                   /\ pubRow' = [pubRow EXCEPT ![w] = p]
    BY <1>6, ZenonT(40) DEF PublisherClaim
  <2>2. p \in Payments /\ p \notin published /\ \A v \in Publishers : pubRow[v] # p
    BY <2>1, ZenonT(40) DEF UnclaimedRows, LockedRows
  <2>3. /\ pubPc[w] = "idle" /\ pubPc'[w] = "claimed" /\ pubRow'[w] = p
        /\ \A v \in Publishers \ {w} : pubPc'[v] = pubPc[v] /\ pubRow'[v] = pubRow[v]
        /\ UNCHANGED <<published, log, inFlight, faults>>
    BY <1>1, <1>6, <2>1, ZenonT(40) DEF PublisherClaim, TypeOK, dbVars, kafkaVars
  <2>4. \A u, v \in Publishers : pubPc'[v] # "idle" /\ pubRow'[u] = pubRow'[v] => u = v
    BY <2>2, <2>3, ZenonT(40) DEF CopiesInv
  <2>5. \A v \in Publishers : pubPc'[v] # "idle" => pubRow'[v] \notin published'
    BY <2>2, <2>3, ZenonT(40) DEF CopiesInv
  <2>6. \A q \in Payments : Load(q)' = Load(q)
    BY <2>3, ZenonT(40) DEF Load, Copies, Offsets
  <2>7. ASSUME NEW q \in Payments
        PROVE  Load(q)' <= 1 + Interruptions' /\ (Unsent(q)' => Load(q)' <= Interruptions')
    <3>1. Unsent(q)' => Unsent(q)
      BY <2>3, ZenonT(40) DEF Unsent
    <3> QED BY <1>4, <2>3, <2>6, <3>1, ZenonT(40) DEF CopiesInv
  <2> QED BY <1>1, <2>4, <2>5, <2>7, ZenonT(40) DEF CopiesInv
<1>7. ASSUME NEW w \in Publishers, PublisherSend(w)
      PROVE  CopiesInv'
  <2>1. /\ pubPc[w] = "claimed" /\ Deliver(pubRow[w]) /\ pubPc'[w] = "sent"
        /\ UNCHANGED <<published, pubRow, inFlight, faults>>
        /\ \A v \in Publishers \ {w} : pubPc'[v] = pubPc[v]
    BY <1>1, <1>7, ZenonT(40) DEF PublisherSend, TypeOK, dbVars
  <2> QED BY <1>1, <1>4, <2>1, CopiesSent, ZenonT(40)
<1>8. ASSUME NEW w \in Publishers, PublisherCommit(w)
      PROVE  CopiesInv'
  <2>1. /\ pubPc[w] = "sent" /\ UNCHANGED <<log, inFlight, faults>> /\ PublisherRelease(w)
        /\ published' = published \cup {pubRow[w]}
    BY <1>8, ZenonT(40) DEF PublisherCommit, kafkaVars
  <2>2. \A v \in Publishers : pubPc[v] = "idle" <=> pubRow[v] = NoPayment
    BY <1>1, ZenonT(40) DEF TypeOK, PointersInRange
  <2>3. ASSUME NEW u \in Publishers, NEW v \in Publishers, pubPc'[v] # "idle", pubRow'[u] = pubRow'[v]
        PROVE  u = v
    <3>1. v # w /\ pubPc[v] # "idle" /\ pubRow'[v] = pubRow[v]
      BY <1>5, <2>1, <2>3, ZenonT(40)
    <3>2. u # w
      BY <1>5, <2>1, <2>2, <2>3, <3>1, ZenonT(40)
    <3> QED BY <1>5, <2>1, <2>3, <3>1, <3>2, ZenonT(40) DEF CopiesInv
  <2>4. \A v \in Publishers : pubPc'[v] # "idle" => pubRow'[v] \notin published'
    <3>1. ASSUME NEW v \in Publishers, pubPc'[v] # "idle"
          PROVE  pubRow'[v] \notin published'
      <4>1. v # w /\ pubPc[v] # "idle" /\ pubRow'[v] = pubRow[v]
        BY <1>5, <2>1, <3>1, ZenonT(40)
      <4>2. pubRow[v] \notin published /\ pubRow[v] # pubRow[w]
        BY <4>1, ZenonT(40) DEF CopiesInv
      <4> QED BY <2>1, <4>1, <4>2, ZenonT(40)
    <3> QED BY <3>1, ZenonT(40)
  <2>5. \A q \in Payments : Load(q)' = Load(q)
    BY <2>1, ZenonT(40) DEF Load, Copies, Offsets
  <2>6. ASSUME NEW q \in Payments
        PROVE  Load(q)' <= 1 + Interruptions' /\ (Unsent(q)' => Load(q)' <= Interruptions')
    <3>1. Unsent(q)' => Unsent(q)
      BY <1>5, <2>1, ZenonT(40) DEF Unsent
    <3> QED BY <1>4, <2>1, <2>5, <3>1, ZenonT(40) DEF CopiesInv
  <2> QED BY <1>1, <2>3, <2>4, <2>6, ZenonT(40) DEF CopiesInv
<1>9. ASSUME NEW w \in Publishers, ProduceRetry(w) \/ PublisherSendFail(w)
      PROVE  CopiesInv'
  <2>1. /\ pubPc[w] = "claimed" /\ GiveUp(pubRow[w]) /\ UNCHANGED <<log, published>>
        /\ Fault("produce") \/ Fault("publish")
        /\ PublisherRelease(w) \/ UNCHANGED <<pubPc, pubRow>>
    BY <1>9, ZenonT(40) DEF ProduceRetry, PublisherSendFail, dbVars, pubVars
  <2>2. Interruptions' = Interruptions + 1
    BY <1>3, <2>1, ZenonT(40)
  <2>3. \A p \in Payments :
          \/ inFlight'[p] = inFlight[p]
          \/ inFlight'[p] = inFlight[p] + 1 /\ pubRow[w] = p
    BY <1>1, <2>1 DEF GiveUp, TypeOK
  <2>4. \A v \in Publishers : \/ pubPc'[v] = "idle" /\ pubRow'[v] = NoPayment
                              \/ pubPc'[v] = pubPc[v] /\ pubRow'[v] = pubRow[v]
    BY <1>5, <2>1, ZenonT(40)
  <2> QED BY <1>1, <2>1, <2>2, <2>3, <2>4, CopiesInterrupted, ZenonT(40)
<1>10. ASSUME NEW w \in Publishers, PublisherCommitFail(w)
       PROVE  CopiesInv'
  <2>1. /\ pubPc[w] = "sent" /\ UNCHANGED <<log, inFlight>> /\ PublisherRelease(w) /\ Fault("publish")
        /\ published' \in {published, published \cup {pubRow[w]}}
    BY <1>10, ZenonT(40) DEF PublisherCommitFail, kafkaVars
  <2>2. Interruptions' = Interruptions + 1
    BY <1>3, <2>1
  <2>3. published \subseteq published' /\ \A p \in published' \ published : p = pubRow[w]
    BY <2>1, ZenonT(40)
  <2> QED BY <1>1, <1>5, <2>1, <2>2, <2>3, CopiesInterrupted, ZenonT(40)
<1>11. CASE WorkerCrash
  <2>1. /\ UNCHANGED <<log, published>> /\ Fault("crash")
        /\ \A w \in Publishers : pubPc'[w] = "idle" /\ pubRow'[w] = NoPayment
    BY <1>11, ZenonT(40) DEF WorkerCrash, dbVars
  <2>2. Interruptions' = Interruptions + 1
    BY <1>3, <2>1, ZenonT(40)
  <2>3. \A p \in Payments :
          \/ inFlight'[p] = inFlight[p]
          \/ /\ inFlight'[p] = inFlight[p] + 1
             /\ \E w \in Publishers : pubPc[w] = "claimed" /\ pubRow[w] = p
    BY <1>11, ZenonT(40) DEF WorkerCrash, Orphan
  <2> QED BY <1>1, <2>1, <2>2, <2>3, CopiesInterrupted, ZenonT(40)
<1>12. CASE UNCHANGED <<pubPc, pubRow, published, log, inFlight>>
  <2>1. \A p \in Payments : Load(p)' = Load(p)
    BY <1>12, ZenonT(40) DEF Load, Copies, Offsets
  <2> QED BY <1>1, <1>2, <1>12, <2>1, CopiesFrame, ZenonT(40)
<1>13. ASSUME NEW p \in Payments, BrokerAppend(p)
       PROVE  CopiesInv'
  <2>1. /\ Deliver(p) /\ inFlight' = [inFlight EXCEPT ![p] = inFlight[p] - 1]
        /\ UNCHANGED <<pubPc, pubRow, published>>
    BY <1>13, ZenonT(40) DEF BrokerAppend, dbVars, pubVars
  <2>2. /\ Cardinality(Copies(p)') = Cardinality(Copies(p)) + 1
        /\ \A q \in Payments \ {p} : Copies(q)' = Copies(q)
        /\ Cardinality(Copies(p)) \in Nat /\ inFlight[p] \in Nat
    BY <1>1, <2>1, DeliverCopies, CopiesTyped, ZenonT(40)
  <2>3. inFlight'[p] = inFlight[p] - 1 /\ \A q \in Payments \ {p} : inFlight'[q] = inFlight[q]
    BY <1>1, <2>1, ZenonT(40) DEF TypeOK
  <2>4. Load(p)' = Load(p)
    <3>1. Load(p)' = (Cardinality(Copies(p)) + 1) + (inFlight[p] - 1)
      BY <2>2, <2>3, ZenonT(40) DEF Load
    <3> QED BY <2>2, <3>1 DEF Load
  <2>5. \A q \in Payments \ {p} : Load(q)' = Load(q)
    BY <2>2, <2>3, ZenonT(40) DEF Load
  <2> QED BY <1>1, <1>2, <2>1, <2>4, <2>5, CopiesFrame, ZenonT(40)
<1>14. \/ WorkerCrash \/ UNCHANGED <<pubPc, pubRow, published, log, inFlight>>
       \/ \E w \in Publishers : PublisherStep(w) \/ PublisherFault(w)
       \/ \E p \in Payments : BrokerAppend(p)
  <2>1. ASSUME NEW c \in Consumers, ConsumerStep(c) \/ ConsumerFault(c)
        PROVE  UNCHANGED <<pubPc, pubRow, published, log, inFlight>>
    BY <2>1, ZenonT(40)
       DEF ConsumerStep, ConsumerFault, FetchMessage, HandleClaim, HandleComplete, HandleClaimFail,
           HandleCompleteFail, CommitMessages, CommitMessagesFail, dbVars, pubVars, kafkaVars
  <2>2. CASE UNCHANGED vars
    BY <2>2 DEF vars, dbVars, pubVars, kafkaVars
  <2>3. CASE Rebalance \/ \E stale \in SUBSET Payments : SweepQuery(stale)
    BY <2>3 DEF Rebalance, SweepQuery, dbVars, pubVars, kafkaVars
  <2>4. CASE \E p \in Payments : SweepComplete(p) \/ SweepCompleteFail(p)
    BY <2>4, ZenonT(40) DEF SweepComplete, SweepCompleteFail, pubVars, kafkaVars
  <2>5. CASE \E p \in Payments, t \in 1..MaxCreatedAt : CreatePayment(p, t)
    BY <2>5, ZenonT(40) DEF CreatePayment, pubVars, kafkaVars
  <2> QED BY <2>1, <2>2, <2>3, <2>4, <2>5, ZenonT(40) DEF Next
<1> QED
  BY <1>6, <1>7, <1>8, <1>9, <1>10, <1>11, <1>12, <1>13, <1>14, ZenonT(40) DEF PublisherStep, PublisherFault

\* FOR UPDATE SKIP LOCKED and published_at: however many publishers poll the
\* outbox and however late the broker appends what the producer's writer gave up
\* on, the topic holds at most one copy of an event more than there were retried
\* attempts, failed publishes and crashes.
THEOREM DuplicatesBounded == Spec => []DuplicatesNeedFaults
<1>1. Init => CopiesInv
  <2> SUFFICES ASSUME Init PROVE CopiesInv
    BY ZenonT(40)
  <2>1. TypeOK /\ Interruptions \in Nat
    BY TypeInit DEF Init, Interruptions, FaultKinds
  <2>2. ASSUME NEW p \in Payments
        PROVE  Cardinality(Copies(p)) = 0
    <3>1. Copies(p) = {}
      BY PartitionAssumption DEF Init, Copies, Offsets
    <3> QED BY <3>1, FS_EmptySet
  <2> QED BY <2>1, <2>2 DEF CopiesInv, Load, Init
<1>2. CopiesInv => DuplicatesNeedFaults
  <2> SUFFICES ASSUME CopiesInv, NEW p \in Payments
               PROVE  Cardinality(Copies(p)) <= 1 + faults["produce"] + faults["publish"] + faults["crash"]
    BY ZenonT(40) DEF DuplicatesNeedFaults, Copies
  <2>1. /\ \A k \in {"produce", "publish", "crash"} : faults[k] \in Nat
        /\ Cardinality(Copies(p)) \in Nat /\ inFlight[p] \in Nat
    BY CopiesTyped, ZenonT(40) DEF CopiesInv, TypeOK, FaultKinds
  <2>2. Cardinality(Copies(p)) + inFlight[p] <= 1 + (faults["produce"] + faults["publish"] + faults["crash"])
    BY ZenonT(40) DEF CopiesInv, Load, Interruptions
  <2> QED BY <2>1, <2>2
<1> QED BY <1>1, <1>2, CopiesStep, PTL DEF Spec

=============================================================================
