--------------------------- MODULE PaymentReadsProofs ---------------------------
(***************************************************************************)
(* Proofs about PaymentReads, for every number of payments, length of page *)
(* and bound on the clock: what the read endpoints answer fits together    *)
(* although no two of their queries share a snapshot.                      *)
(***************************************************************************)
EXTENDS PaymentReads, TLAPS

\* A leaf may wait for its turn: the limits are above the default ones.
USE SMTT(20), ZenonT(20)

\* The stages of an execution row from the one on that status s is read with.
Sent == {"broadcast", "filled", "failed"}

Final == {"filled", "failed"}

\* The tables, as the writers leave them.
TableInv ==
  /\ now \in 1..MaxClock
  /\ created \in [Payments -> 0..MaxClock]
  /\ status \in [Payments -> Statuses \cup {"NONE"}]
  /\ exec \in [Payments -> ExecStages]
  /\ reason \subseteq Rows
  /\ ended \subseteq Rows
  /\ \A p \in Rows : created[p] # 0

\* What a payment's row says of its execution row.
StageInv ==
  \A p \in Payments :
    /\ exec[p] # "none" => Mode[p] = "testnet"
    /\ status[p] = "SUBMITTED" => exec[p] \in Sent
    /\ status[p] = "COMPLETED" /\ Mode[p] = "testnet" => exec[p] \in Final
    /\ status[p] = "COMPLETED" => p \in ended
    /\ status[p] = "FAILED" => p \in reason \cup ended

\* An answer that is on its way: execution stage e goes with row r of payment p.
Told(p, r, e) ==
  /\ r.status = "SUBMITTED" => e \in Sent
  /\ r.status = "COMPLETED" /\ Mode[p] = "testnet" => e \in Final
  /\ r.status \in {"COMPLETED", "FAILED"} => r.reason \/ r.ended

\* The requests, with their fields.
ListRequest(f, l, c, s) == [kind |-> "list", filter |-> f, limit |-> l, cursor |-> c, seen |-> s]

DetailRequest(i, l, p, e) == [kind |-> "detail", id |-> i, left |-> l, payment |-> p, execution |-> e]

StatsRequest(l, t, c, o, f, v, n) ==
  [kind |-> "stats", left |-> l, total |-> t, completed |-> c, processing |-> o, failed |-> f,
   providers |-> v, networks |-> n]

\* What the queries do to them.
Paged(r, d, t) == [r EXCEPT !.cursor = d, !.seen = t]

PaymentRead(r, m, x) == [r EXCEPT !.left = m, !.payment = x]

ExecutionRead(r, m, x) == [r EXCEPT !.left = m, !.execution = x]

TotalsRead(r, m, t, c, o, f) ==
  [r EXCEPT !.left = m, !.total = t, !.completed = c, !.processing = o, !.failed = f]

ProvidersRead(r, m, x) == [r EXCEPT !.left = m, !.providers = x]

NetworksRead(r, m, x) == [r EXCEPT !.left = m, !.networks = x]

DetailInv ==
  req.kind = "detail" =>
    /\ req = DetailRequest(req.id, req.left, req.payment, req.execution)
    /\ req.id \in Payments
    /\ \/ req.left = <<"payment", "execution">>
       \/ req.left = <<"execution">> /\ Told(req.id, req.payment, exec[req.id])
       \/ req.left = <<>> /\ Told(req.id, req.payment, req.execution)

Trips == {Trip[p] : p \in Payments}

\* The totals are of rows that are still there.
Totalled(R) ==
  /\ req.total = req.completed + req.processing + req.failed
  /\ req.total \in Nat
  /\ req.total <= Cardinality(R)

\* So are the payments with a provider.
Provided(R) == req.providers \in Nat /\ req.providers <= Cardinality(R)

\* What the statements of the handler have read so far.
StatsLeft ==
  \/ req.left = <<"totals", "providers", "networks">> /\ DOMAIN req.networks = Trips
  \/ req.left = <<"providers", "networks">> /\ DOMAIN req.networks = Trips /\ Totalled(Rows)
  \/ /\ req.left = <<"networks">> /\ DOMAIN req.networks = Trips
     /\ Totalled(Rows) /\ Provided(Rows)
  \/ /\ req.left = <<>>
     /\ \E R \in SUBSET Payments :
          /\ Totalled(R) /\ Provided(R)
          /\ req.networks = [t \in Trips |-> Cardinality({p \in R : Trip[p] = t})]

StatsInv ==
  req.kind = "stats" =>
    /\ req = StatsRequest(req.left, req.total, req.completed, req.processing, req.failed,
                          req.providers, req.networks)
    /\ StatsLeft

SeriesInv ==
  req.kind = "timeseries" =>
    \A b \in DOMAIN req.points : req.points[b] > 0 /\ b + req.size > req.at - MaxDays + 1

\* A listing: what has been seen descends, the cursor is the last of it, and
\* what is still to come lies behind the cursor.
ListInv ==
  req.kind = "list" =>
    /\ req = ListRequest(req.filter, req.limit, req.cursor, req.seen)
    /\ req.limit \in 1..MaxLimit
    /\ req.seen \in Seq(Nat \X Nat)
    /\ \A i \in 2..Len(req.seen) : Before(req.seen[i], req.seen[i - 1])
    /\ req.cursor # FirstPage =>
         /\ Len(req.seen) > 0
         /\ req.cursor = [kind |-> "cursor", text |-> req.seen[Len(req.seen)]]
    /\ \A p \in steady :
         /\ Matches(req.filter, p, status[p])
         /\ \/ \E i \in DOMAIN req.seen : req.seen[i] = Key(p)
            \/ req.cursor # FirstPage /\ Before(Key(p), DecodeCursor(req.cursor))

Kinds == {"none", "refused", "list", "detail", "stats", "timeseries"}

IInv ==
  /\ TableInv /\ StageInv
  /\ steady \subseteq Rows
  /\ req.kind \in Kinds
  /\ DetailInv /\ StatsInv /\ SeriesInv /\ ListInv

-----------------------------------------------------------------------------
(***************************************************************************)
(* The writers.                                                            *)
(***************************************************************************)
\* A status that is set: the row is there, and a listing keeps only rows that
\* match its filter.
LEMMA SetStatusEffect ==
  ASSUME IInv, NEW p \in Payments, NEW s \in Statuses, SetStatus(p, s), req' = req
  PROVE  /\ status' \in [Payments -> Statuses \cup {"NONE"}]
         /\ status'[p] = s /\ s # "NONE"
         /\ \A q \in Payments \ {p} : status'[q] = status[q]
         /\ Rows' = Rows \cup {p}
         /\ steady' \subseteq steady
         /\ req.kind = "list" => \A q \in steady' : Matches(req.filter, q, status'[q])
<1>1. status \in [Payments -> Statuses \cup {"NONE"}] /\ steady \subseteq Rows
  BY DEF IInv, TableInv
<1>2. status' = [status EXCEPT ![p] = s]
  BY DEF SetStatus
<1>3. /\ status' \in [Payments -> Statuses \cup {"NONE"}]
      /\ status'[p] = s /\ s # "NONE"
      /\ \A q \in Payments \ {p} : status'[q] = status[q]
  BY <1>1, <1>2 DEF Statuses
<1>4. Rows' = Rows \cup {p}
  BY <1>3 DEF Rows
<1>5. steady' \subseteq steady
  BY DEF SetStatus
<1>6. ASSUME req.kind = "list", NEW q \in steady'
      PROVE  Matches(req.filter, q, status'[q])
  <2>1. q \in steady /\ q \in Payments /\ Matches(req.filter, q, status[q])
    BY <1>1, <1>5, <1>6 DEF IInv, ListInv, Rows
  <2>2. CASE q = p
    BY <1>3, <1>6, <2>2 DEF SetStatus
  <2>3. CASE q # p
    BY <1>3, <2>1, <2>3
  <2> QED
    BY <2>2, <2>3
<1> QED
  BY <1>3, <1>4, <1>5, <1>6

\* What no writer does: a row never goes, its created_at never changes, an
\* execution row never falls back, and no reader's answer is touched.
Onward ==
  /\ req' = req
  /\ Rows \subseteq Rows'
  /\ \A p \in Rows : created'[p] = created[p]
  /\ \A p \in Payments : /\ exec[p] \in Sent => exec'[p] \in Sent
                         /\ exec[p] \in Final => exec'[p] \in Final
  /\ steady' \subseteq steady
  /\ req.kind = "list" => \A p \in steady' : Matches(req.filter, p, status'[p])

\* The statements of the payments table: all that set a status.
Sets(p, s) ==
  /\ SetStatus(p, s)
  /\ UNCHANGED <<now, created, exec, req>>
  /\ reason \subseteq reason' /\ ended \subseteq ended'
  /\ reason' \subseteq reason \cup {p} /\ ended' \subseteq ended \cup {p}
  /\ created[p] # 0
  /\ s = "SUBMITTED" => exec[p] \in Sent
  /\ s = "COMPLETED" /\ Mode[p] = "testnet" => exec[p] \in Final
  /\ s = "COMPLETED" => p \in ended'
  /\ s = "FAILED" => p \in reason' \cup ended'

\* Every statement of the pipeline that sets a status is one of these.
LEMMA StatusSetters ==
  ASSUME IInv, NEW p \in Payments,
         \/ CommitCreate(p) \/ ClaimPayment(p)
         \/ \E terminal \in {"COMPLETED", "FAILED"} : CompletePayment(p, terminal)
         \/ MarkProcessingFailed(p) \/ MarkSubmitted(p) \/ CompleteSubmittedPayment(p)
  PROVE  \E s \in Statuses : Sets(p, s)
<1>1. status[p] # "NONE" => created[p] # 0
  BY DEF IInv, TableInv, Rows
<1>2. CASE CommitCreate(p)
  <2>1. Sets(p, "ROUTED")
    BY <1>2 DEF CommitCreate, Sets
  <2> QED
    BY <2>1 DEF Statuses
<1>3. CASE ClaimPayment(p)
  <2>1. Sets(p, "PROCESSING")
    BY <1>1, <1>3 DEF ClaimPayment, Sets
  <2> QED
    BY <2>1 DEF Statuses
<1>4. ASSUME NEW terminal \in {"COMPLETED", "FAILED"}, CompletePayment(p, terminal)
      PROVE  \E s \in Statuses : Sets(p, s)
  <2>1. Sets(p, terminal)
    BY <1>1, <1>4 DEF CompletePayment, Sets
  <2> QED
    BY <2>1 DEF Statuses
<1>5. CASE MarkProcessingFailed(p)
  <2>1. Sets(p, "FAILED")
    BY <1>1, <1>5 DEF MarkProcessingFailed, Sets
  <2> QED
    BY <2>1 DEF Statuses
<1>6. CASE MarkSubmitted(p)
  <2>1. Sets(p, "SUBMITTED")
    BY <1>1, <1>6 DEF MarkSubmitted, Sets, Sent
  <2> QED
    BY <2>1 DEF Statuses
<1>7. CASE CompleteSubmittedPayment(p)
  <2>1. Sets(p, IF exec[p] = "filled" THEN "COMPLETED" ELSE "FAILED")
    BY <1>1, <1>7 DEF CompleteSubmittedPayment, Sets, Final
  <2> QED
    BY <2>1 DEF Statuses
<1> QED
  BY <1>2, <1>3, <1>4, <1>5, <1>6, <1>7

\* A statement that sets a status keeps what the tables promise.
LEMMA SetsPreserves ==
  ASSUME IInv, NEW p \in Payments, NEW s \in Statuses, Sets(p, s)
  PROVE  TableInv' /\ StageInv' /\ Onward
<1>1. /\ SetStatus(p, s)
      /\ UNCHANGED <<now, created, exec, req>>
      /\ reason \subseteq reason' /\ ended \subseteq ended'
      /\ reason' \subseteq reason \cup {p} /\ ended' \subseteq ended \cup {p}
      /\ created[p] # 0
  BY DEF Sets
<1>2. /\ status' \in [Payments -> Statuses \cup {"NONE"}]
      /\ status'[p] = s /\ s # "NONE"
      /\ \A q \in Payments \ {p} : status'[q] = status[q]
      /\ Rows' = Rows \cup {p}
      /\ steady' \subseteq steady
      /\ req.kind = "list" => \A q \in steady' : Matches(req.filter, q, status'[q])
  BY <1>1, SetStatusEffect
<1>3. TableInv'
  BY <1>1, <1>2 DEF IInv, TableInv
<1>4. StageInv'
  <2> SUFFICES ASSUME NEW q \in Payments
               PROVE  /\ exec'[q] # "none" => Mode[q] = "testnet"
                      /\ status'[q] = "SUBMITTED" => exec'[q] \in Sent
                      /\ status'[q] = "COMPLETED" /\ Mode[q] = "testnet" => exec'[q] \in Final
                      /\ status'[q] = "COMPLETED" => q \in ended'
                      /\ status'[q] = "FAILED" => q \in reason' \cup ended'
    BY DEF StageInv
  <2>1. CASE q = p
    BY <1>1, <1>2, <2>1 DEF Sets, IInv, StageInv
  <2>2. CASE q # p
    BY <1>1, <1>2, <2>2 DEF IInv, StageInv
  <2> QED
    BY <2>1, <2>2
<1>5. Onward
  BY <1>1, <1>2 DEF Onward
<1> QED
  BY <1>3, <1>4, <1>5

\* Every writer keeps what the tables promise.
LEMMA WritePreserves ==
  ASSUME IInv, Write
  PROVE  TableInv' /\ StageInv' /\ Onward
<1>1. TableInv /\ StageInv /\ steady \subseteq Rows
  BY DEF IInv
<1>2. req.kind = "list" => \A p \in steady : Matches(req.filter, p, status[p])
  BY DEF IInv, ListInv
<1>3. CASE Tick
  <2>1. Rows' = Rows
    BY <1>3 DEF Tick, Rows
  <2>2. TableInv'
    BY <1>1, <1>3, <2>1, LimitsAssumption DEF Tick, TableInv
  <2>3. StageInv' /\ Onward
    BY <1>1, <1>2, <1>3, <2>1 DEF Tick, StageInv, Onward
  <2> QED
    BY <2>2, <2>3
<1>4. ASSUME NEW p \in Payments, BeginCreate(p)
      PROVE  TableInv' /\ StageInv' /\ Onward
  <2>1. Rows' = Rows /\ p \notin Rows
    BY <1>1, <1>4 DEF BeginCreate, Rows, TableInv
  <2>2. /\ created' \in [Payments -> 0..MaxClock]
        /\ \A q \in Payments \ {p} : created'[q] = created[q]
    BY <1>1, <1>4, LimitsAssumption DEF BeginCreate, TableInv
  <2>3. \A q \in Rows : created'[q] = created[q]
    BY <2>1, <2>2 DEF Rows
  <2>4. TableInv'
    BY <1>1, <1>4, <2>1, <2>2, <2>3 DEF BeginCreate, TableInv
  <2>5. StageInv' /\ Onward
    BY <1>1, <1>2, <1>4, <2>1, <2>3 DEF BeginCreate, StageInv, Onward
  <2> QED
    BY <2>4, <2>5
<1>5. ASSUME NEW p \in Payments, NEW stage \in ExecStages, WriteExecution(p, stage)
      PROVE  TableInv' /\ StageInv' /\ Onward
  <2>1. Rows' = Rows
    BY <1>5 DEF WriteExecution, Rows
  <2>2. /\ exec' \in [Payments -> ExecStages]
        /\ exec'[p] = stage
        /\ \A q \in Payments \ {p} : exec'[q] = exec[q]
    BY <1>1, <1>5 DEF WriteExecution, TableInv
  <2>3. /\ Mode[p] = "testnet"
        /\ status[p] = IF stage \in {"filled", "failed"} THEN "SUBMITTED" ELSE "PROCESSING"
        /\ exec[p] \notin Final
        /\ exec[p] \in Sent => stage \in Sent
    BY <1>5 DEF WriteExecution, NextStages, Final, Sent
  <2>4. TableInv'
    BY <1>1, <1>5, <2>1, <2>2 DEF WriteExecution, TableInv
  <2>5. StageInv'
    <3> SUFFICES ASSUME NEW q \in Payments
                 PROVE  /\ exec'[q] # "none" => Mode[q] = "testnet"
                        /\ status[q] = "SUBMITTED" => exec'[q] \in Sent
                        /\ status[q] = "COMPLETED" /\ Mode[q] = "testnet" => exec'[q] \in Final
                        /\ status[q] = "COMPLETED" => q \in ended
                        /\ status[q] = "FAILED" => q \in reason \cup ended
      BY <1>5 DEF WriteExecution, StageInv
    <3>1. CASE q = p
      BY <1>1, <2>2, <2>3, <3>1 DEF StageInv
    <3>2. CASE q # p
      BY <1>1, <2>2, <3>2 DEF StageInv
    <3> QED
      BY <3>1, <3>2
  <2>6. Onward
    <3>1. \A q \in Payments : /\ exec[q] \in Sent => exec'[q] \in Sent
                              /\ exec[q] \in Final => exec'[q] \in Final
      BY <2>2, <2>3
    <3> QED
      BY <1>1, <1>2, <1>5, <2>1, <3>1 DEF WriteExecution, Onward
  <2> QED
    BY <2>4, <2>5, <2>6
<1>6. ASSUME NEW p \in Payments,
             \/ CommitCreate(p) \/ ClaimPayment(p)
             \/ \E terminal \in {"COMPLETED", "FAILED"} : CompletePayment(p, terminal)
             \/ MarkProcessingFailed(p) \/ MarkSubmitted(p) \/ CompleteSubmittedPayment(p)
      PROVE  TableInv' /\ StageInv' /\ Onward
  BY <1>6, StatusSetters, SetsPreserves
<1> QED
  BY <1>3, <1>4, <1>5, <1>6 DEF Write

-----------------------------------------------------------------------------
(***************************************************************************)
(* A reader's answer while the writers go on.                              *)
(***************************************************************************)
\* What is left sorts and counts payments.
INSTANCE SetInduction

\* There are finitely many payments.
LEMMA FinitelyMany ==
  ASSUME NEW S \in SUBSET Payments
  PROVE  IsFiniteSet(S) /\ Cardinality(S) \in Nat
  BY PaymentsAssumption, FS_Subset, FS_CardinalityType, ZenonT(40)

\* Fewer payments are fewer.
LEMMA FewerPayments ==
  ASSUME NEW S \in SUBSET Payments, NEW T \in SUBSET S
  PROVE  Cardinality(T) <= Cardinality(S)
  BY FinitelyMany, FS_Subset

\* What a writer does leaves the invariant of the reader.
LEMMA WriteLeavesReaders ==
  ASSUME IInv, Onward, status' \in [Payments -> Statuses \cup {"NONE"}]
  PROVE  steady' \subseteq Rows' /\ DetailInv' /\ StatsInv' /\ SeriesInv' /\ ListInv'
<1>1. /\ req' = req /\ Rows \subseteq Rows' /\ steady' \subseteq steady
      /\ \A p \in Rows : created'[p] = created[p]
      /\ \A p \in Payments : /\ exec[p] \in Sent => exec'[p] \in Sent
                             /\ exec[p] \in Final => exec'[p] \in Final
      /\ req.kind = "list" => \A p \in steady' : Matches(req.filter, p, status'[p])
  BY DEF Onward
<1>2. DetailInv /\ StatsInv /\ SeriesInv /\ ListInv /\ steady \subseteq Rows
  BY DEF IInv
<1>3. DetailInv'
  <2> SUFFICES ASSUME req.kind = "detail"
               PROVE  DetailInv'
    BY <1>1, ZenonT(40) DEF DetailInv
  <2>1. /\ req.id \in Payments
        /\ req = DetailRequest(req.id, req.left, req.payment, req.execution)
    BY <1>2 DEF DetailInv
  <2>2. CASE req.left = <<"execution">> /\ Told(req.id, req.payment, exec[req.id])
    <3>1. Told(req.id, req.payment, exec'[req.id])
      BY <1>1, <2>1, <2>2 DEF Told
    <3> QED
      BY <1>1, <2>1, <2>2, <3>1, ZenonT(40) DEF DetailInv, Told
  <2>3. CASE req.left = <<"payment", "execution">>
    BY <1>1, <2>1, <2>3 DEF DetailInv
  <2>4. CASE req.left = <<>> /\ Told(req.id, req.payment, req.execution)
    BY <1>1, <2>1, <2>4 DEF DetailInv, Told
  <2> QED
    BY <1>2, <2>2, <2>3, <2>4, ZenonT(40) DEF DetailInv
<1>4. StatsInv'
  <2> SUFFICES ASSUME req.kind = "stats"
               PROVE  StatsInv'
    BY <1>1 DEF StatsInv
  <2>1. /\ Cardinality(Rows) \in Nat /\ Cardinality(Rows') \in Nat
        /\ Cardinality(Rows) <= Cardinality(Rows')
    <3>1. Rows \in SUBSET Payments /\ Rows' \in SUBSET Payments
      BY DEF Rows
    <3> QED
      BY <1>1, <3>1, FinitelyMany, FewerPayments
  <2>2. Totalled(Rows) => Totalled(Rows)'
    BY <1>1, <2>1 DEF Totalled
  <2>3. Provided(Rows) => Provided(Rows)'
    BY <1>1, <2>1 DEF Provided
  <2>4. CASE req.left # <<>>
    <3>1. StatsLeft'
      BY <1>1, <1>2, <2>2, <2>3, <2>4, ZenonT(40) DEF StatsInv, StatsLeft
    <3> QED
      BY <1>1, <1>2, <3>1, ZenonT(40) DEF StatsInv
  <2>5. CASE req.left = <<>>
    <3>0. /\ req.left # <<"totals", "providers", "networks">>
          /\ req.left # <<"providers", "networks">>
          /\ req.left # <<"networks">>
      BY <2>5
    <3>1. PICK R \in SUBSET Payments :
            /\ Totalled(R) /\ Provided(R)
            /\ req.networks = [t \in Trips |-> Cardinality({p \in R : Trip[p] = t})]
      BY <1>2, <3>0, ZenonT(40) DEF StatsInv, StatsLeft
    <3>2. Totalled(R)' /\ Provided(R)' /\ Trips' = Trips
      BY <1>1, <3>1, ZenonT(40) DEF Totalled, Provided, Trips
    <3>3. req'.networks = [t \in Trips' |-> Cardinality({p \in R : Trip[p] = t})]
      BY <1>1, <3>1, <3>2
    <3>4. StatsLeft'
      BY <1>1, <2>5, <3>2, <3>3 DEF StatsLeft
    <3> QED
      BY <1>1, <1>2, <3>4 DEF StatsInv
  <2> QED
    BY <2>4, <2>5
<1>5. SeriesInv'
  BY <1>1, <1>2, ZenonT(40) DEF SeriesInv
<1>6. ListInv'
  <2> SUFFICES ASSUME req.kind = "list"
               PROVE  ListInv'
    BY <1>1, ZenonT(40) DEF ListInv
  <2>1. \A p \in steady' : Key(p)' = Key(p)
    BY <1>1, <1>2 DEF Key
  <2>2. ASSUME NEW p \in steady'
        PROVE  \/ \E i \in DOMAIN req.seen : req.seen[i] = Key(p)
               \/ req.cursor # FirstPage /\ Before(Key(p), DecodeCursor(req.cursor))
    BY <1>1, <1>2, ZenonT(40) DEF ListInv
  <2>3. ASSUME NEW p \in steady'
        PROVE  (\/ \E i \in DOMAIN req.seen : req.seen[i] = Key(p)
                \/ req.cursor # FirstPage /\ Before(Key(p), DecodeCursor(req.cursor)))'
    BY <1>1, <2>1, <2>2, ZenonT(40) DEF Before, DecodeCursor, FirstPage
  <2> QED
    BY <1>1, <1>2, <2>3, ZenonT(40) DEF ListInv, Matches, Before, FirstPage
<1>7. steady' \subseteq Rows'
  BY <1>1, <1>2
<1> QED
  BY <1>3, <1>4, <1>5, <1>6, <1>7

-----------------------------------------------------------------------------
(***************************************************************************)
(* ORDER BY created_at DESC, id DESC.                                      *)
(***************************************************************************)
\* Keys are pairs of numbers.
LEMMA KeyPair ==
  ASSUME TableInv, NEW p \in Payments
  PROVE  /\ created[p] \in Nat /\ p \in Nat
         /\ Key(p) \in Nat \X Nat
         /\ Key(p)[1] = created[p] /\ Key(p)[2] = p
<1>1. created[p] \in Nat
  BY LimitsAssumption DEF TableInv
<1>2. p \in Nat
  BY PaymentsAssumption
<1> QED
  BY <1>1, <1>2 DEF Key

\* Of some payments, one comes last.
LEMMA LastRow ==
  ASSUME TableInv, NEW S \in SUBSET Payments, S # {}
  PROVE  \E x \in S : \A y \in S \ {x} : Before(Key(x), Key(y))
<1> DEFINE times == {created[p] : p \in S}
<1>1. IsFiniteSet(S)
  BY FinitelyMany
<1>2. IsFiniteSet(times)
  <2>1. times \in SUBSET Nat /\ MaxClock \in Nat /\ \A c \in times : c <= MaxClock
    BY LimitsAssumption DEF TableInv
  <2> HIDE DEF times
  <2> QED
    BY <2>1, FS_BoundedSetOfNaturals
<1>3. \A p \in S : created[p] \in Int /\ p \in Int
  BY KeyPair
<1>4. times \subseteq Int /\ times # {}
  BY <1>3
<1>5. PICK c \in times : \A d \in times : c <= d
  <2> HIDE DEF times
  <2> QED
    BY <1>2, <1>4, LeastInteger, ZenonT(40)
<1> DEFINE oldest == {p \in S : created[p] = c}
<1>6. oldest \in SUBSET S /\ oldest # {} /\ oldest \subseteq Int
  BY <1>3, <1>5
<1>7. PICK x \in oldest : \A y \in oldest : x <= y
  <2> HIDE DEF oldest, times
  <2>1. IsFiniteSet(oldest)
    BY <1>1, <1>6, FS_Subset, ZenonT(40)
  <2> QED
    BY <1>6, <2>1, LeastInteger, ZenonT(40)
<1>8. ASSUME NEW y \in S \ {x}
      PROVE  Before(Key(x), Key(y))
  <2>1. created[x] = c /\ created[x] <= created[y]
    BY <1>5, <1>7
  <2>2. created[x] = created[y] => x <= y
    BY <1>7, <2>1
  <2>3. /\ Key(x)[1] = created[x] /\ Key(x)[2] = x
        /\ Key(y)[1] = created[y] /\ Key(y)[2] = y
    BY <1>7, KeyPair
  <2>4. /\ created[x] \in Int /\ created[y] \in Int /\ x \in Int /\ y \in Int
    BY <1>3, <1>7
  <2>5. created[x] < created[y] \/ (created[x] = created[y] /\ x < y)
    BY <2>1, <2>2, <2>4
  <2> QED
    BY <2>3, <2>5 DEF Before
<1> QED
  BY <1>7, <1>8

\* The rows of S from the newest to the oldest.
Descends(rows) == \A i, j \in DOMAIN rows : i < j => Before(Key(rows[j]), Key(rows[i]))

\* Payments can be sorted: the last one goes behind the others.
LEMMA SortedExists ==
  ASSUME TableInv, NEW S \in SUBSET Payments
  PROVE  \E rows \in [1..Cardinality(S) -> S] : Descends(rows)
<1> DEFINE T == {n \in Nat : \A U \in SUBSET Payments :
                   Cardinality(U) = n => \E rows \in [1..n -> U] : Descends(rows)}
<1>1. 0 \in T
  <2> SUFFICES ASSUME NEW U \in SUBSET Payments
               PROVE  \E rows \in [1..0 -> U] : Descends(rows)
    OBVIOUS
  <2>1. PICK rows : rows = [i \in 1..0 |-> 0]
    OBVIOUS
  <2>2. rows \in [1..0 -> U] /\ Descends(rows)
    BY <2>1 DEF Descends
  <2> QED
    BY <2>2, ZenonT(40)
<1>2. ASSUME NEW n \in Nat, n \in T
      PROVE  n + 1 \in T
  <2> SUFFICES ASSUME NEW U \in SUBSET Payments, Cardinality(U) = n + 1
               PROVE  \E rows \in [1..(n + 1) -> U] : Descends(rows)
    OBVIOUS
  <2>1. IsFiniteSet(U)
    BY FinitelyMany
  <2>2. U # {}
    BY FS_EmptySet
  <2>3. PICK x \in U : \A y \in U \ {x} : Before(Key(x), Key(y))
    BY <2>2, LastRow
  <2>4. U \ {x} \in SUBSET Payments /\ Cardinality(U \ {x}) = n
    BY <2>1, <2>3, FS_RemoveElement
  <2>5. PICK g \in [1..n -> U \ {x}] : Descends(g)
    BY <1>2, <2>4
  <2>6. PICK rows : rows = [i \in 1..(n + 1) |-> IF i <= n THEN g[i] ELSE x]
    BY ZenonT(40)
  <2>7. /\ rows \in [1..(n + 1) -> U] /\ rows[n + 1] = x
        /\ \A i \in 1..n : rows[i] = g[i] /\ g[i] \in U \ {x}
    BY <2>3, <2>5, <2>6
  <2>8. ASSUME NEW i \in 1..(n + 1), NEW j \in 1..(n + 1), i < j
        PROVE  Before(Key(rows[j]), Key(rows[i]))
    <3>1. CASE j = n + 1
      <4>1. i \in 1..n
        BY <2>8, <3>1
      <4> QED
        BY <2>3, <2>7, <3>1, <4>1
    <3>2. CASE j # n + 1
      <4>1. i \in 1..n /\ j \in 1..n
        BY <2>8, <3>2
      <4> QED
        BY <2>5, <2>7, <2>8, <4>1, ZenonT(40) DEF Descends
    <3> QED
      BY <3>1, <3>2
  <2> QED
    BY <2>7, <2>8 DEF Descends
<1>3. Nat \subseteq T
  <2> HIDE DEF T
  <2> QED
    BY <1>1, <1>2, NatSetInduction
<1>4. Cardinality(S) \in T
  <2> HIDE DEF T
  <2> QED
    BY <1>3, FinitelyMany
<1> QED
  BY <1>4

\* A key is not before itself.
LEMMA BeforeStrict ==
  ASSUME TableInv, NEW p \in Payments
  PROVE  ~Before(Key(p), Key(p))
  BY KeyPair DEF Before

\* ORDER BY gives every row of S once, from the newest to the oldest.
LEMMA SortRowsSorts ==
  ASSUME TableInv, NEW S \in SUBSET Payments, NEW rows, rows = SortRows(S)
  PROVE  /\ rows \in [1..Cardinality(S) -> S]
         /\ Cardinality(S) \in Nat
         /\ Descends(rows)
         /\ \A p \in S : \E i \in 1..Cardinality(S) : rows[i] = p
<1>1. \E r \in [1..Cardinality(S) -> S] :
         \A i, j \in DOMAIN r : i < j => Before(Key(r[j]), Key(r[i]))
  BY SortedExists DEF Descends
<1>2. rows \in [1..Cardinality(S) -> S] /\ Descends(rows)
  BY <1>1, ZenonT(40) DEF SortRows, Descends
<1>3. IsFiniteSet(S) /\ Cardinality(S) \in Nat
  BY FinitelyMany
<1>4. \A i, j \in 1..Cardinality(S) : rows[i] = rows[j] => i = j
  <2> SUFFICES ASSUME NEW i \in 1..Cardinality(S), NEW j \in 1..Cardinality(S),
                      rows[i] = rows[j], i # j
               PROVE  FALSE
    OBVIOUS
  <2>1. i < j \/ j < i
    BY <1>3
  <2>2. Before(Key(rows[i]), Key(rows[i]))
    BY <1>2, <2>1 DEF Descends
  <2>3. rows[i] \in Payments
    BY <1>2
  <2> QED
    BY <2>2, <2>3, BeforeStrict
<1>5. rows \in Injection(1..Cardinality(S), S)
  BY <1>2, <1>4 DEF Injection, IsInjective
<1>6. Cardinality(1..Cardinality(S)) = Cardinality(S)
  BY <1>3, FS_Interval
<1>7. rows \in Surjection(1..Cardinality(S), S)
  BY <1>3, <1>5, <1>6, FS_Injection
<1>8. \A p \in S : \E i \in 1..Cardinality(S) : rows[i] = p
  BY <1>7 DEF Surjection
<1> QED
  BY <1>2, <1>3, <1>8

\* The rows a page is cut from.
Listed(f, cursor) == {p \in Rows : Matches(f, p, status[p]) /\ AfterCursor(cursor, p)}

\* The n rows of a page are cut off from S.
CutsOff(page, n, S) ==
  /\ page.rows \in [1..n -> S]
  /\ page.rows \in Seq(Payments)
  /\ Len(page.rows) = n
  /\ Descends(page.rows)
  /\ \/ /\ page.next = FirstPage
        /\ \A p \in S : \E i \in 1..n : page.rows[i] = p
     \/ /\ n > 0
        /\ page.next = EncodeCursor(page.rows[n])
        /\ \A p \in S : \/ \E i \in 1..n : page.rows[i] = p
                        \/ Before(Key(p), Key(page.rows[n]))

\* A page holds the newest of these rows, and its cursor parts them from the
\* others; without a cursor there are no others.
LEMMA PageCutsOff ==
  ASSUME TableInv, NEW f, NEW cursor, NEW limit \in Nat \ {0},
         NEW page, page = Page(f, limit, cursor)
  PROVE  \E n \in Nat : CutsOff(page, n, Listed(f, cursor))
<1> DEFINE S == Listed(f, cursor)
           m == Cardinality(S)
<1>1. S \in SUBSET Payments
  BY DEF Listed, Rows
<1>2. PICK rows : rows = SortRows(S)
  BY ZenonT(40)
<1>3. /\ rows \in [1..m -> S] /\ m \in Nat /\ Descends(rows)
      /\ \A p \in S : \E i \in 1..m : rows[i] = p
  BY <1>1, <1>2, SortRowsSorts
<1>4. page = IF Len(rows) > limit
               THEN [rows |-> SubSeq(rows, 1, limit), next |-> EncodeCursor(rows[limit])]
               ELSE [rows |-> rows, next |-> FirstPage]
  BY <1>2, ZenonT(40) DEF Page, Listed
<1> HIDE DEF S
<1>5. rows \in Seq(Payments) /\ Len(rows) = m /\ DOMAIN rows = 1..m
  BY <1>1, <1>3
<1>6. CASE Len(rows) > limit
  <2>1. page.rows = SubSeq(rows, 1, limit) /\ page.next = EncodeCursor(rows[limit])
    BY <1>4, <1>6
  <2>2. /\ page.rows \in Seq(Payments) /\ Len(page.rows) = limit /\ DOMAIN page.rows = 1..limit
        /\ \A i \in 1..limit : page.rows[i] = rows[i]
    BY <1>3, <1>5, <1>6, <2>1
  <2>3. \A i \in 1..limit : i \in 1..m /\ page.rows[i] \in S
    BY <1>3, <1>5, <1>6, <2>2
  <2>4. page.rows \in [1..limit -> S]
    BY <2>2, <2>3
  <2>5. Descends(page.rows)
    BY <1>3, <1>5, <2>2, <2>3, ZenonT(40) DEF Descends
  <2>6. page.next = EncodeCursor(page.rows[limit])
    BY <2>1, <2>2
  <2>7. ASSUME NEW p \in S
        PROVE  (\E i \in 1..limit : page.rows[i] = p) \/ Before(Key(p), Key(page.rows[limit]))
    <3>1. PICK i \in 1..m : rows[i] = p
      BY <1>3
    <3>2. CASE i <= limit
      BY <2>2, <3>1, <3>2
    <3>3. CASE limit < i
      <4>1. limit \in DOMAIN rows /\ i \in DOMAIN rows
        BY <1>3, <1>5, <1>6
      <4> QED
        BY <1>3, <2>2, <3>1, <3>3, <4>1 DEF Descends
    <3> QED
      BY <1>3, <3>2, <3>3
  <2>8. CutsOff(page, limit, S)
    BY <2>2, <2>4, <2>5, <2>6, <2>7 DEF CutsOff
  <2> QED
    BY <2>8, ZenonT(40) DEF S
<1>7. CASE ~(Len(rows) > limit)
  <2>1. page.rows = rows /\ page.next = FirstPage
    BY <1>4, <1>7
  <2>2. CutsOff(page, m, S)
    BY <1>3, <1>5, <2>1, ZenonT(40) DEF CutsOff
  <2> QED
    BY <1>3, <2>2 DEF S
<1> QED
  BY <1>6, <1>7

\* m is s, and t behind it.
IsBehind(m, s, t) ==
  /\ Len(s) \in Nat /\ Len(t) \in Nat
  /\ Len(m) = Len(s) + Len(t)
  /\ DOMAIN m = 1..(Len(s) + Len(t))
  /\ DOMAIN s = 1..Len(s)
  /\ \A i \in 1..Len(s) : m[i] = s[i]
  /\ \A i \in 1..Len(t) : m[Len(s) + i] = t[i]

\* A limit that ParseLimit has let through is positive.
LEMMA LimitPositive == \A l \in 1..MaxLimit : l \in Nat \ {0}
BY LimitsAssumption

\* The keys of the first page are collected behind none.
LEMMA EmptyBefore ==
  ASSUME NEW P, NEW s \in Seq(P)
  PROVE  <<>> \o s = s
OBVIOUS

\* What concatenation does.
LEMMA Behind ==
  ASSUME NEW P, NEW s \in Seq(P), NEW t \in Seq(P), NEW m, m = s \o t
  PROVE  m \in Seq(P) /\ IsBehind(m, s, t)
<1>1. m \in Seq(P) /\ Len(s) \in Nat /\ Len(t) \in Nat /\ Len(m) = Len(s) + Len(t) /\ DOMAIN s = 1..Len(s)
  OBVIOUS
<1>2. DOMAIN m = 1..(Len(s) + Len(t))
  BY <1>1
<1>3. \A i \in 1..Len(s) : m[i] = s[i]
  OBVIOUS
<1>4. \A i \in 1..Len(t) : m[Len(s) + i] = t[i]
  OBVIOUS
<1> QED
  BY <1>1, <1>2, <1>3, <1>4 DEF IsBehind

\* A listing that has seen these keys and asks with this cursor.
Paging(seen, cursor) ==
  /\ seen \in Seq(Nat \X Nat)
  /\ \A i \in 2..Len(seen) : Before(seen[i], seen[i - 1])
  /\ \/ cursor = FirstPage /\ Len(seen) = 0
     \/ Len(seen) > 0 /\ cursor = [kind |-> "cursor", text |-> seen[Len(seen)]]

\* What it has seen with one page more, and the cursor it is given.
PagedOn(f, cursor, seen, more, next) ==
  /\ more \in Seq(Nat \X Nat)
  /\ \A i \in 2..Len(more) : Before(more[i], more[i - 1])
  /\ next # FirstPage => /\ Len(more) > 0
                         /\ next = [kind |-> "cursor", text |-> more[Len(more)]]
  /\ \A i \in DOMAIN seen : i \in DOMAIN more /\ more[i] = seen[i]
  /\ \A p \in Listed(f, cursor) :
       \/ \E i \in DOMAIN more : more[i] = Key(p)
       \/ next # FirstPage /\ Before(Key(p), DecodeCursor(next))

\* A page read behind what has been seen: it goes on in the same order, and what
\* it leaves out lies behind its cursor.
LEMMA PageExtends ==
  ASSUME TableInv, NEW f, NEW limit \in Nat \ {0}, NEW cursor, NEW page, page = Page(f, limit, cursor),
         NEW seen, Paging(seen, cursor),
         NEW more, more = seen \o [i \in DOMAIN page.rows |-> Key(page.rows[i])]
  PROVE  PagedOn(f, cursor, seen, more, page.next)
<1> DEFINE l == Len(seen)
           S == Listed(f, cursor)
<1>a. /\ seen \in Seq(Nat \X Nat)
       /\ \A i \in 2..Len(seen) : Before(seen[i], seen[i - 1])
       /\ \/ cursor = FirstPage /\ Len(seen) = 0
          \/ Len(seen) > 0 /\ cursor = [kind |-> "cursor", text |-> seen[Len(seen)]]
  BY DEF Paging
<1>b. \/ Len(seen) = 0
      \/ cursor = [kind |-> "cursor", text |-> seen[Len(seen)]]
  BY DEF Paging
<1>0. PICK n \in Nat : CutsOff(page, n, S)
  BY PageCutsOff, ZenonT(40)
<1>1. /\ page.rows \in [1..n -> S] /\ page.rows \in Seq(Payments) /\ Len(page.rows) = n
      /\ Descends(page.rows)
      /\ \/ /\ page.next = FirstPage
            /\ \A p \in S : \E i \in 1..n : page.rows[i] = p
         \/ /\ n > 0
            /\ page.next = EncodeCursor(page.rows[n])
            /\ \A p \in S : \/ \E i \in 1..n : page.rows[i] = p
                            \/ Before(Key(p), Key(page.rows[n]))
  BY <1>0, ZenonT(40) DEF CutsOff
<1>2. S \subseteq Payments /\ DOMAIN page.rows = 1..n
  BY <1>1, ZenonT(40) DEF Listed, Rows
<1>3. PICK keys : keys = [i \in 1..n |-> Key(page.rows[i])]
  BY ZenonT(40)
<1>4. /\ keys \in Seq(Nat \X Nat) /\ Len(keys) = n /\ \A i \in 1..n : keys[i] = Key(page.rows[i])
  <2>1. \A i \in 1..n : page.rows[i] \in Payments
    BY <1>1, <1>2, ZenonT(40)
  <2>2. \A i \in 1..n : Key(page.rows[i]) \in Nat \X Nat
    BY <2>1, KeyPair, ZenonT(40)
  <2>3. keys \in [1..n -> Nat \X Nat]
    BY <1>3, <2>2, ZenonT(40)
  <2> QED
    BY <1>3, <2>3
<1>5. more = seen \o keys
  BY <1>2, <1>3, ZenonT(40)
<1>6. /\ more \in Seq(Nat \X Nat)
      /\ l \in Nat /\ Len(more) = l + n /\ DOMAIN more = 1..(l + n) /\ DOMAIN seen = 1..l
      /\ \A i \in 1..l : more[i] = seen[i]
      /\ \A i \in 1..n : more[l + i] = keys[i]
  <2>1. PICK P : P = Nat \X Nat
    BY ZenonT(40)
  <2>2. seen \in Seq(P) /\ keys \in Seq(P)
    BY <1>4, <1>a, <2>1, ZenonT(40)
  <2>3. more \in Seq(P) /\ IsBehind(more, seen, keys)
    BY <1>5, <2>2, Behind, ZenonT(40)
  <2>4. Len(keys) = n
    BY <1>4, ZenonT(40)
  <2> QED
    BY <2>1, <2>3, <2>4, ZenonT(40) DEF IsBehind
<1>7. ASSUME NEW i \in 1..n, l > 0
      PROVE  Before(keys[i], seen[l])
  <2>1. cursor = [kind |-> "cursor", text |-> seen[l]]
    BY <1>7, <1>b
  <2>2. cursor # FirstPage /\ DecodeCursor(cursor) = seen[l]
    BY <2>1, ZenonT(40) DEF FirstPage, DecodeCursor
  <2>3. page.rows[i] \in S
    BY <1>1, ZenonT(40)
  <2>4. Before(Key(page.rows[i]), DecodeCursor(cursor))
    BY <2>2, <2>3, ZenonT(40) DEF Listed, AfterCursor
  <2> QED
    BY <1>4, <2>2, <2>4, ZenonT(40)
<1> HIDE DEF l, S
<1>8. ASSUME NEW i \in 2..Len(more)
      PROVE  Before(more[i], more[i - 1])
  <2>1. CASE i <= l
    BY <1>6, <1>a, <2>1 DEF l
  <2>2. CASE i = l + 1
    <3>1. l > 0 /\ 1 \in 1..n /\ l \in 1..l
      BY <1>6, <2>2
    <3>2. more[l + 1] = keys[1] /\ more[l] = seen[l]
      BY <1>6, <3>1, ZenonT(40)
    <3>3. i - 1 = l
      BY <1>6, <2>2
    <3> QED
      BY <1>7, <2>2, <3>1, <3>2, <3>3, ZenonT(40)
  <2>3. CASE i > l + 1
    <3>1. PICK j \in 2..n : i = l + j
      BY <1>6, <2>3
    <3>2. j - 1 \in 1..n /\ j \in 1..n /\ j - 1 < j /\ i - 1 = l + (j - 1)
      BY <1>6, <3>1
    <3>3. more[i] = Key(page.rows[j]) /\ more[i - 1] = Key(page.rows[j - 1])
      BY <1>4, <1>6, <3>1, <3>2, ZenonT(40)
    <3>4. Before(Key(page.rows[j]), Key(page.rows[j - 1]))
      BY <1>1, <1>2, <3>2, ZenonT(40) DEF Descends
    <3> QED
      BY <3>3, <3>4, ZenonT(40)
  <2>4. i <= l \/ i = l + 1 \/ i > l + 1
    <3>1. l \in Nat
      BY <1>6, ZenonT(40)
    <3> QED
      BY <3>1
  <2> QED
    BY <2>1, <2>2, <2>3, <2>4, ZenonT(40)
<1>9. ASSUME page.next # FirstPage
      PROVE  /\ n > 0 /\ page.next = EncodeCursor(page.rows[n])
             /\ Len(more) > 0 /\ page.next = [kind |-> "cursor", text |-> more[Len(more)]]
             /\ DecodeCursor(page.next) = Key(page.rows[n])
  <2>1. n > 0 /\ page.next = EncodeCursor(page.rows[n])
    BY <1>1, <1>9, ZenonT(40)
  <2>2. more[Len(more)] = Key(page.rows[n])
    <3>1. n \in 1..n
      BY <2>1
    <3> QED
      BY <1>4, <1>6, <3>1, ZenonT(40)
  <2>3. Len(more) > 0
    BY <1>6, <2>1
  <2>4. EncodeCursor(page.rows[n]).text = Key(page.rows[n])
    BY ZenonT(40) DEF EncodeCursor
  <2> QED
    BY <2>1, <2>2, <2>3, <2>4, ZenonT(40) DEF EncodeCursor, DecodeCursor
<1>10. ASSUME NEW p \in S
       PROVE  \/ \E i \in DOMAIN more : more[i] = Key(p)
              \/ page.next # FirstPage /\ Before(Key(p), DecodeCursor(page.next))
  <2>1. CASE \E i \in 1..n : page.rows[i] = p
    <3>1. PICK i \in 1..n : page.rows[i] = p
      BY <2>1
    <3>2. more[l + i] = Key(p)
      BY <1>4, <1>6, <3>1, ZenonT(40)
    <3>3. l + i \in DOMAIN more
      BY <1>6
    <3> QED
      BY <3>2, <3>3, ZenonT(40)
  <2>2. CASE ~\E i \in 1..n : page.rows[i] = p
    <3>1. n > 0 /\ page.next = EncodeCursor(page.rows[n]) /\ Before(Key(p), Key(page.rows[n]))
      BY <1>1, <2>2, ZenonT(40)
    <3>2. page.next # FirstPage
      BY <3>1 DEF EncodeCursor, FirstPage
    <3> QED
      BY <1>9, <3>1, <3>2, ZenonT(40)
  <2> QED
    BY <2>1, <2>2, ZenonT(40)
<1>11. \A i \in DOMAIN seen : i \in DOMAIN more /\ more[i] = seen[i]
  BY <1>6
<1> QED
  BY <1>6, <1>8, <1>9, <1>10, <1>11, ZenonT(40) DEF S, PagedOn

-----------------------------------------------------------------------------
(***************************************************************************)
(* The readers.                                                            *)
(***************************************************************************)
\* A query changes no table.
LEMMA ReadFrame ==
  ASSUME IInv, UNCHANGED tables
  PROVE  /\ TableInv' /\ StageInv' /\ Rows' = Rows /\ status' = status /\ exec' = exec
         /\ now' = now /\ created' = created /\ \A p \in Payments : Key(p)' = Key(p)
<1>1. /\ now' = now /\ created' = created /\ status' = status /\ reason' = reason
      /\ ended' = ended /\ exec' = exec
  BY DEF tables
<1>2. Rows' = Rows
  BY <1>1 DEF Rows
<1>3. TableInv'
  BY <1>1, <1>2 DEF IInv, TableInv
<1>4. StageInv'
  BY <1>1, ZenonT(40) DEF IInv, StageInv
<1> QED
  BY <1>1, <1>2, <1>3, <1>4 DEF Key

\* A request of another kind has nothing to say of a listing, a payment, a
\* dashboard or a timeseries.
LEMMA OtherKinds ==
  /\ req.kind # "detail" => DetailInv
  /\ req.kind # "stats" => StatsInv
  /\ req.kind # "timeseries" => SeriesInv
  /\ req.kind # "list" => ListInv
  BY ZenonT(40) DEF DetailInv, StatsInv, SeriesInv, ListInv

\* The same of the request after a step.
LEMMA OtherKindsNext ==
  /\ req'.kind # "detail" => DetailInv'
  /\ req'.kind # "stats" => StatsInv'
  /\ req'.kind # "timeseries" => SeriesInv'
  /\ req'.kind # "list" => ListInv'
  BY ZenonT(40) DEF DetailInv, StatsInv, SeriesInv, ListInv

\* A refused request keeps the invariant.
LEMMA RefusedPreserves ==
  ASSUME IInv, UNCHANGED tables, UNCHANGED steady, req' = [kind |-> "refused"]
  PROVE  IInv'
<1>1. req'.kind = "refused"
  OBVIOUS
<1>2. TableInv' /\ StageInv' /\ Rows' = Rows
  BY ReadFrame
<1>3. DetailInv' /\ StatsInv' /\ SeriesInv' /\ ListInv'
  BY <1>1, OtherKindsNext
<1> QED
  BY <1>1, <1>2, <1>3 DEF IInv, Kinds

\* The limit a listing works with, whatever was asked for.
LEMMA LimitBounded ==
  ASSUME NEW raw \in RawLimits, EffectiveLimit(raw) # 0
  PROVE  EffectiveLimit(raw) \in 1..MaxLimit
<1>1. MaxLimit \in Nat \ {0} /\ DefaultLimit \in 1..MaxLimit /\ RawLimits \subseteq Int \cup {Unset}
  BY LimitsAssumption
<1>2. CASE raw = Unset
  BY <1>1, <1>2 DEF EffectiveLimit
<1>3. CASE raw # Unset
  <2>1. raw \in Int
    BY <1>1, <1>3
  <2> QED
    BY <1>1, <1>3, <2>1 DEF EffectiveLimit
<1> QED
  BY <1>2, <1>3

\* The first page of a listing.
LEMMA StartListPreserves ==
  ASSUME IInv, NEW f, NEW raw \in RawLimits, NEW cursor \in {FirstPage, Garbled},
         StartList(f, raw, cursor)
  PROVE  IInv'
<1>1. UNCHANGED tables
  BY ZenonT(40) DEF StartList
<1>2. CASE EffectiveLimit(raw) = 0 \/ ~ValidFilter(f) \/ cursor = Garbled
  <2>1. req' = [kind |-> "refused"] /\ UNCHANGED steady
    BY <1>2, ZenonT(40) DEF StartList
  <2> QED
    BY <1>1, <2>1, RefusedPreserves, ZenonT(40)
<1>3. CASE ~(EffectiveLimit(raw) = 0 \/ ~ValidFilter(f) \/ cursor = Garbled)
  <2>1. PICK limit : limit = EffectiveLimit(raw)
    BY ZenonT(40)
  <2>2. limit \in 1..MaxLimit /\ limit \in Nat \ {0}
    BY <1>3, <2>1, LimitBounded, LimitsAssumption
  <2>3. cursor = FirstPage
    BY <1>3
  <2>4. PICK page : page = Page(f, limit, cursor)
    OBVIOUS
  <2>5. PICK more : more = <<>> \o [i \in DOMAIN page.rows |-> Key(page.rows[i])]
    BY ZenonT(40)
  <2>6. PICK n \in Nat : CutsOff(page, n, Listed(f, cursor))
    BY <2>2, <2>4, PageCutsOff, ZenonT(40) DEF IInv
  <2>7. more = [i \in DOMAIN page.rows |-> Key(page.rows[i])]
    <3>1. page.rows \in Seq(Payments)
      BY <2>6, ZenonT(40) DEF CutsOff
    <3>2. DOMAIN page.rows = 1..Len(page.rows) /\ Len(page.rows) \in Nat
      BY <3>1
    <3>3. PICK s : s = [i \in DOMAIN page.rows |-> Key(page.rows[i])]
      BY ZenonT(40)
    <3>4. s \in Seq({s[i] : i \in DOMAIN page.rows})
      BY <3>2, <3>3
    <3>5. <<>> \o s = s
      BY <3>4, EmptyBefore, ZenonT(40)
    <3> QED
      BY <2>5, <3>3, <3>5, ZenonT(40)
  <2>8. /\ req' = ListRequest(f, limit, page.next, more)
        /\ steady' = {p \in Rows : Matches(f, p, status[p])}
    BY <1>3, <2>1, <2>4, <2>7, ZenonT(40) DEF StartList, ListRequest
  <2>9. /\ more \in Seq(Nat \X Nat)
        /\ \A i \in 2..Len(more) : Before(more[i], more[i - 1])
        /\ page.next # FirstPage => /\ Len(more) > 0
                                    /\ page.next = [kind |-> "cursor", text |-> more[Len(more)]]
        /\ \A p \in Listed(f, cursor) :
             \/ \E i \in DOMAIN more : more[i] = Key(p)
             \/ page.next # FirstPage /\ Before(Key(p), DecodeCursor(page.next))
    <3>1. Paging(<<>>, cursor)
      BY <2>3 DEF Paging
    <3>2. TableInv
      BY DEF IInv
    <3>3. PagedOn(f, cursor, <<>>, more, page.next)
      BY <2>2, <2>4, <2>5, <3>1, <3>2, PageExtends, ZenonT(40)
    <3> QED
      BY <3>3, ZenonT(40) DEF PagedOn
  <2>10. steady' = Listed(f, cursor) /\ steady' \subseteq Payments
    BY <2>3, <2>8, ZenonT(40) DEF Listed, AfterCursor, Rows
  <2>11. /\ TableInv' /\ StageInv' /\ Rows' = Rows /\ status' = status
         /\ \A p \in Payments : Key(p)' = Key(p)
    BY <1>1, ReadFrame
  <2>12. /\ req'.kind = "list" /\ req'.filter = f /\ req'.limit = limit /\ req'.cursor = page.next
         /\ req'.seen = more
    BY <2>8, ZenonT(40) DEF ListRequest
  <2>13. ASSUME NEW p \in steady'
         PROVE  /\ Matches(req'.filter, p, status'[p])
                /\ \/ \E i \in DOMAIN req'.seen : req'.seen[i] = Key(p)'
                   \/ req'.cursor # FirstPage /\ Before(Key(p)', DecodeCursor(req'.cursor))
    <3>1. Matches(f, p, status[p])
      BY <2>8
    <3>2. Key(p)' = Key(p)
      BY <2>10, <2>11, ZenonT(40)
    <3> QED
      BY <2>9, <2>10, <2>11, <2>12, <3>1, <3>2, ZenonT(40)
  <2>14. ListInv'
    BY <2>2, <2>8, <2>9, <2>12, <2>13, ZenonT(40) DEF ListInv
  <2>15. DetailInv' /\ StatsInv' /\ SeriesInv'
    BY <2>12, OtherKindsNext, ZenonT(40)
  <2> QED
    BY <2>8, <2>11, <2>12, <2>14, <2>15, ZenonT(40) DEF IInv, Kinds
<1> QED
  BY <1>2, <1>3, ZenonT(40)

\* What a statement changes of a request, field by field: a page of a listing.
LEMMA ListUpdated ==
  ASSUME NEW r, NEW f, NEW l, NEW c, NEW s, r = ListRequest(f, l, c, s), NEW d, NEW t
  PROVE  Paged(r, d, t) = ListRequest(f, l, d, t)
<1>1. PICK q : q = [r EXCEPT !.cursor = d]
  BY ZenonT(40)
<1>2. q = ListRequest(f, l, d, s)
  BY <1>1 DEF ListRequest
<1>3. [q EXCEPT !.seen = t] = ListRequest(f, l, d, t)
  BY <1>2 DEF ListRequest
<1> QED
  BY <1>1, <1>3, ZenonT(40) DEF Paged

\* The same of the two queries of a request for one payment.
LEMMA DetailUpdated ==
  ASSUME NEW r, NEW i, NEW l, NEW p, NEW e, r = DetailRequest(i, l, p, e), NEW m, NEW x
  PROVE  /\ PaymentRead(r, m, x) = DetailRequest(i, m, x, e)
         /\ ExecutionRead(r, m, x) = DetailRequest(i, m, p, x)
<1>1. PICK q : q = [r EXCEPT !.left = m]
  BY ZenonT(40)
<1>2. q = DetailRequest(i, m, p, e)
  BY <1>1 DEF DetailRequest
<1>3. [q EXCEPT !.payment = x] = DetailRequest(i, m, x, e)
  BY <1>2 DEF DetailRequest
<1>4. [q EXCEPT !.execution = x] = DetailRequest(i, m, p, x)
  BY <1>2 DEF DetailRequest
<1> QED
  BY <1>1, <1>3, <1>4, ZenonT(40) DEF PaymentRead, ExecutionRead

\* The same of the totals of the dashboard.
LEMMA TotalsUpdated ==
  ASSUME NEW r, NEW l, NEW t, NEW c, NEW o, NEW f, NEW v, NEW n,
         r = StatsRequest(l, t, c, o, f, v, n),
         NEW m, NEW t2, NEW c2, NEW o2, NEW f2
  PROVE  TotalsRead(r, m, t2, c2, o2, f2) = StatsRequest(m, t2, c2, o2, f2, v, n)
<1>1. PICK q1 : q1 = [r EXCEPT !.left = m]
  BY ZenonT(40)
<1>2. q1 = StatsRequest(m, t, c, o, f, v, n)
  BY <1>1 DEF StatsRequest
<1>3. PICK q2 : q2 = [q1 EXCEPT !.total = t2]
  BY ZenonT(40)
<1>4. q2 = StatsRequest(m, t2, c, o, f, v, n)
  BY <1>2, <1>3 DEF StatsRequest
<1>5. PICK q3 : q3 = [q2 EXCEPT !.completed = c2]
  BY ZenonT(40)
<1>6. q3 = StatsRequest(m, t2, c2, o, f, v, n)
  BY <1>4, <1>5 DEF StatsRequest
<1>7. PICK q4 : q4 = [q3 EXCEPT !.processing = o2]
  BY ZenonT(40)
<1>8. q4 = StatsRequest(m, t2, c2, o2, f, v, n)
  BY <1>6, <1>7 DEF StatsRequest
<1>9. [q4 EXCEPT !.failed = f2] = StatsRequest(m, t2, c2, o2, f2, v, n)
  BY <1>8 DEF StatsRequest
<1> QED
  BY <1>1, <1>3, <1>5, <1>7, <1>9, ZenonT(40) DEF TotalsRead

\* The same of its breakdowns.
LEMMA StatsUpdated ==
  ASSUME NEW r, NEW l, NEW t, NEW c, NEW o, NEW f, NEW v, NEW n,
         r = StatsRequest(l, t, c, o, f, v, n), NEW m, NEW x
  PROVE  /\ ProvidersRead(r, m, x) = StatsRequest(m, t, c, o, f, x, n)
         /\ NetworksRead(r, m, x) = StatsRequest(m, t, c, o, f, v, x)
<1>1. PICK q : q = [r EXCEPT !.left = m]
  BY ZenonT(40)
<1>2. q = StatsRequest(m, t, c, o, f, v, n)
  BY <1>1 DEF StatsRequest
<1>3. [q EXCEPT !.providers = x] = StatsRequest(m, t, c, o, f, x, n)
  BY <1>2 DEF StatsRequest
<1>4. [q EXCEPT !.networks = x] = StatsRequest(m, t, c, o, f, v, x)
  BY <1>2 DEF StatsRequest
<1> QED
  BY <1>1, <1>3, <1>4, ZenonT(40) DEF ProvidersRead, NetworksRead

\* The next page of a listing.  A row that has matched all along lies behind the
\* cursor or was seen, so it is on this page, behind its cursor, or was seen.
LEMMA ListPaymentsPreserves ==
  ASSUME IInv, ListPayments
  PROVE  IInv'
<1>1. UNCHANGED tables /\ UNCHANGED steady /\ req.kind = "list" /\ req.cursor # FirstPage
  BY DEF ListPayments, tables
<1>2. /\ TableInv' /\ StageInv' /\ Rows' = Rows /\ status' = status
      /\ \A p \in Payments : Key(p)' = Key(p)
  BY <1>1, ReadFrame, ZenonT(40)
<1>3. /\ req = ListRequest(req.filter, req.limit, req.cursor, req.seen)
      /\ req.limit \in 1..MaxLimit
      /\ req.seen \in Seq(Nat \X Nat)
      /\ \A i \in 2..Len(req.seen) : Before(req.seen[i], req.seen[i - 1])
      /\ Len(req.seen) > 0
      /\ req.cursor = [kind |-> "cursor", text |-> req.seen[Len(req.seen)]]
  BY <1>1, ZenonT(40) DEF IInv, ListInv
<1>4. \A p \in steady :
        /\ Matches(req.filter, p, status[p])
        /\ \/ \E i \in DOMAIN req.seen : req.seen[i] = Key(p)
           \/ req.cursor # FirstPage /\ Before(Key(p), DecodeCursor(req.cursor))
  BY <1>1, ZenonT(40) DEF IInv, ListInv
<1>5. PICK page : page = Page(req.filter, req.limit, req.cursor)
  OBVIOUS
<1>6. PICK more : more = req.seen \o [i \in DOMAIN page.rows |-> Key(page.rows[i])]
  BY ZenonT(40)
<1>7. req' = ListRequest(req.filter, req.limit, page.next, more)
  <2>1. req' = Paged(req, page.next, more)
    BY <1>5, <1>6, ZenonT(40) DEF ListPayments, Paged
  <2>2. req = ListRequest(req.filter, req.limit, req.cursor, req.seen)
    BY <1>3, ZenonT(40)
  <2>3. PICK f, l, c, s : f = req.filter /\ l = req.limit /\ c = req.cursor /\ s = req.seen
    BY ZenonT(40)
  <2>4. req = ListRequest(f, l, c, s)
    BY <2>2, <2>3, ZenonT(40)
  <2>5. Paged(req, page.next, more) = ListRequest(f, l, page.next, more)
    BY <2>4, ListUpdated
  <2> QED
    BY <2>1, <2>3, <2>5, ZenonT(40)
<1>8. /\ req'.kind = "list" /\ req'.filter = req.filter /\ req'.limit = req.limit
      /\ req'.cursor = page.next /\ req'.seen = more
  BY <1>7, ZenonT(40) DEF ListRequest
<1>9. PagedOn(req.filter, req.cursor, req.seen, more, page.next)
  <2>1. Paging(req.seen, req.cursor)
    BY <1>3, ZenonT(40) DEF Paging
  <2>2. req.limit \in Nat \ {0}
    BY <1>3, LimitPositive, ZenonT(40)
  <2>3. TableInv
    BY DEF IInv
  <2> QED
    BY <1>5, <1>6, <2>1, <2>2, <2>3, PageExtends, ZenonT(40)
<1>10. ASSUME NEW p \in steady
       PROVE  /\ Matches(req'.filter, p, status'[p])
              /\ \/ \E i \in DOMAIN req'.seen : req'.seen[i] = Key(p)'
                 \/ req'.cursor # FirstPage /\ Before(Key(p)', DecodeCursor(req'.cursor))
  <2>1. p \in Rows /\ p \in Payments
    BY ZenonT(40) DEF IInv, Rows
  <2>2. Key(p)' = Key(p)
    BY <1>2, <2>1, ZenonT(40)
  <2>3. Matches(req'.filter, p, status'[p])
    BY <1>2, <1>4, <1>8, ZenonT(40)
  <2>4. \/ \E i \in DOMAIN more : more[i] = Key(p)
        \/ page.next # FirstPage /\ Before(Key(p), DecodeCursor(page.next))
    <3>1. CASE \E i \in DOMAIN req.seen : req.seen[i] = Key(p)
      BY <1>9, <3>1, ZenonT(40) DEF PagedOn
    <3>2. CASE Before(Key(p), DecodeCursor(req.cursor))
      <4>1. p \in Listed(req.filter, req.cursor)
        BY <1>4, <2>1, <3>2, ZenonT(40) DEF Listed, AfterCursor
      <4> QED
        BY <1>9, <4>1, ZenonT(40) DEF PagedOn
    <3> QED
      BY <1>4, <3>1, <3>2, ZenonT(40)
  <2> QED
    BY <1>8, <2>2, <2>3, <2>4, ZenonT(40)
<1>11. /\ more \in Seq(Nat \X Nat)
       /\ \A i \in 2..Len(more) : Before(more[i], more[i - 1])
       /\ page.next # FirstPage => /\ Len(more) > 0
                                   /\ page.next = [kind |-> "cursor", text |-> more[Len(more)]]
  BY <1>9, ZenonT(40) DEF PagedOn
<1>12. ListInv'
  BY <1>1, <1>3, <1>7, <1>8, <1>10, <1>11, ZenonT(40) DEF ListInv
<1>13. DetailInv' /\ StatsInv' /\ SeriesInv'
  BY <1>8, OtherKindsNext, ZenonT(40)
<1> QED
  BY <1>1, <1>2, <1>8, <1>12, <1>13, ZenonT(40) DEF IInv, Kinds

\* A request for one payment begins.
LEMMA StartDetailPreserves ==
  ASSUME IInv, NEW p \in Payments, StartDetail(p)
  PROVE  IInv'
<1>1. /\ UNCHANGED tables /\ UNCHANGED steady
      /\ req' = DetailRequest(p, <<"payment", "execution">>, Unread, "none")
  BY ZenonT(40) DEF StartDetail, tables, DetailReads, DetailRequest
<1>2. TableInv' /\ StageInv' /\ Rows' = Rows
  BY <1>1, ReadFrame
<1>3. /\ req'.kind = "detail" /\ req'.id = p /\ req'.left = <<"payment", "execution">>
      /\ req'.payment = Unread /\ req'.execution = "none"
  BY <1>1, ZenonT(40) DEF DetailRequest
<1>4. DetailInv'
  BY <1>1, <1>3, ZenonT(40) DEF DetailInv
<1>5. StatsInv' /\ SeriesInv' /\ ListInv'
  BY <1>3, OtherKindsNext, ZenonT(40)
<1> QED
  BY <1>1, <1>2, <1>3, <1>4, <1>5, ZenonT(40) DEF IInv, Kinds

\* One query of that request: the payment's row, which the execution row then
\* fits, or the execution row.
LEMMA GetPaymentPreserves ==
  ASSUME IInv, GetPayment
  PROVE  IInv'
<1>1. UNCHANGED tables /\ UNCHANGED steady /\ req.kind = "detail" /\ req.left # <<>>
  BY ZenonT(40) DEF GetPayment, tables
<1>2. /\ req = DetailRequest(req.id, req.left, req.payment, req.execution)
      /\ req.id \in Payments
      /\ \/ req.left = <<"payment", "execution">>
         \/ req.left = <<"execution">> /\ Told(req.id, req.payment, exec[req.id])
  BY <1>1, ZenonT(40) DEF IInv, DetailInv
<1>3. /\ TableInv' /\ StageInv' /\ Rows' = Rows /\ exec' = exec
  BY <1>1, ReadFrame
<1>4. CASE req' = [kind |-> "refused"]
  BY <1>1, <1>4, RefusedPreserves, ZenonT(40)
<1>5. CASE /\ Head(req.left) = "payment"
           /\ req.id \in Rows
           /\ req' = [req EXCEPT !.left = Tail(@),
                        !.payment = [status |-> status[req.id], reason |-> req.id \in reason,
                                     ended |-> req.id \in ended]]
  <2>1. PICK row : row = [status |-> status[req.id], reason |-> req.id \in reason,
                          ended |-> req.id \in ended]
    BY ZenonT(40)
  <2>2. req.left = <<"payment", "execution">>
    BY <1>2, <1>5
  <2>3. Tail(req.left) = <<"execution">>
    BY <2>2
  <2>4. req' = DetailRequest(req.id, <<"execution">>, row, req.execution)
    <3>1. req' = PaymentRead(req, Tail(req.left), row)
      BY <1>5, <2>1 DEF PaymentRead
    <3>2. req = DetailRequest(req.id, req.left, req.payment, req.execution)
      BY <1>2, ZenonT(40)
    <3>3. \A m : PaymentRead(req, m, row) = DetailRequest(req.id, m, row, req.execution)
      BY <3>2, DetailUpdated
    <3> QED
      BY <2>3, <3>1, <3>3, ZenonT(40)
  <2>5. Told(req.id, row, exec[req.id])
    <3>1. row.status = status[req.id]
      BY <2>1, ZenonT(40)
    <3>2. /\ status[req.id] = "SUBMITTED" => exec[req.id] \in Sent
          /\ status[req.id] = "COMPLETED" /\ Mode[req.id] = "testnet" => exec[req.id] \in Final
          /\ status[req.id] = "COMPLETED" => req.id \in ended
          /\ status[req.id] = "FAILED" => req.id \in reason \cup ended
      BY <1>2, ZenonT(40) DEF IInv, StageInv
    <3>3. row.status \in {"COMPLETED", "FAILED"} => req.id \in reason \/ req.id \in ended
      BY <3>1, <3>2, ZenonT(40)
    <3>4. row.reason = (req.id \in reason) /\ row.ended = (req.id \in ended)
      BY <2>1, ZenonT(40)
    <3>5. row.status \in {"COMPLETED", "FAILED"} => row.reason \/ row.ended
      BY <3>3, <3>4, ZenonT(40)
    <3> QED
      BY <3>1, <3>2, <3>5, ZenonT(40) DEF Told
  <2>6. /\ req'.kind = "detail" /\ req'.id = req.id /\ req'.left = <<"execution">>
        /\ req'.payment = row /\ req'.execution = req.execution
    BY <2>4, ZenonT(40) DEF DetailRequest
  <2>7. DetailInv'
    BY <1>2, <1>3, <2>4, <2>5, <2>6, ZenonT(40) DEF DetailInv
  <2>8. StatsInv' /\ SeriesInv' /\ ListInv'
    BY <2>6, OtherKindsNext, ZenonT(40)
  <2> QED
    BY <1>1, <1>3, <2>6, <2>7, <2>8, ZenonT(40) DEF IInv, Kinds
<1>6. CASE /\ Head(req.left) = "execution"
           /\ req' = [req EXCEPT !.left = Tail(@), !.execution = exec[req.id]]
  <2>1. req.left = <<"execution">> /\ Told(req.id, req.payment, exec[req.id])
    <3>1. Head(<<"payment", "execution">>) = "payment"
      OBVIOUS
    <3> QED
      BY <1>2, <1>6, <3>1, ZenonT(40)
  <2>2. Tail(req.left) = <<>>
    BY <2>1
  <2>3. req' = DetailRequest(req.id, <<>>, req.payment, exec[req.id])
    <3>1. req' = ExecutionRead(req, Tail(req.left), exec[req.id])
      BY <1>6 DEF ExecutionRead
    <3>2. req = DetailRequest(req.id, req.left, req.payment, req.execution)
      BY <1>2
    <3>3. \A m, x : ExecutionRead(req, m, x) = DetailRequest(req.id, m, req.payment, x)
      BY <3>2, DetailUpdated
    <3> QED
      BY <2>2, <3>1, <3>3, ZenonT(40)
  <2>4. /\ req'.kind = "detail" /\ req'.id = req.id /\ req'.left = <<>>
        /\ req'.payment = req.payment /\ req'.execution = exec[req.id]
    BY <2>3, ZenonT(40) DEF DetailRequest
  <2>5. DetailInv'
    BY <1>2, <2>1, <2>3, <2>4, ZenonT(40) DEF DetailInv
  <2>6. StatsInv' /\ SeriesInv' /\ ListInv'
    BY <2>4, OtherKindsNext, ZenonT(40)
  <2> QED
    BY <1>1, <1>3, <2>4, <2>5, <2>6, ZenonT(40) DEF IInv, Kinds
<1> QED
  BY <1>4, <1>5, <1>6, ZenonT(40) DEF GetPayment

\* The dashboard is opened.
LEMMA StartStatsPreserves ==
  ASSUME IInv, StartStats
  PROVE  IInv'
<1>1. /\ UNCHANGED tables /\ UNCHANGED steady
      /\ req' = StatsRequest(<<"totals", "providers", "networks">>, 0, 0, 0, 0, 0, [t \in Trips |-> 0])
  BY ZenonT(40) DEF StartStats, tables, StatsReads, StatsRequest, Trips
<1>2. TableInv' /\ StageInv' /\ Rows' = Rows
  BY <1>1, ReadFrame, ZenonT(40)
<1>3. /\ req'.kind = "stats" /\ req'.left = <<"totals", "providers", "networks">>
      /\ req'.total = 0 /\ req'.completed = 0 /\ req'.processing = 0 /\ req'.failed = 0
      /\ req'.providers = 0 /\ req'.networks = [t \in Trips |-> 0]
  BY <1>1, ZenonT(40) DEF StatsRequest
<1>4. DOMAIN req'.networks = Trips
  BY <1>3, ZenonT(40)
<1>5. StatsLeft'
  BY <1>3, <1>4, ZenonT(40) DEF StatsLeft
<1>6. StatsInv'
  BY <1>1, <1>3, <1>5, ZenonT(40) DEF StatsInv
<1>7. DetailInv' /\ SeriesInv' /\ ListInv'
  BY <1>3, OtherKindsNext, ZenonT(40)
<1> QED
  BY <1>1, <1>2, <1>3, <1>6, <1>7, ZenonT(40) DEF IInv, Kinds

\* Every row is completed, in flight or failed, and only one of these: the
\* totals of the first query add up.
LEMMA TotalsAddUp ==
  ASSUME TableInv
  PROVE  /\ Cardinality(Rows) \in Nat
         /\ Cardinality(Rows) = CountStatus({"COMPLETED"}) + CountStatus(InFlight) + CountStatus({"FAILED"})
<1> DEFINE C == {p \in Rows : status[p] \in {"COMPLETED"}}
           I == {p \in Rows : status[p] \in InFlight}
           F == {p \in Rows : status[p] \in {"FAILED"}}
<1>1. IsFiniteSet(Rows) /\ Cardinality(Rows) \in Nat
  <2>1. Rows \in SUBSET Payments
    BY ZenonT(40) DEF Rows
  <2> QED
    BY <2>1, FinitelyMany
<1>2. C \in SUBSET Rows /\ I \in SUBSET Rows /\ F \in SUBSET Rows
  BY ZenonT(40)
<1>3. Rows = (C \cup I) \cup F
  BY DEF Rows, TableInv, Statuses, InFlight
<1>4. C \cap I = {} /\ (C \cup I) \cap F = {}
  BY ZenonT(40) DEF InFlight
<1> HIDE DEF C, I, F
<1>5. IsFiniteSet(C) /\ IsFiniteSet(I) /\ IsFiniteSet(F)
  BY <1>1, <1>2, FS_Subset
<1>6. Cardinality(C) \in Nat /\ Cardinality(I) \in Nat /\ Cardinality(F) \in Nat
  BY <1>5, FS_CardinalityType, ZenonT(40)
<1>7. Cardinality(C \cap I) = 0 /\ Cardinality((C \cup I) \cap F) = 0
  <2>1. Cardinality({}) = 0
    BY FS_EmptySet, ZenonT(40)
  <2> QED
    BY <1>4, <2>1, ZenonT(40)
<1>8. IsFiniteSet(C \cup I) /\ Cardinality(C \cup I) = Cardinality(C) + Cardinality(I)
  <2>1. /\ IsFiniteSet(C \cup I)
        /\ Cardinality(C \cup I) = Cardinality(C) + Cardinality(I) - Cardinality(C \cap I)
    BY <1>5, FS_Union, ZenonT(40)
  <2> QED
    BY <1>6, <1>7, <2>1
<1>9. Cardinality(Rows) = Cardinality(C) + Cardinality(I) + Cardinality(F)
  <2>1. Cardinality((C \cup I) \cup F)
          = Cardinality(C \cup I) + Cardinality(F) - Cardinality((C \cup I) \cap F)
    BY <1>5, <1>8, FS_Union, ZenonT(40)
  <2>2. Cardinality(Rows) = Cardinality((C \cup I) \cup F)
    BY <1>3, ZenonT(40)
  <2> QED
    BY <1>6, <1>7, <1>8, <2>1, <2>2
<1> QED
  BY <1>1, <1>9, ZenonT(40) DEF C, I, F, CountStatus

\* One query of the dashboard.
LEMMA GetDashboardStatsPreserves ==
  ASSUME IInv, GetDashboardStats
  PROVE  IInv'
<1>1. UNCHANGED tables /\ UNCHANGED steady /\ req.kind = "stats" /\ req.left # <<>>
  BY ZenonT(40) DEF GetDashboardStats, tables
<1>2. /\ req = StatsRequest(req.left, req.total, req.completed, req.processing, req.failed,
                            req.providers, req.networks)
      /\ StatsLeft
  BY <1>1 DEF IInv, StatsInv
<1>3. /\ TableInv' /\ StageInv' /\ Rows' = Rows
  BY <1>1, ReadFrame, ZenonT(40)
<1>4. TableInv /\ Cardinality(Rows) \in Nat
  BY TotalsAddUp, ZenonT(40) DEF IInv
<1>5. SUFFICES req'.kind = "stats" /\ StatsInv'
  BY <1>1, <1>3, OtherKindsNext, ZenonT(40) DEF IInv, Kinds
<1>6. CASE /\ Head(req.left) = "totals"
           /\ req' = [req EXCEPT !.left = Tail(@), !.total = Cardinality(Rows),
                                 !.completed = CountStatus({"COMPLETED"}),
                                 !.processing = CountStatus(InFlight),
                                 !.failed = CountStatus({"FAILED"})]
  <2>1. req.left = <<"totals", "providers", "networks">> /\ DOMAIN req.networks = Trips
    BY <1>1, <1>2, <1>6 DEF StatsLeft
  <2>2. Tail(req.left) = <<"providers", "networks">>
    BY <2>1
  <2>3. PICK t, c, o, f : /\ t = Cardinality(Rows) /\ c = CountStatus({"COMPLETED"})
                          /\ o = CountStatus(InFlight) /\ f = CountStatus({"FAILED"})
    BY ZenonT(40)
  <2>4. req' = TotalsRead(req, Tail(req.left), t, c, o, f)
    BY <1>6, <2>3, ZenonT(40) DEF TotalsRead
  <2>5. \A m : TotalsRead(req, m, t, c, o, f) = StatsRequest(m, t, c, o, f, req.providers, req.networks)
    <3>1. req = StatsRequest(req.left, req.total, req.completed, req.processing, req.failed,
                             req.providers, req.networks)
      BY <1>2, ZenonT(40)
    <3> QED
      BY <3>1, TotalsUpdated
  <2>6. req' = StatsRequest(<<"providers", "networks">>, t, c, o, f, req.providers, req.networks)
    BY <2>2, <2>4, <2>5, ZenonT(40)
  <2>7. /\ req'.kind = "stats" /\ req'.left = <<"providers", "networks">> /\ req'.total = t
        /\ req'.completed = c /\ req'.processing = o /\ req'.failed = f
        /\ req'.providers = req.providers /\ req'.networks = req.networks
    BY <2>6, ZenonT(40) DEF StatsRequest
  <2>8. t \in Nat /\ t = c + o + f /\ t <= Cardinality(Rows)
    BY <1>4, <2>3, TotalsAddUp
  <2>9. Totalled(Rows)'
    BY <1>3, <2>7, <2>8, ZenonT(40) DEF Totalled
  <2>10. StatsLeft'
    BY <2>1, <2>7, <2>9, ZenonT(40) DEF StatsLeft
  <2> QED
    BY <2>6, <2>7, <2>10, ZenonT(40) DEF StatsInv
<1>7. CASE /\ Head(req.left) = "providers"
           /\ req' = [req EXCEPT !.left = Tail(@),
                                 !.providers = Cardinality({p \in Rows : Mode[p] = "testnet"})]
  <2>1. req.left = <<"providers", "networks">> /\ DOMAIN req.networks = Trips /\ Totalled(Rows)
    BY <1>1, <1>2, <1>7 DEF StatsLeft
  <2>2. Tail(req.left) = <<"networks">>
    BY <2>1
  <2>3. PICK x : x = Cardinality({p \in Rows : Mode[p] = "testnet"})
    OBVIOUS
  <2>4. req' = ProvidersRead(req, Tail(req.left), x)
    BY <1>7, <2>3, ZenonT(40) DEF ProvidersRead
  <2>5. \A m : ProvidersRead(req, m, x)
                 = StatsRequest(m, req.total, req.completed, req.processing, req.failed, x, req.networks)
    BY <1>2, StatsUpdated
  <2>6. req' = StatsRequest(<<"networks">>, req.total, req.completed, req.processing, req.failed, x,
                            req.networks)
    BY <2>2, <2>4, <2>5, ZenonT(40)
  <2>7. /\ req'.kind = "stats" /\ req'.left = <<"networks">> /\ req'.total = req.total
        /\ req'.completed = req.completed /\ req'.processing = req.processing
        /\ req'.failed = req.failed /\ req'.providers = x /\ req'.networks = req.networks
    BY <2>6, ZenonT(40) DEF StatsRequest
  <2>8. x \in Nat /\ x <= Cardinality(Rows)
    <3>1. {p \in Rows : Mode[p] = "testnet"} \in SUBSET Rows /\ Rows \in SUBSET Payments
      BY DEF Rows
    <3>2. IsFiniteSet(Rows)
      BY <3>1, FinitelyMany, ZenonT(40)
    <3> QED
      BY <2>3, <3>1, <3>2, FS_Subset, FS_CardinalityType, ZenonT(40)
  <2>9. Totalled(Rows)' /\ Provided(Rows)'
    BY <1>3, <2>1, <2>7, <2>8, ZenonT(40) DEF Totalled, Provided
  <2>10. StatsLeft'
    BY <2>1, <2>7, <2>9, ZenonT(40) DEF StatsLeft
  <2> QED
    BY <2>6, <2>7, <2>10, ZenonT(40) DEF StatsInv
<1>8. CASE /\ Head(req.left) = "networks"
           /\ req' = [req EXCEPT !.left = Tail(@),
                                 !.networks = [t \in DOMAIN @ |->
                                                 Cardinality({p \in Rows : Trip[p] = t})]]
  <2>1. req.left = <<"networks">> /\ DOMAIN req.networks = Trips /\ Totalled(Rows) /\ Provided(Rows)
    BY <1>1, <1>2, <1>8 DEF StatsLeft
  <2>2. Tail(req.left) = <<>>
    BY <2>1
  <2>3. PICK x : x = [t \in Trips |-> Cardinality({p \in Rows : Trip[p] = t})]
    BY ZenonT(40)
  <2>4. req' = NetworksRead(req, Tail(req.left), x)
    BY <1>8, <2>1, <2>3, ZenonT(40) DEF NetworksRead
  <2>5. \A m : NetworksRead(req, m, x)
                 = StatsRequest(m, req.total, req.completed, req.processing, req.failed, req.providers, x)
    <3>1. req = StatsRequest(req.left, req.total, req.completed, req.processing, req.failed,
                             req.providers, req.networks)
      BY <1>2, ZenonT(40)
    <3> QED
      BY <3>1, StatsUpdated
  <2>6. req' = StatsRequest(<<>>, req.total, req.completed, req.processing, req.failed, req.providers, x)
    BY <2>2, <2>4, <2>5, ZenonT(40)
  <2>7. /\ req'.kind = "stats" /\ req'.left = <<>> /\ req'.total = req.total
        /\ req'.completed = req.completed /\ req'.processing = req.processing
        /\ req'.failed = req.failed /\ req'.providers = req.providers /\ req'.networks = x
    BY <2>6, ZenonT(40) DEF StatsRequest
  <2>8. PICK R : R = Rows
    BY ZenonT(40)
  <2>9. R \in SUBSET Payments /\ Totalled(R)' /\ Provided(R)'
    BY <2>1, <2>7, <2>8 DEF Totalled, Provided, Rows
  <2>10. req'.networks = [t \in Trips |-> Cardinality({p \in R : Trip[p] = t})]
    BY <2>3, <2>7, <2>8, ZenonT(40)
  <2>11. StatsLeft'
    BY <2>7, <2>9, <2>10, ZenonT(40) DEF StatsLeft
  <2> QED
    BY <2>6, <2>7, <2>11, ZenonT(40) DEF StatsInv
<1> QED
  BY <1>6, <1>7, <1>8 DEF GetDashboardStats

\* date_trunc rounds down by less than a bucket.
LEMMA TruncatedBound ==
  ASSUME NEW size \in Nat \ {0}, NEW t \in Nat
  PROVE  Truncated(size, t) \in Int /\ Truncated(size, t) + size > t
<1>1. PICK q \in Int : q = t \div size
  OBVIOUS
<1>2. size * q + size > t
  BY <1>1
<1>3. q * size = size * q /\ q * size \in Int
  OBVIOUS
<1> QED
  BY <1>1, <1>2, <1>3 DEF Truncated

\* The days a timeseries works with, whatever was asked for.
LEMMA DaysBounded ==
  ASSUME NEW raw \in RawDays, EffectiveDays(raw) # 0
  PROVE  EffectiveDays(raw) \in 1..MaxDays
<1>1. MaxDays \in Nat \ {0} /\ DefaultDays \in 1..MaxDays /\ RawDays \subseteq Int \cup {Unset}
  BY LimitsAssumption, ZenonT(40)
<1>2. CASE raw = Unset
  BY <1>1, <1>2 DEF EffectiveDays
<1>3. CASE raw # Unset
  <2>1. raw \in Int
    BY <1>1, <1>3
  <2> QED
    BY <1>1, <1>3, <2>1 DEF EffectiveDays
<1> QED
  BY <1>2, <1>3

\* A timeseries: each bucket holds a payment, and a payment of the window.
LEMMA GetTimeseriesPreserves ==
  ASSUME IInv, NEW raw \in RawDays, NEW size \in BucketSizes, GetTimeseries(raw, size)
  PROVE  IInv'
<1>1. UNCHANGED tables /\ UNCHANGED steady
  BY ZenonT(40) DEF GetTimeseries, tables
<1>2. CASE EffectiveDays(raw) = 0
  <2>1. req' = [kind |-> "refused"]
    BY <1>2, ZenonT(40) DEF GetTimeseries
  <2> QED
    BY <1>1, <2>1, RefusedPreserves, ZenonT(40)
<1>3. CASE EffectiveDays(raw) # 0
  <2>1. PICK days : days = EffectiveDays(raw)
    OBVIOUS
  <2>2. PICK window : window = {p \in Rows : created[p] > now - days}
    BY ZenonT(40)
  <2>3. PICK buckets : buckets = {Truncated(size, created[p]) : p \in window}
    BY ZenonT(40)
  <2>4. PICK points : points = [b \in buckets |-> Cardinality({p \in window : Truncated(size, created[p]) = b})]
    BY ZenonT(40)
  <2>5. req' = [kind |-> "timeseries", at |-> now, size |-> size, points |-> points]
    BY <1>3, <2>1, <2>2, <2>3, <2>4, ZenonT(40) DEF GetTimeseries
  <2>6. /\ req'.kind = "timeseries" /\ req'.at = now /\ req'.size = size /\ req'.points = points
    BY <2>5
  <2>7. days \in 1..MaxDays /\ MaxDays \in Nat /\ MaxClock \in Nat /\ size \in Nat \ {0}
    BY <1>3, <2>1, DaysBounded, LimitsAssumption, ZenonT(40)
  <2>8. window \in SUBSET Payments /\ now \in Int /\ \A p \in window : created[p] \in Nat
    BY <2>2, <2>7 DEF IInv, TableInv, Rows
  <2>9. ASSUME NEW b \in buckets
        PROVE  points[b] > 0 /\ b + size > now - MaxDays + 1
    <3>1. PICK p \in window : b = Truncated(size, created[p])
      BY <2>3
    <3>2. PICK T : T = {q \in window : Truncated(size, created[q]) = b}
      BY ZenonT(40)
    <3>3. T \in SUBSET Payments /\ T # {}
      BY <2>8, <3>1, <3>2
    <3>4. Cardinality(T) \in Nat /\ Cardinality(T) # 0
      BY <3>3, FinitelyMany, FS_EmptySet, ZenonT(40)
    <3>5. points[b] = Cardinality(T)
      BY <2>4, <3>2
    <3>6. created[p] > now - days /\ created[p] \in Nat
      BY <2>2, <2>8
    <3>7. b \in Int /\ b + size > created[p]
      BY <2>7, <3>1, <3>6, TruncatedBound, ZenonT(40)
    <3>8. b + size > now - MaxDays + 1
      BY <2>7, <2>8, <3>6, <3>7
    <3> QED
      BY <3>4, <3>5, <3>8
  <2>10. DOMAIN points = buckets
    BY <2>4, ZenonT(40)
  <2>11. SeriesInv'
    BY <2>6, <2>9, <2>10, ZenonT(40) DEF SeriesInv
  <2>12. DetailInv' /\ StatsInv' /\ ListInv'
    BY <2>6, OtherKindsNext
  <2>13. TableInv' /\ StageInv' /\ Rows' = Rows
    BY <1>1, ReadFrame
  <2> QED
    BY <1>1, <2>6, <2>11, <2>12, <2>13, ZenonT(40) DEF IInv, Kinds
<1> QED
  BY <1>2, <1>3, ZenonT(40)

\* A query keeps the invariant.
LEMMA ReadPreserves ==
  ASSUME IInv, Read
  PROVE  IInv'
<1>1. CASE \E s \in Statuses \cup {Unset, "bogus"}, m \in {"simulated", "testnet", Unset, "bogus"},
              raw \in RawLimits, cursor \in {FirstPage, Garbled} :
             StartList([status |-> s, mode |-> m], raw, cursor)
  BY <1>1, StartListPreserves, ZenonT(40)
<1>2. CASE ListPayments
  BY <1>2, ListPaymentsPreserves
<1>3. CASE \E p \in Payments : StartDetail(p)
  BY <1>3, StartDetailPreserves, ZenonT(40)
<1>4. CASE GetPayment
  BY <1>4, GetPaymentPreserves
<1>5. CASE StartStats
  BY <1>5, StartStatsPreserves
<1>6. CASE GetDashboardStats
  BY <1>6, GetDashboardStatsPreserves
<1>7. CASE \E raw \in RawDays, size \in BucketSizes : GetTimeseries(raw, size)
  BY <1>7, GetTimeseriesPreserves, ZenonT(40)
<1> QED
  BY <1>1, <1>2, <1>3, <1>4, <1>5, <1>6, <1>7, ZenonT(40) DEF Read

-----------------------------------------------------------------------------
(***************************************************************************)
(* The theorems.                                                           *)
(***************************************************************************)
\* The invariant holds at the start: no payments, no request.
LEMMA InitIInv == Init => IInv
<1> SUFFICES ASSUME Init
             PROVE  IInv
  OBVIOUS
<1>1. Rows = {} /\ req.kind = "none"
  BY ZenonT(40) DEF Init, Rows, NoRequest
<1>2. TableInv /\ StageInv
  BY <1>1, LimitsAssumption DEF Init, TableInv, StageInv, ExecStages
<1>3. DetailInv /\ StatsInv /\ SeriesInv /\ ListInv
  BY <1>1, OtherKinds
<1> QED
  BY <1>1, <1>2, <1>3 DEF Init, IInv, Kinds

\* Every step of a writer or a reader keeps it.
LEMMA NextIInv == IInv /\ [Next]_vars => IInv'
<1> SUFFICES ASSUME IInv, [Next]_vars
             PROVE  IInv'
  BY ZenonT(40)
<1>1. CASE Write
  <2>1. TableInv' /\ StageInv' /\ Onward
    BY <1>1, WritePreserves
  <2>2. /\ steady' \subseteq Rows' /\ DetailInv' /\ StatsInv' /\ SeriesInv' /\ ListInv'
    BY <2>1, WriteLeavesReaders, ZenonT(40) DEF TableInv
  <2>3. req'.kind \in Kinds
    BY <2>1, ZenonT(40) DEF Onward, IInv
  <2> QED
    BY <2>1, <2>2, <2>3, ZenonT(40) DEF IInv
<1>2. CASE Read
  BY <1>2, ReadPreserves
<1>3. CASE UNCHANGED vars
  <2>1. UNCHANGED tables /\ UNCHANGED steady /\ UNCHANGED req
    BY <1>3 DEF vars, tables
  <2>2. TableInv' /\ StageInv' /\ Rows' = Rows /\ status' = status /\ exec' = exec /\ created' = created
    BY <2>1, ReadFrame, ZenonT(40)
  <2>3. DetailInv' /\ SeriesInv'
    BY <2>1, <2>2, ZenonT(40) DEF IInv, DetailInv, SeriesInv
  <2>4. StatsInv'
    BY <2>1, <2>2, ZenonT(40) DEF IInv, StatsInv, StatsLeft, Totalled, Provided
  <2>5. ListInv'
    BY <2>1, <2>2, ZenonT(40) DEF IInv, ListInv, Key
  <2> QED
    BY <2>1, <2>2, <2>3, <2>4, <2>5, ZenonT(40) DEF IInv
<1> QED
  BY <1>1, <1>2, <1>3 DEF Next

\* The inductive invariant, from which the theorems below follow.
THEOREM AlwaysIInv == Spec => []IInv
  BY InitIInv, NextIInv, PTL DEF Spec

\* The types of the tables and of the request, for any number of payments: a
\* listing's limit stays within maxListLimit whatever ?limit= asks for.
THEOREM TypeCorrect == Spec => []TypeOK
<1>1. IInv => TypeOK
  BY ZenonT(40) DEF IInv, TypeOK, TableInv, ListInv, Kinds
<1> QED
  BY <1>1, AlwaysIInv, PTL

\* ListPayments: all the pages of a listing together are newest first, so no
\* payment is listed twice, whatever the writers do between the pages.
THEOREM AlwaysNewestFirst == Spec => []NewestFirst
<1>1. IInv => NewestFirst
  BY ZenonT(40) DEF IInv, NewestFirst, ListInv
<1> QED
  BY <1>1, AlwaysIInv, PTL

\* ListPayments: when the last page has been read, every payment that matched all
\* along has been listed.
THEOREM AlwaysListingComplete == Spec => []ListingComplete
<1>1. IInv => ListingComplete
  BY ZenonT(40) DEF IInv, ListingComplete, ListInv
<1> QED
  BY <1>1, AlwaysIInv, PTL

\* GetPayment: the answer's execution fields fit the status it shows, although the
\* two rows are read one after the other.
THEOREM AlwaysAnswerHasItsTransaction == Spec => []AnswerHasItsTransaction
<1>1. ASSUME IInv, req.kind = "detail", req.left = <<>>
      PROVE  LET a == toPaymentResponse(req)
             IN /\ a.status = "SUBMITTED" => a.txHash /\ a.submittedAt
                /\ a.status = "COMPLETED" /\ Mode[req.id] = "testnet"
                     => a.txHash /\ a.submittedAt /\ a.final
                /\ a.status \in {"COMPLETED", "FAILED"} => a.explained
  <2>1. Told(req.id, req.payment, req.execution)
    <3>1. <<>> # <<"payment", "execution">> /\ <<>> # <<"execution">>
      OBVIOUS
    <3> QED
      BY <1>1, <3>1, ZenonT(40) DEF IInv, DetailInv
  <2>2. PICK a : a = toPaymentResponse(req)
    OBVIOUS
  <2>3. /\ a.status = req.payment.status
        /\ a.explained <=> req.payment.reason \/ req.payment.ended
        /\ a.txHash <=> req.execution \notin {"none", "created"}
        /\ a.submittedAt <=> req.execution \notin {"none", "created", "signed"}
        /\ a.final <=> req.execution \in {"filled", "failed"}
    BY <2>2, ZenonT(40) DEF toPaymentResponse
  <2>4. req.execution \in Sent => req.execution \notin {"none", "created", "signed"}
    BY DEF Sent
  <2>5. req.execution \in Final => req.execution \in Sent
    BY DEF Sent, Final
  <2>6. req.execution \in Final => req.execution \in {"filled", "failed"}
    BY DEF Final
  <2>7. /\ a.status = "SUBMITTED" => a.txHash /\ a.submittedAt
        /\ a.status = "COMPLETED" /\ Mode[req.id] = "testnet" => a.txHash /\ a.submittedAt /\ a.final
        /\ a.status \in {"COMPLETED", "FAILED"} => a.explained
    BY <2>1, <2>3, <2>4, <2>5, <2>6, ZenonT(40) DEF Told
  <2> QED
    BY <2>2, <2>7, ZenonT(40)
<1>2. IInv => AnswerHasItsTransaction
  BY <1>1, ZenonT(40) DEF AnswerHasItsTransaction
<1> QED
  BY <1>2, AlwaysIInv, PTL

\* Every row is counted under one network, so the breakdown by networks adds up
\* to the rows it was made of.
LEMMA NetworksAddUp ==
  ASSUME NEW R \in SUBSET Payments, NEW f, f = [t \in Trips |-> Cardinality({p \in R : Trip[p] = t})]
  PROVE  FoldFunction(+, 0, f) = Cardinality(R)
<1> DEFINE Of(s) == {p \in R : Trip[p] \in s}
<1>1. IsFiniteSet(Trips)
  <2>1. DOMAIN Trip = Payments /\ IsFiniteSet(Payments)
    BY PaymentsAssumption
  <2>2. PICK h : h = [p \in Payments |-> Trip[p]]
    BY ZenonT(40)
  <2>3. h \in [Payments -> Trips] /\ \A t \in Trips : \E p \in Payments : h[p] = t
    BY <2>2, ZenonT(40) DEF Trips
  <2>4. h \in Surjection(Payments, Trips)
    BY <2>3 DEF Surjection
  <2> QED
    BY <2>1, <2>4, FS_Surjection, ZenonT(40)
<1>2. \A s : Of(s) \in SUBSET Payments
  BY ZenonT(40)
<1>3. ASSUME NEW s \in SUBSET Trips, NEW x \in s
      PROVE  Cardinality(Of(s)) = f[x] + Cardinality(Of(s \ {x}))
  <2>1. PICK A : A = {p \in R : Trip[p] = x}
    BY ZenonT(40)
  <2>2. PICK B : B = Of(s \ {x})
    BY ZenonT(40)
  <2>3. A \in SUBSET Payments /\ B \in SUBSET Payments /\ A \cap B = {} /\ Of(s) = A \cup B
    BY <2>1, <2>2, ZenonT(40)
  <2>4. f[x] = Cardinality(A)
    BY <2>1
  <2> HIDE DEF Of
  <2>5. IsFiniteSet(A) /\ IsFiniteSet(B) /\ Cardinality(A) \in Nat /\ Cardinality(B) \in Nat
    BY <2>3, FinitelyMany
  <2>6. Cardinality(A \cup B) = Cardinality(A) + Cardinality(B) - Cardinality(A \cap B)
    BY <2>5, FS_Union, ZenonT(40)
  <2>7. Cardinality(A \cap B) = 0
    <3>1. Cardinality({}) = 0
      BY FS_EmptySet
    <3> QED
      BY <2>3, <3>1, ZenonT(40)
  <2>8. Cardinality(Of(s)) = Cardinality(A \cup B)
    BY <2>3, ZenonT(40)
  <2> QED
    BY <2>2, <2>4, <2>5, <2>6, <2>7, <2>8
<1>4. Of({}) = {} /\ Of(Trips) = R
  BY DEF Trips
<1> HIDE DEF Of
<1>5. PICK g : g = [s \in SUBSET Trips |-> Cardinality(Of(s))]
  BY ZenonT(40)
<1>6. /\ DOMAIN g = SUBSET Trips /\ \A s \in SUBSET Trips : g[s] = Cardinality(Of(s))
  BY <1>5
<1>7. g[{}] = 0
  BY <1>4, <1>6, FS_EmptySet, ZenonT(40)
<1>8. \A s \in SUBSET Trips : \A x \in s : g[s] = f[x] + g[s \ {x}]
  <2>1. ASSUME NEW s \in SUBSET Trips, NEW x \in s
        PROVE  g[s] = f[x] + g[s \ {x}]
    <3>1. s \ {x} \in SUBSET Trips
      OBVIOUS
    <3> QED
      BY <1>3, <1>6, <3>1, ZenonT(40)
  <2> QED
    BY <2>1, ZenonT(40)
<1>9. DOMAIN f = Trips
  OBVIOUS
<1>10. FoldFunction(+, 0, f) = g[Trips]
  <2>1. AddsUp(g, f) /\ IsFiniteSet(DOMAIN f)
    BY <1>1, <1>6, <1>7, <1>8, <1>9, ZenonT(40) DEF AddsUp
  <2>2. FoldFunction(+, 0, f) = g[DOMAIN f]
    BY <2>1, FoldIsSum, ZenonT(40)
  <2> QED
    BY <1>9, <2>2, ZenonT(40)
<1> QED
  BY <1>4, <1>6, <1>10, ZenonT(40)

\* GetDashboardStats and GetTimeseries: the dashboard's numbers fit together
\* although three queries made them, and a timeseries keeps within
\* maxTimeseriesDays.
THEOREM AlwaysDashboardConsistent == Spec => []DashboardConsistent
<1>1. ASSUME IInv, req.kind = "stats", req.left = <<>>
      PROVE  /\ req.total = req.completed + req.processing + req.failed
             /\ req.total <= FoldFunction(+, 0, req.networks)
             /\ req.providers <= FoldFunction(+, 0, req.networks)
  <2>1. StatsLeft
    BY <1>1 DEF IInv, StatsInv
  <2>2. PICK R \in SUBSET Payments :
          /\ Totalled(R) /\ Provided(R)
          /\ req.networks = [t \in Trips |-> Cardinality({p \in R : Trip[p] = t})]
    <3>1. <<>> # <<"totals", "providers", "networks">> /\ <<>> # <<"providers", "networks">>
          /\ <<>> # <<"networks">>
      OBVIOUS
    <3> QED
      BY <1>1, <2>1, <3>1, ZenonT(40) DEF StatsLeft
  <2>3. FoldFunction(+, 0, req.networks) = Cardinality(R)
    BY <2>2, NetworksAddUp, ZenonT(40)
  <2>4. /\ req.total = req.completed + req.processing + req.failed
        /\ req.total <= Cardinality(R) /\ req.providers <= Cardinality(R)
    BY <2>2, ZenonT(40) DEF Totalled, Provided
  <2> QED
    BY <2>3, <2>4, ZenonT(40)
<1>2. ASSUME IInv, req.kind = "timeseries"
      PROVE  \A b \in DOMAIN req.points : req.points[b] > 0 /\ b + req.size > req.at - MaxDays + 1
  BY <1>2 DEF IInv, SeriesInv
<1>3. IInv => DashboardConsistent
  BY <1>1, <1>2, ZenonT(40) DEF DashboardConsistent
<1> QED
  BY <1>3, AlwaysIInv, PTL

=============================================================================
