------------------------------ MODULE PaymentReads ------------------------------
(***************************************************************************)
(* The read endpoints: GET /payments, /payments/{id}, /dashboard/stats and *)
(* /dashboard/timeseries, while payments are being created and executed.   *)
(* Every query is a step of its own, none shares a snapshot with another,  *)
(* and a client pages through a listing with one request per page.         *)
(*                                                                         *)
(* One client makes one request (or listing): readers change nothing, so   *)
(* several do not disturb each other.  The writers are the statements of   *)
(* the payment pipeline and of testnet execution by one worker, in the     *)
(* orders their own modules allow.                                         *)
(***************************************************************************)
EXTENDS Integers, Sequences, FiniteSets, Functions

CONSTANTS
  Payments,      \* payment ids: numbers, ordered as PostgreSQL orders UUIDs
  Mode,          \* execution_mode of each payment
  Trip,          \* (source_chain, destination_chain) of each payment
  MaxClock,      \* bound: the last time the clock shows
  Unset,         \* a filter that is not set
  RawLimits,     \* values of ?limit=, Unset when absent
  DefaultLimit,  \* defaultListLimit
  MaxLimit,      \* maxListLimit
  RawDays,       \* values of ?days=, Unset when absent
  DefaultDays,   \* defaultTimeseriesDays
  MaxDays,       \* maxTimeseriesDays
  BucketSizes    \* what date_trunc rounds down to, in clock ticks

ASSUME PaymentsAssumption ==
  /\ Payments \subseteq Nat \ {0} /\ IsFiniteSet(Payments)
  /\ Mode \in [Payments -> {"simulated", "testnet"}]
  /\ DOMAIN Trip = Payments

ASSUME LimitsAssumption ==
  /\ {MaxClock, MaxLimit, MaxDays} \subseteq Nat \ {0}
  /\ DefaultLimit \in 1..MaxLimit /\ DefaultDays \in 1..MaxDays
  /\ RawLimits \subseteq Int \cup {Unset} /\ RawDays \subseteq Int \cup {Unset}
  /\ BucketSizes \subseteq Nat \ {0}

VARIABLES
  now,       \* the database's clock
  created,   \* created_at, 0 before the creating transaction began
  status,    \* payments.status, "NONE" until that transaction commits
  reason,    \* payments with a failure_reason
  ended,     \* payments with a completed_at
  exec,      \* how far the payment_executions row is
  req,       \* the request the client is in
  steady     \* ghost: rows that have matched the listing's filter all along

vars == <<now, created, status, reason, ended, exec, req, steady>>

Statuses == {"ROUTED", "PROCESSING", "SUBMITTED", "COMPLETED", "FAILED"}

InFlight == {"ROUTED", "PROCESSING", "SUBMITTED"}

\* No row; a nonce; signed_tx_hash; broadcast_at; external_status.
ExecStages == {"none", "created", "signed", "broadcast", "filled", "failed"}

Rows == {p \in Payments : status[p] # "NONE"}

NoRequest == [kind |-> "none"]

Init ==
  /\ now = 1
  /\ created = [p \in Payments |-> 0]
  /\ status = [p \in Payments |-> "NONE"]
  /\ reason = {}
  /\ ended = {}
  /\ exec = [p \in Payments |-> "none"]
  /\ req = NoRequest
  /\ steady = {}

-----------------------------------------------------------------------------
(***************************************************************************)
(* The writers.                                                            *)
(***************************************************************************)
Matches(f, p, s) ==
  /\ f.status \in {Unset, s}
  /\ f.mode \in {Unset, Mode[p]}

\* p's row changes to status s; a listing may lose sight of it.
SetStatus(p, s) ==
  /\ status' = [status EXCEPT ![p] = s]
  /\ steady' = IF req.kind = "list" /\ ~Matches(req.filter, p, s) THEN steady \ {p} ELSE steady

Tick ==
  /\ now < MaxClock
  /\ now' = now + 1
  /\ UNCHANGED <<created, status, reason, ended, exec, req, steady>>

\* created_at DEFAULT now(): the time the transaction began.
BeginCreate(p) ==
  /\ created[p] = 0
  /\ created' = [created EXCEPT ![p] = now]
  /\ UNCHANGED <<now, status, reason, ended, exec, req, steady>>

\* The transaction commits, and the payment is visible.
CommitCreate(p) ==
  /\ created[p] # 0
  /\ status[p] = "NONE"
  /\ SetStatus(p, "ROUTED")
  /\ UNCHANGED <<now, created, reason, ended, exec, req>>

ClaimPayment(p) ==
  /\ status[p] = "ROUTED"
  /\ SetStatus(p, "PROCESSING")
  /\ UNCHANGED <<now, created, reason, ended, exec, req>>

CompletePayment(p, terminal) ==
  /\ Mode[p] = "simulated"
  /\ status[p] = "PROCESSING"
  /\ SetStatus(p, terminal)
  /\ ended' = ended \cup {p}
  /\ UNCHANGED <<now, created, reason, exec, req>>

MarkProcessingFailed(p) ==
  /\ Mode[p] = "testnet"
  /\ status[p] = "PROCESSING"
  /\ exec[p] \in {"none", "created"}
  /\ SetStatus(p, "FAILED")
  /\ reason' = reason \cup {p}
  /\ UNCHANGED <<now, created, ended, exec, req>>

\* TryCreateExecution, PersistSignedExecution, MarkExecutionBroadcast and the
\* reconciler's UpdateExecutionExternalStatus, in this order only.
NextStages ==
  {<<"none", "created">>, <<"created", "signed">>, <<"signed", "broadcast">>,
   <<"broadcast", "filled">>, <<"broadcast", "failed">>}

WriteExecution(p, stage) ==
  /\ Mode[p] = "testnet"
  /\ <<exec[p], stage>> \in NextStages
  /\ status[p] = IF stage \in {"filled", "failed"} THEN "SUBMITTED" ELSE "PROCESSING"
  /\ exec' = [exec EXCEPT ![p] = stage]
  /\ UNCHANGED <<now, created, status, reason, ended, req, steady>>

MarkSubmitted(p) ==
  /\ status[p] = "PROCESSING"
  /\ exec[p] = "broadcast"
  /\ SetStatus(p, "SUBMITTED")
  /\ UNCHANGED <<now, created, reason, ended, exec, req>>

CompleteSubmittedPayment(p) ==
  /\ status[p] = "SUBMITTED"
  /\ exec[p] \in {"filled", "failed"}
  /\ SetStatus(p, IF exec[p] = "filled" THEN "COMPLETED" ELSE "FAILED")
  /\ ended' = ended \cup {p}
  /\ UNCHANGED <<now, created, reason, exec, req>>

Write ==
  \/ Tick
  \/ \E p \in Payments :
       \/ BeginCreate(p)
       \/ CommitCreate(p)
       \/ ClaimPayment(p)
       \/ \E terminal \in {"COMPLETED", "FAILED"} : CompletePayment(p, terminal)
       \/ MarkProcessingFailed(p)
       \/ \E stage \in ExecStages : WriteExecution(p, stage)
       \/ MarkSubmitted(p)
       \/ CompleteSubmittedPayment(p)

-----------------------------------------------------------------------------
(***************************************************************************)
(* GET /payments.                                                          *)
(***************************************************************************)
tables == <<now, created, status, reason, ended, exec>>

\* Mutant: ?limit= is not cut down.
EffectiveLimitUncapped(raw) ==
  IF raw = Unset THEN DefaultLimit ELSE IF raw < 1 THEN 0 ELSE raw

\* ?limit= below 1 is refused (0 here), one above the maximum is cut down.
EffectiveLimit(raw) ==
  IF raw = Unset THEN DefaultLimit
  ELSE IF raw < 1 THEN 0
  ELSE IF raw > MaxLimit THEN MaxLimit
  ELSE raw

Key(p) == <<created[p], p>>

Before(k, l) == k[1] < l[1] \/ (k[1] = l[1] /\ k[2] < l[2])

\* The cursor of a page's last row, and the key it stands for: RFC3339Nano
\* keeps every digit of a timestamptz, and an id has no comma.
EncodeCursor(p) == [kind |-> "cursor", text |-> Key(p)]

DecodeCursor(c) == c.text

FirstPage == [kind |-> "first"]

Garbled == [kind |-> "garbled"]

\* Mutant: the cursor is compared on created_at alone.
AfterCursorTime(c, p) == c = FirstPage \/ created[p] < DecodeCursor(c)[1]

AfterCursor(c, p) == c = FirstPage \/ Before(Key(p), DecodeCursor(c))

\* Mutant: newest first, rows of one instant in the order of their ids.
SortRowsUp(S) ==
  CHOOSE rows \in [1..Cardinality(S) -> S] :
    \A i, j \in DOMAIN rows : i < j =>
      \/ created[rows[i]] > created[rows[j]]
      \/ created[rows[i]] = created[rows[j]] /\ rows[i] < rows[j]

\* ORDER BY created_at DESC, id DESC
SortRows(S) ==
  CHOOSE rows \in [1..Cardinality(S) -> S] :
    \A i, j \in DOMAIN rows : i < j => Before(Key(rows[j]), Key(rows[i]))

\* A page and the cursor of the next: one row more than the limit is read, to
\* know whether there is one.
Page(f, limit, cursor) ==
  LET rows == SortRows({p \in Rows : Matches(f, p, status[p]) /\ AfterCursor(cursor, p)})
  IN IF Len(rows) > limit
       THEN [rows |-> SubSeq(rows, 1, limit), next |-> EncodeCursor(rows[limit])]
       ELSE [rows |-> rows, next |-> FirstPage]

\* The status and execution_mode parameters that the handler accepts.
ValidFilter(f) ==
  /\ f.status \in Statuses \cup {Unset}
  /\ f.mode \in {"simulated", "testnet", Unset}

\* The client starts to list; a limit, status, mode or cursor that is not valid
\* is a 400.
StartList(f, raw, cursor) ==
  /\ req.kind = "none"
  /\ IF EffectiveLimit(raw) = 0 \/ ~ValidFilter(f) \/ cursor = Garbled
       THEN req' = [kind |-> "refused"] /\ UNCHANGED steady
       ELSE LET page == Page(f, EffectiveLimit(raw), cursor)
            IN /\ req' = [kind |-> "list", filter |-> f, limit |-> EffectiveLimit(raw),
                          cursor |-> page.next, seen |-> [i \in DOMAIN page.rows |-> Key(page.rows[i])]]
               /\ steady' = {p \in Rows : Matches(f, p, status[p])}
  /\ UNCHANGED tables

\* The client asks for the next page with the cursor it was given.
ListPayments ==
  /\ req.kind = "list"
  /\ req.cursor # FirstPage
  /\ LET page == Page(req.filter, req.limit, req.cursor)
     IN req' = [req EXCEPT !.cursor = page.next,
                           !.seen = @ \o [i \in DOMAIN page.rows |-> Key(page.rows[i])]]
  /\ UNCHANGED <<tables, steady>>

-----------------------------------------------------------------------------
(***************************************************************************)
(* GET /payments/{id}.                                                     *)
(***************************************************************************)
\* Mutant: the execution row is read first.
DetailReadsSwapped == <<"execution", "payment">>

\* The statements of the handler, each on its own.  The hops are read between
\* these two and never change.
DetailReads == <<"payment", "execution">>

Unread == [status |-> "NONE", reason |-> FALSE, ended |-> FALSE]

StartDetail(p) ==
  /\ req.kind = "none"
  /\ req' = [kind |-> "detail", id |-> p, left |-> DetailReads, payment |-> Unread,
             execution |-> "none"]
  /\ UNCHANGED <<tables, steady>>

GetPayment ==
  /\ req.kind = "detail"
  /\ req.left # <<>>
  /\ LET p == req.id
     IN \/ /\ Head(req.left) = "payment"
           /\ p \notin Rows
           /\ req' = [kind |-> "refused"]
        \/ /\ Head(req.left) = "payment"
           /\ p \in Rows
           /\ req' = [req EXCEPT !.left = Tail(@),
                        !.payment = [status |-> status[p], reason |-> p \in reason,
                                     ended |-> p \in ended]]
        \/ /\ Head(req.left) = "execution"
           /\ req' = [req EXCEPT !.left = Tail(@), !.execution = exec[p]]
  /\ UNCHANGED <<tables, steady>>

\* The fields of the answer: external_tx_hash, submitted_at and whether
\* external_status is final.
toPaymentResponse(r) ==
  [status |-> r.payment.status,
   explained |-> r.payment.reason \/ r.payment.ended,
   txHash |-> r.execution \notin {"none", "created"},
   submittedAt |-> r.execution \notin {"none", "created", "signed"},
   final |-> r.execution \in {"filled", "failed"}]

-----------------------------------------------------------------------------
(***************************************************************************)
(* GET /dashboard/stats and /dashboard/timeseries.                         *)
(***************************************************************************)
\* Mutant: the totals are read last.
StatsReadsSwapped == <<"providers", "networks", "totals">>

StatsReads == <<"totals", "providers", "networks">>

StartStats ==
  /\ req.kind = "none"
  /\ req' = [kind |-> "stats", left |-> StatsReads, total |-> 0, completed |-> 0,
             processing |-> 0, failed |-> 0, providers |-> 0,
             networks |-> [t \in {Trip[p] : p \in Payments} |-> 0]]
  /\ UNCHANGED <<tables, steady>>

CountStatus(S) == Cardinality({p \in Rows : status[p] \in S})

\* Three aggregations.  bridge_provider is set on testnet payments only.
GetDashboardStats ==
  /\ req.kind = "stats"
  /\ req.left # <<>>
  /\ \/ /\ Head(req.left) = "totals"
        /\ req' = [req EXCEPT !.left = Tail(@), !.total = Cardinality(Rows),
                              !.completed = CountStatus({"COMPLETED"}),
                              !.processing = CountStatus(InFlight),
                              !.failed = CountStatus({"FAILED"})]
     \/ /\ Head(req.left) = "providers"
        /\ req' = [req EXCEPT !.left = Tail(@),
                              !.providers = Cardinality({p \in Rows : Mode[p] = "testnet"})]
     \/ /\ Head(req.left) = "networks"
        /\ req' = [req EXCEPT !.left = Tail(@),
                              !.networks = [t \in DOMAIN @ |->
                                              Cardinality({p \in Rows : Trip[p] = t})]]
  /\ UNCHANGED <<tables, steady>>

EffectiveDays(raw) ==
  IF raw = Unset THEN DefaultDays
  ELSE IF raw < 1 THEN 0
  ELSE IF raw > MaxDays THEN MaxDays
  ELSE raw

Truncated(size, t) == (t \div size) * size

\* One aggregation: the buckets that are not empty, in order.
GetTimeseries(raw, size) ==
  /\ req.kind = "none"
  /\ LET window == {p \in Rows : created[p] > now - EffectiveDays(raw)}
         buckets == {Truncated(size, created[p]) : p \in window}
     IN req' = IF EffectiveDays(raw) = 0
                 THEN [kind |-> "refused"]
                 ELSE [kind |-> "timeseries", at |-> now, size |-> size,
                       points |-> [b \in buckets |->
                         Cardinality({p \in window : Truncated(size, created[p]) = b})]]
  /\ UNCHANGED <<tables, steady>>

Read ==
  \/ \E s \in Statuses \cup {Unset, "bogus"}, m \in {"simulated", "testnet", Unset, "bogus"},
        raw \in RawLimits, cursor \in {FirstPage, Garbled} :
       StartList([status |-> s, mode |-> m], raw, cursor)
  \/ ListPayments
  \/ \E p \in Payments : StartDetail(p)
  \/ GetPayment
  \/ StartStats
  \/ GetDashboardStats
  \/ \E raw \in RawDays, size \in BucketSizes : GetTimeseries(raw, size)

Next == Write \/ Read

Spec == Init /\ [][Next]_vars

-----------------------------------------------------------------------------
\* The type invariant.  What the writers rely on: only a testnet payment that
\* was PROCESSING has an execution row.
TypeOK ==
  /\ now \in 1..MaxClock
  /\ created \in [Payments -> 0..MaxClock]
  /\ status \in [Payments -> Statuses \cup {"NONE"}]
  /\ exec \in [Payments -> ExecStages]
  /\ reason \subseteq Rows
  /\ ended \subseteq Rows
  /\ steady \subseteq Rows
  /\ req.kind \in {"none", "refused", "list", "detail", "stats", "timeseries"}
  /\ req.kind = "list" => req.limit \in 1..MaxLimit

\* The doc comment of ListPayments: newest first.  This holds over all the
\* pages of a listing together, so no payment is listed twice, whatever is
\* created or moves on between the pages.
NewestFirst ==
  req.kind = "list" =>
    \A i \in 2..Len(req.seen) : Before(req.seen[i], req.seen[i - 1])

\* When the last page has been read, every payment that was there when the
\* listing began, and has matched its filter ever since, has been listed: also
\* when others were created in the same microsecond, or committed later than
\* payments that began after them.
ListingComplete ==
  req.kind = "list" /\ req.cursor = FirstPage =>
    \A p \in steady : \E i \in DOMAIN req.seen : req.seen[i] = Key(p)

\* An answer that says a testnet payment was submitted carries the hash of its
\* transaction and the time it was sent, one that says it completed carries a
\* final external_status too, although the two rows are read without a common
\* snapshot; and an answer that says FAILED has a failure_reason or a
\* completed_at to show for it.
AnswerHasItsTransaction ==
  req.kind = "detail" /\ req.left = <<>> =>
    LET a == toPaymentResponse(req)
    IN /\ a.status = "SUBMITTED" => a.txHash /\ a.submittedAt
       /\ a.status = "COMPLETED" /\ Mode[req.id] = "testnet" => a.txHash /\ a.submittedAt /\ a.final
       /\ a.status \in {"COMPLETED", "FAILED"} => a.explained

\* The dashboard's numbers fit together although three queries made them: the
\* totals are the sum of their parts, and a later breakdown never shows fewer
\* payments than they do, nor more by providers than by networks.  A timeseries
\* never reaches back further than maxTimeseriesDays, whatever was asked for: its
\* oldest bucket holds a payment of that window.
DashboardConsistent ==
  /\ req.kind = "stats" /\ req.left = <<>> =>
       LET networks == FoldFunction(+, 0, req.networks)
       IN /\ req.total = req.completed + req.processing + req.failed
          /\ req.total <= networks
          /\ req.providers <= networks
  /\ req.kind = "timeseries" =>
       \A b \in DOMAIN req.points :
         /\ req.points[b] > 0
         /\ b + req.size > req.at - MaxDays + 1

=============================================================================
