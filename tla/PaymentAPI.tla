------------------------------- MODULE PaymentAPI -------------------------------
(***************************************************************************)
(* POST /payments: the API handler, the idempotency protocol of the        *)
(* payments table, the connection pool and the calls to the bridge quote   *)
(* providers and the routing service, with any number of requests in       *)
(* flight (one goroutine each, over one or several API servers).           *)
(*                                                                         *)
(* A database statement outside a transaction is one step and needs a free *)
(* connection for its duration; a transaction holds its connection from    *)
(* BeginTx to Commit or Rollback.  The statements inside the creating      *)
(* transaction after the INSERT touch only rows of the new payment, which  *)
(* nobody else can see, so they are one step with the commit.  An INSERT   *)
(* under a key some open transaction has inserted waits for that           *)
(* transaction, as ON CONFLICT on a unique index does in PostgreSQL.       *)
(*                                                                         *)
(* The routing service and the providers answer anything at any time: both *)
(* may be down for as long as they like.                                   *)
(***************************************************************************)
EXTENDS Integers, Sequences, FiniteSets

CONSTANTS
  Requests,         \* HTTP requests; a client's retry is another request
  Keys,             \* Idempotency-Key headers, after TrimSpace
  Bodies,           \* request bodies: [trip, amount, mode]
  Malformed,        \* the bodies the validation refuses
  TestnetTrips,     \* trips testnet mode has chain ids, asset and providers for
  MaxTestnetAmount, \* MaxTestnetAmountWei
  Providers,        \* the QuoteRegistry's providers, in registration order
  Fees,             \* FeeBaseUnits a provider may quote
  FloatStep,        \* base units between neighbouring float64 fees
  SimBridges,       \* bridge names of the simulated network
  NoBridge,         \* "no bridge": no route yet, or a NULL bridge_provider
  NoPayment,        \* "no payment" in an answer that names none
  MaxOpenConns,     \* db.SetMaxOpenConns
  MaxFaults         \* bound: database errors and vanished clients in all

Trips == {b.trip : b \in Bodies}

ProviderNames == {Providers[i] : i \in DOMAIN Providers}

\* An amount is its value and the number of fractional digits it is written
\* with: "1", "1.0" and "1.00" differ as texts only.
ASSUME BodiesAssumption ==
  /\ \A b \in Bodies : /\ DOMAIN b = {"trip", "amount", "mode"}
                       /\ DOMAIN b.amount = {"value", "scale"}
                       /\ b.amount.value \in Nat
                       /\ b.mode \in {"simulated", "testnet"}
  /\ Malformed \subseteq Bodies

ASSUME ProvidersAssumption ==
  /\ Providers \in Seq(ProviderNames)
  /\ \A i, j \in DOMAIN Providers : Providers[i] = Providers[j] => i = j
  /\ Fees \subseteq Int
  /\ FloatStep \in Nat \ {0}
  /\ NoBridge \notin ProviderNames \cup SimBridges

ASSUME PoolAssumption ==
  /\ IsFiniteSet(Requests)
  /\ MaxOpenConns \in Nat \ {0}
  /\ MaxFaults \in Nat
  /\ NoPayment \notin Requests

VARIABLES
  pc,        \* where each request's goroutine is
  key,       \* the request's idempotency key
  body,      \* the request's body
  quotes,    \* fee of each provider (by index) with an available quote
  hop,       \* bridge of the route's first hop
  answer,    \* what the client was told: [code, id]
  payments,  \* committed rows of payments
  hops,      \* committed rows of payment_route_hops: [id, bridge]
  stored,    \* committed rows of payment_quotes: [id, provider, fee, selected]
  outbox,    \* ids with a committed row in outbox_events
  late,      \* ghost: requests received after their key's payment committed
  faults     \* bound: faults so far

requestVars == <<pc, key, body, quotes, hop, answer>>
tables == <<payments, hops, stored, outbox>>
vars == <<pc, key, body, quotes, hop, answer, payments, hops, stored, outbox, late, faults>>

\* A request ends "answered", or "gone" when its client was never answered.
Active == {"lookup", "quoting", "routing", "precheck", "begin", "insert", "commit", "reread"}

\* A transaction is open, and holds a connection, from BeginTx on.
InTx == {r \in Requests : pc[r] \in {"insert", "commit"}}

FreeConn == Cardinality(InTx) < MaxOpenConns

\* Rows inserted and not yet committed, by key: what an INSERT waits for.
Inserted(k) == {r \in Requests : pc[r] = "commit" /\ key[r] = k}

Codes == {200, 201, 400, 409, 422, 500, 503, 504}

NoQuotes == [i \in {} |-> 0]

NotAnswered == [code |-> 0, id |-> NoPayment]

Init ==
  /\ pc = [r \in Requests |-> "idle"]
  /\ key \in [Requests -> Keys]
  /\ body \in [Requests -> Bodies]
  /\ quotes = [r \in Requests |-> NoQuotes]
  /\ hop = [r \in Requests |-> NoBridge]
  /\ answer = [r \in Requests |-> NotAnswered]
  /\ payments = {}
  /\ hops = {}
  /\ stored = {}
  /\ outbox = {}
  /\ late = {}
  /\ faults = 0

Goto(r, l) == pc' = [pc EXCEPT ![r] = l] /\ UNCHANGED answer

Advance(r, l) == Goto(r, l) /\ UNCHANGED <<quotes, hop>>

\* The handler returns, and its local variables with it.
Return(r) ==
  /\ quotes' = [quotes EXCEPT ![r] = NoQuotes]
  /\ hop' = [hop EXCEPT ![r] = NoBridge]

Reply(r, code, id) ==
  /\ pc' = [pc EXCEPT ![r] = "answered"]
  /\ answer' = [answer EXCEPT ![r] = [code |-> code, id |-> id]]
  /\ Return(r)

-----------------------------------------------------------------------------
\* findByIdempotencyKey: the committed row under the key, and whether it is
\* the same logical request.
RowOf(k) == {p \in payments : p.key = k}

\* Mutant: amounts compared as text; amount::text has all 18 digits.
MatchesText(p, b) ==
  /\ p.trip = b.trip
  /\ b.amount = [value |-> p.amount, scale |-> 18]
  /\ p.mode = b.mode

\* payments.amount is NUMERIC: amounts are compared by value, however written.
Matches(p, b) ==
  /\ p.trip = b.trip
  /\ p.amount = b.amount.value
  /\ p.mode = b.mode

\* The Replayed and Conflict outcomes of a key that has a row.
\* The hops of a replayed payment, a second query, never change.
ReplyFromRow(r) ==
  \E p \in RowOf(key[r]) :
    IF Matches(p, body[r]) THEN Reply(r, 200, p.id) ELSE Reply(r, 409, NoPayment)

-----------------------------------------------------------------------------
\* PostPayments receives the request; a malformed one is refused.
Receive(r) ==
  /\ pc[r] = "idle"
  /\ IF body[r] \in Malformed
       THEN Reply(r, 400, NoPayment)
       ELSE Advance(r, "lookup")
  /\ late' = IF RowOf(key[r]) = {} THEN late ELSE late \cup {r}
  /\ UNCHANGED <<key, body, tables, faults>>

TestnetAccepted(b) == b.trip \in TestnetTrips /\ b.amount.value <= MaxTestnetAmount

\* Mutant: no lookup before the calls to the providers and the router.
LookupSkipped(r) ==
  /\ pc[r] = "lookup"
  /\ Advance(r, IF body[r].mode = "testnet" THEN "quoting" ELSE "routing")
  /\ UNCHANGED <<key, body, tables, late, faults>>

\* LookupByIdempotencyKey, before anything is asked of the providers or the
\* routing service; then the checks of testnet mode.
Lookup(r) ==
  /\ pc[r] = "lookup"
  /\ FreeConn
  /\ \/ ReplyFromRow(r)
     \/ /\ RowOf(key[r]) = {}
        /\ body[r].mode = "simulated"
        /\ Advance(r, "routing")
     \/ /\ RowOf(key[r]) = {}
        /\ body[r].mode = "testnet"
        /\ IF TestnetAccepted(body[r])
             THEN Advance(r, "quoting")
             ELSE Reply(r, 400, NoPayment)
  /\ UNCHANGED <<key, body, tables, late, faults>>

QuoteAnswers ==
  [kind : {"error", "unavailable"}, fee : {0}] \cup [kind : {"quoted"}, fee : Fees]

\* The candidate edges: the fee of every available quote, in index order
\* whatever order the answers arrived in.
CandidateEdges(q) == [i \in {j \in DOMAIN q : q[j].kind = "quoted"} |-> q[i].fee]

\* Every provider is asked at once, under one timeout; an answer that is late
\* is an error.
GetQuotes(r) ==
  /\ pc[r] = "quoting"
  /\ \E q \in [DOMAIN Providers -> QuoteAnswers] :
       \/ /\ \A i \in DOMAIN q : q[i].kind = "error"
          /\ Reply(r, 503, NoPayment)
       \/ /\ \A i \in DOMAIN q : q[i].kind # "quoted"
          /\ \E i \in DOMAIN q : q[i].kind = "unavailable"
          /\ Reply(r, 422, NoPayment)
       \/ /\ \E i \in DOMAIN q : q[i].kind = "quoted"
          /\ quotes' = [quotes EXCEPT ![r] = CandidateEdges(q)]
          /\ Goto(r, "routing")
          /\ UNCHANGED hop
  /\ UNCHANGED <<key, body, tables, late, faults>>

\* A fee as the float64 the routing service compares: base units closer than
\* the precision of a float64 become one number.
FeeFloat(fee) == fee \div FloatStep

\* The route over parallel candidate edges: the first of the cheapest.
CheapestEdge(edges) ==
  CHOOSE i \in DOMAIN edges :
    \A j \in DOMAIN edges :
      \/ FeeFloat(edges[i]) < FeeFloat(edges[j])
      \/ FeeFloat(edges[i]) = FeeFloat(edges[j]) /\ i <= j

\* The HTTP status of a failed FindRoute: InvalidArgument, Unavailable,
\* DeadlineExceeded, anything else.
RoutingErrors == {400, 503, 504, 500}

\* FindRoute: an error, no route, or the bridge of the first hop.  A testnet
\* request is routed over its candidate edges, which always hold a route.
FindRoute(r) ==
  /\ pc[r] = "routing"
  /\ \/ \E code \in RoutingErrors : Reply(r, code, NoPayment)
     \/ /\ body[r].mode = "simulated"
        /\ \/ Reply(r, 422, NoPayment)
           \/ /\ \E b \in SimBridges : hop' = [hop EXCEPT ![r] = b]
              /\ Goto(r, "precheck")
              /\ UNCHANGED quotes
     \/ /\ body[r].mode = "testnet"
        /\ hop' = [hop EXCEPT ![r] = Providers[CheapestEdge(quotes[r])]]
        /\ Goto(r, "precheck")
        /\ UNCHANGED quotes
  /\ UNCHANGED <<key, body, tables, late, faults>>

-----------------------------------------------------------------------------
\* CreateOrGetPayment: the pre-check.
PreCheck(r) ==
  /\ pc[r] = "precheck"
  /\ FreeConn
  /\ \/ ReplyFromRow(r)
     \/ RowOf(key[r]) = {} /\ Advance(r, "begin")
  /\ UNCHANGED <<key, body, tables, late, faults>>

\* Mutant: a pool without a limit.
BeginTxUnlimited(r) ==
  /\ pc[r] = "begin"
  /\ Advance(r, "insert")
  /\ UNCHANGED <<key, body, tables, late, faults>>

\* BeginTx takes a connection of the pool, or waits for one.
BeginTx(r) ==
  /\ pc[r] = "begin"
  /\ FreeConn
  /\ Advance(r, "insert")
  /\ UNCHANGED <<key, body, tables, late, faults>>

\* Mutant: the INSERT does not wait for an open transaction on the key.
InsertPaymentNoWait(r) ==
  /\ pc[r] = "insert"
  /\ Advance(r, IF RowOf(key[r]) = {} THEN "commit" ELSE "reread")
  /\ UNCHANGED <<key, body, tables, late, faults>>

\* Mutant: a lost race re-reads, on a second connection, before it rolls back.
InsertPaymentReReads(r) ==
  /\ pc[r] = "insert"
  /\ Inserted(key[r]) = {}
  /\ \/ RowOf(key[r]) = {} /\ Advance(r, "commit")
     \/ FreeConn /\ ReplyFromRow(r)
  /\ UNCHANGED <<key, body, tables, late, faults>>

\* INSERT ... ON CONFLICT (idempotency_key) DO NOTHING.  A request that lost
\* the race rolls back, which returns its connection, before it re-reads.
InsertPayment(r) ==
  /\ pc[r] = "insert"
  /\ Inserted(key[r]) = {}
  /\ Advance(r, IF RowOf(key[r]) = {} THEN "commit" ELSE "reread")
  /\ UNCHANGED <<key, body, tables, late, faults>>

\* The re-read after a lost race.  Finding no row is an error.
ReRead(r) ==
  /\ pc[r] = "reread"
  /\ FreeConn
  /\ IF RowOf(key[r]) = {} THEN Reply(r, 500, NoPayment) ELSE ReplyFromRow(r)
  /\ UNCHANGED <<key, body, tables, late, faults>>

\* The rows the creating transaction writes.  The payment's id is the request
\* that created it; amount becomes a NUMERIC.
PaymentRow(r) ==
  [id |-> r, key |-> key[r], trip |-> body[r].trip, amount |-> body[r].amount.value,
   mode |-> body[r].mode,
   provider |-> IF body[r].mode = "testnet" THEN hop[r] ELSE NoBridge]

\* Mutant: the selected quote is the one with the least fee in base units.
QuoteRowsLeastFee(r) ==
  {[id |-> r, provider |-> Providers[i], fee |-> quotes[r][i],
    selected |-> \A j \in DOMAIN quotes[r] :
                   quotes[r][i] < quotes[r][j] \/ (quotes[r][i] = quotes[r][j] /\ i <= j)]
     : i \in DOMAIN quotes[r]}

QuoteRows(r) ==
  {[id |-> r, provider |-> Providers[i], fee |-> quotes[r][i],
    selected |-> Providers[i] = hop[r]] : i \in DOMAIN quotes[r]}

\* Mutant: the outbox row is left to a second transaction.
WriteRowsNoOutbox(r) ==
  /\ payments' = payments \cup {PaymentRow(r)}
  /\ hops' = hops \cup {[id |-> r, bridge |-> hop[r]]}
  /\ stored' = stored \cup QuoteRows(r)
  /\ UNCHANGED outbox

\* Payment, hops, quotes and outbox event become visible together.
WriteRows(r) ==
  /\ payments' = payments \cup {PaymentRow(r)}
  /\ hops' = hops \cup {[id |-> r, bridge |-> hop[r]]}
  /\ stored' = stored \cup QuoteRows(r)
  /\ outbox' = outbox \cup {r}

Commit(r) ==
  /\ pc[r] = "commit"
  /\ WriteRows(r)
  /\ Reply(r, 201, r)
  /\ UNCHANGED <<key, body, late, faults>>

-----------------------------------------------------------------------------
\* Faults.  A statement fails: whatever transaction is open rolls back and
\* the client reads 500.
DbError(r) ==
  /\ pc[r] \in {"lookup", "precheck", "begin", "insert", "commit", "reread"}
  /\ faults < MaxFaults
  /\ faults' = faults + 1
  /\ Reply(r, 500, NoPayment)
  /\ UNCHANGED <<key, body, tables, late>>

\* COMMIT reports an error after the server applied it.
CommitAppliedButFailed(r) ==
  /\ pc[r] = "commit"
  /\ faults < MaxFaults
  /\ faults' = faults + 1
  /\ WriteRows(r)
  /\ Reply(r, 500, NoPayment)
  /\ UNCHANGED <<key, body, late>>

\* The client disconnects, or the server dies, and nobody is answered: the
\* request's context is cancelled and its transaction rolls back, unless the
\* COMMIT was already on its way.
Vanish(r) ==
  /\ pc[r] \in Active
  /\ faults < MaxFaults
  /\ faults' = faults + 1
  /\ Goto(r, "gone")
  /\ Return(r)
  /\ \/ UNCHANGED tables
     \/ pc[r] = "commit" /\ WriteRows(r)
  /\ UNCHANGED <<key, body, late>>

Step(r) ==
  \/ Lookup(r)
  \/ GetQuotes(r)
  \/ FindRoute(r)
  \/ PreCheck(r)
  \/ BeginTx(r)
  \/ InsertPayment(r)
  \/ ReRead(r)
  \/ Commit(r)

Fault(r) == DbError(r) \/ CommitAppliedButFailed(r) \/ Vanish(r)

Next == \E r \in Requests : Receive(r) \/ Step(r) \/ Fault(r)

Spec == Init /\ [][Next]_vars

-----------------------------------------------------------------------------
\* Every variable has its type, and the open transactions hold no more
\* connections than the pool of cmd/server has.
TypeOK ==
  /\ pc \in [Requests -> {"idle", "answered", "gone"} \cup Active]
  /\ key \in [Requests -> Keys]
  /\ body \in [Requests -> Bodies]
  /\ quotes \in [Requests -> UNION {[S -> Fees] : S \in SUBSET DOMAIN Providers}]
  /\ hop \in [Requests -> ProviderNames \cup SimBridges \cup {NoBridge}]
  /\ answer \in [Requests -> [code : {0} \cup Codes, id : Requests \cup {NoPayment}]]
  /\ payments \subseteq [id : Requests, key : Keys, trip : Trips, amount : Nat,
                         mode : {"simulated", "testnet"},
                         provider : ProviderNames \cup {NoBridge}]
  /\ hops \subseteq [id : Requests, bridge : ProviderNames \cup SimBridges]
  /\ stored \subseteq [id : Requests, provider : ProviderNames, fee : Fees,
                       selected : BOOLEAN]
  /\ outbox \subseteq Requests
  /\ late \subseteq Requests
  /\ faults \in 0..MaxFaults
  /\ Cardinality(InTx) <= MaxOpenConns

\* PostPayments is idempotent: however the requests under one key interleave,
\* fail and are retried, at most one payment exists for the key, every 201 and
\* 200 names that payment, and it was made from the same logical request.
OnePaymentPerKey ==
  /\ \A p, q \in payments : p.key = q.key => p = q
  /\ \A r \in Requests : answer[r].code \in {200, 201} =>
       \E p \in payments : /\ p.id = answer[r].id
                           /\ p.key = key[r]
                           /\ p.trip = body[r].trip
                           /\ p.amount = body[r].amount.value
                           /\ p.mode = body[r].mode

\* A client is told 409 only when its key belongs to a payment of another
\* request: a retry that spells the amount differently is no conflict.
ConflictIsReal ==
  \A r \in Requests : answer[r].code = 409 =>
    \E p \in payments :
      /\ p.key = key[r]
      /\ <<p.trip, p.amount, p.mode>> # <<body[r].trip, body[r].amount.value, body[r].mode>>

\* The comment on the early lookup: a retry of an already committed payment
\* resolves to 200 or 409 even when the routing service (or a provider) is
\* down.  Only a refused body or a database error can give it another answer.
RetryNeedsNoRouting ==
  \A r \in late : answer[r].code \in {0, 200, 400, 409, 500}
                  /\ (answer[r].code = 400 => body[r] \in Malformed)
                  /\ (answer[r].code = 500 => faults > 0)

\* A committed payment is complete whatever failed around it: it has its hop
\* and its outbox event, so the worker will be told of it; and no hop, quote
\* or event exists without its payment.
PaymentIsComplete ==
  LET ids == {p.id : p \in payments}
  IN /\ ids = {h.id : h \in hops}
     /\ ids = outbox
     /\ {q.id : q \in stored} = {p.id : p \in {x \in payments : x.mode = "testnet"}}

\* GetQuoteByPaymentID will find exactly one selected quote for a testnet
\* payment: that of the provider the payment row and its hop name, and no
\* stored quote of the payment is cheaper by more than a float64 can tell.
SelectedQuoteExecutes ==
  \A p \in payments : p.mode = "testnet" =>
    \E q \in stored :
      /\ q.id = p.id /\ q.selected
      /\ q.provider = p.provider
      /\ [id |-> p.id, bridge |-> q.provider] \in hops
      /\ \A o \in stored : o.id = p.id /\ o # q =>
           ~o.selected /\ o.provider # q.provider /\ q.fee < o.fee + FloatStep

\* Nobody waits for ever: while a request is unanswered, some request can take
\* its next step, however many share the pool and the key.  Every step takes a
\* request closer to its answer, so a wait ends: for a connection, or for the
\* transaction that has inserted the same key.
NobodyStalls ==
  (\E r \in Requests : pc[r] \in Active) => \E r \in Requests : ENABLED Step(r)

=============================================================================
