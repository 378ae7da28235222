---------------------------- MODULE PaymentAPIProofs ----------------------------
(***************************************************************************)
(* Proofs about PaymentAPI, for any number of requests, keys, bodies,      *)
(* providers, connections and faults.                                      *)
(***************************************************************************)
EXTENDS PaymentAPI, TLAPS

\* A leaf may wait for its turn: the limits are above the default ones.
USE SMTT(20), ZenonT(20)

\* The functions of the requests, and the counter of faults.
Shapes ==
  /\ DOMAIN pc = Requests
  /\ DOMAIN answer = Requests
  /\ DOMAIN quotes = Requests
  /\ faults \in Nat

\* A key has one row, or one open transaction that has inserted one, or none.
KeyInv ==
  /\ \A p, q \in payments : p.key = q.key => p = q
  /\ \A r \in Requests : pc[r] = "commit" => RowOf(key[r]) = {}
  /\ \A r, s \in Requests :
       pc[r] = "commit" /\ pc[s] = "commit" /\ key[r] = key[s] => r = s

\* The row that request r is told the id of.
Confirmed(r, id, rows) ==
  \E p \in rows : /\ p.id = id
                  /\ p.key = key[r]
                  /\ p.trip = body[r].trip
                  /\ p.amount = body[r].amount.value
                  /\ p.mode = body[r].mode

\* A row of r's key that was made from another request.
Conflicting(r, rows) ==
  \E p \in rows :
    /\ p.key = key[r]
    /\ <<p.trip, p.amount, p.mode>> # <<body[r].trip, body[r].amount.value, body[r].mode>>

\* An answer is given once, and what it says of the table is so.
AnswerInv ==
  \A r \in Requests :
    /\ pc[r] # "answered" => answer[r].code = 0
    /\ answer[r].code \in {200, 201} => Confirmed(r, answer[r].id, payments)
    /\ answer[r].code = 409 => Conflicting(r, payments)

\* A testnet request has quotes, and a simulated one none, when it commits.
QuoteInv ==
  \A r \in Requests :
    /\ pc[r] \in {"idle", "lookup", "quoting"} => DOMAIN quotes[r] = {}
    /\ pc[r] = "quoting" => body[r].mode = "testnet"
    /\ pc[r] \in {"routing", "precheck", "begin", "insert", "commit"} =>
         (DOMAIN quotes[r] # {} <=> body[r].mode = "testnet")

\* A late request goes no further than the lookup.
LateInv ==
  /\ late \subseteq Requests
  /\ \A r \in late : RowOf(key[r]) # {} /\ pc[r] \in {"lookup", "answered", "gone"}

\* The inductive invariant.
IInv ==
  /\ Shapes
  /\ KeyInv
  /\ AnswerInv
  /\ QuoteInv
  /\ LateInv
  /\ PaymentIsComplete
  /\ RetryNeedsNoRouting

-----------------------------------------------------------------------------
\* Initially there are no rows and no answers.
LEMMA InitIInv == Init => IInv
<1> SUFFICES ASSUME Init
             PROVE  IInv
  OBVIOUS
<1>1. Shapes
  BY DEF Init, Shapes
<1>2. KeyInv
  BY DEF Init, KeyInv
<1>3. AnswerInv
  BY DEF Init, AnswerInv, NotAnswered
<1>4. QuoteInv
  BY DEF Init, QuoteInv, NoQuotes
<1>5. LateInv /\ RetryNeedsNoRouting
  BY DEF Init, LateInv, RetryNeedsNoRouting
<1>6. PaymentIsComplete
  BY DEF Init, PaymentIsComplete
<1> QED
  BY <1>1, <1>2, <1>3, <1>4, <1>5, <1>6 DEF IInv

\* The tables as they are, and the requests too.
Kept == UNCHANGED <<key, body, payments, hops, stored, outbox>>

\* A request moves on without an answer.  It may not enter "commit" while its
\* key is taken, nor leave the lookup when it is late.
Moves(r, l) ==
  /\ pc' = [pc EXCEPT ![r] = l] /\ UNCHANGED <<answer, late>> /\ Kept
  /\ faults' \in Nat /\ faults' >= faults
  /\ pc[r] # "answered" /\ l # "answered" /\ l # "idle"
  /\ l = "commit" => RowOf(key[r]) = {} /\ Inserted(key[r]) = {}
  /\ r \in late => l \in {"lookup", "gone"}
  /\ QuoteInv' /\ DOMAIN quotes' = Requests

\* Answers stay true while the tables stay.
LEMMA AnswersStable ==
  ASSUME AnswerInv, UNCHANGED <<key, body, payments, answer>>,
         \A s \in Requests : pc'[s] # "answered" => pc[s] # "answered"
  PROVE  AnswerInv'
<1> SUFFICES ASSUME NEW s \in Requests
             PROVE  /\ pc'[s] # "answered" => answer'[s].code = 0
                    /\ answer'[s].code \in {200, 201} => Confirmed(s, answer[s].id, payments)'
                    /\ answer'[s].code = 409 => Conflicting(s, payments)'
  BY DEF AnswerInv
<1>1. pc'[s] # "answered" => answer'[s].code = 0
  BY DEF AnswerInv
<1>2. ASSUME answer'[s].code \in {200, 201}
      PROVE  Confirmed(s, answer[s].id, payments)'
  BY <1>2 DEF AnswerInv, Confirmed
<1>3. ASSUME answer'[s].code = 409
      PROVE  Conflicting(s, payments)'
  BY <1>3 DEF AnswerInv, Conflicting
<1> QED
  BY <1>1, <1>2, <1>3

\* Such a move keeps the invariant.
LEMMA GotoKeeps ==
  ASSUME IInv, NEW r \in Requests, NEW l, Moves(r, l)
  PROVE  IInv'
<1> USE DEF Moves
<1>1. Shapes'
  BY DEF IInv, Shapes
<1>2. KeyInv'
  BY DEF IInv, Shapes, KeyInv, Kept, RowOf, Inserted
<1>3. AnswerInv'
  <2>1. \A s \in Requests : pc'[s] # "answered" => pc[s] # "answered"
    BY DEF IInv, Shapes
  <2> QED
    BY <2>1, AnswersStable DEF IInv, Kept
<1>4. LateInv'
  BY DEF IInv, Shapes, LateInv, Kept, RowOf
<1>5. PaymentIsComplete'
  BY ZenonT(40) DEF IInv, PaymentIsComplete, Kept
<1>6. RetryNeedsNoRouting'
  BY DEF IInv, Shapes, RetryNeedsNoRouting, Kept
<1> QED
  BY <1>1, <1>2, <1>3, <1>4, <1>5, <1>6 DEF IInv

\* A request is answered and the tables stay.
Tells(r, code, id) ==
  /\ Reply(r, code, id) /\ Kept
  /\ faults' \in Nat /\ faults' >= faults
  /\ pc[r] # "answered"
  /\ late' = late \/ (late' = late \cup {r} /\ RowOf(key[r]) # {})
  /\ code \in {200, 201} => Confirmed(r, id, payments)
  /\ code = 409 => Conflicting(r, payments)
  /\ r \in late' => /\ code \in {200, 400, 409, 500}
                    /\ code = 400 => body[r] \in Malformed
                    /\ code = 500 => faults' > 0

\* Such an answer keeps the invariant.
LEMMA ReplyKeeps ==
  ASSUME IInv, NEW r \in Requests, NEW code, NEW id, Tells(r, code, id)
  PROVE  IInv'
<1> USE DEF Tells
<1>1. Shapes'
  BY DEF IInv, Shapes, Reply, Return
<1>2. KeyInv'
  BY DEF IInv, Shapes, KeyInv, Kept, RowOf, Reply
<1>3. AnswerInv'
  <2> SUFFICES ASSUME NEW s \in Requests
               PROVE  /\ pc'[s] # "answered" => answer'[s].code = 0
                      /\ answer'[s].code \in {200, 201} => Confirmed(s, answer[s].id, payments)'
                      /\ answer'[s].code = 409 => Conflicting(s, payments)'
    BY DEF AnswerInv
  <2>1. CASE s = r
    <3>1. pc'[s] = "answered" /\ answer'[s] = [code |-> code, id |-> id]
      BY <2>1 DEF IInv, Shapes, Reply
    <3> QED
      BY <2>1, <3>1 DEF Kept, Confirmed, Conflicting
  <2>2. CASE s # r
    <3>1. pc'[s] = pc[s] /\ answer'[s] = answer[s]
      BY <2>2 DEF IInv, Shapes, Reply
    <3> QED
      BY <3>1 DEF IInv, AnswerInv, Kept, Confirmed, Conflicting
  <2> QED
    BY <2>1, <2>2
<1>4. QuoteInv'
  BY DEF IInv, Shapes, QuoteInv, Kept, Reply, Return
<1>5. LateInv'
  BY DEF IInv, Shapes, LateInv, Kept, RowOf, Reply
<1>6. PaymentIsComplete'
  BY ZenonT(40) DEF IInv, PaymentIsComplete, Kept
<1>7. RetryNeedsNoRouting'
  <2> SUFFICES ASSUME NEW s \in late'
               PROVE  /\ answer'[s].code \in {0, 200, 400, 409, 500}
                      /\ answer'[s].code = 400 => body'[s] \in Malformed
                      /\ answer'[s].code = 500 => faults' > 0
    BY DEF RetryNeedsNoRouting
  <2>1. CASE s = r
    BY <2>1 DEF IInv, Shapes, Reply, Kept
  <2>2. CASE s # r
    <3>1. s \in late /\ answer'[s] = answer[s]
      BY <2>2 DEF IInv, Shapes, LateInv, Reply
    <3> QED
      BY <3>1 DEF IInv, Shapes, RetryNeedsNoRouting, Kept
  <2> QED
    BY <2>1, <2>2
<1> QED
  BY <1>1, <1>2, <1>3, <1>4, <1>5, <1>6, <1>7 DEF IInv

\* The rows of r's payment are committed, whatever its client is told.
Writes(r, l) ==
  /\ l \in {"answered", "gone"}
  /\ pc[r] = "commit" /\ pc' = [pc EXCEPT ![r] = l]
  /\ DOMAIN answer' = Requests
  /\ \A s \in Requests \ {r} : answer'[s] = answer[s]
  /\ answer'[r].code \in {0, 201, 500}
  /\ l = "gone" => answer'[r].code = 0
  /\ answer'[r].code = 201 => answer'[r].id = r
  /\ WriteRows(r) /\ Return(r) /\ UNCHANGED <<key, body, late>>
  /\ faults' \in Nat /\ faults' >= faults

\* The key was free, and the rows come together.
LEMMA WriteKeeps ==
  ASSUME IInv, NEW r \in Requests, NEW l, Writes(r, l)
  PROVE  IInv'
<1> USE DEF Writes
<1>0. r \notin late
  BY DEF IInv, LateInv
<1>1. Shapes'
  BY ZenonT(40) DEF IInv, Shapes, Return
<1>2. /\ RowOf(key[r]) = {}
      /\ payments' = payments \cup {PaymentRow(r)}
      /\ PaymentRow(r).key = key[r]
  BY DEF IInv, KeyInv, WriteRows, PaymentRow
<1>3. KeyInv'
  <2>1. ASSUME NEW p \in payments', NEW q \in payments', p.key = q.key
        PROVE  p = q
    BY <1>2, <2>1 DEF IInv, KeyInv, RowOf
  <2>2. ASSUME NEW s \in Requests, pc'[s] = "commit"
        PROVE  RowOf(key[s])' = {}
    <3>1. s # r /\ pc[s] = "commit"
      BY <2>2 DEF IInv, Shapes
    <3>2. key[s] # key[r]
      BY <3>1 DEF IInv, KeyInv
    <3> QED
      BY <1>2, <3>1, <3>2 DEF IInv, KeyInv, RowOf
  <2>3. ASSUME NEW s \in Requests, NEW t \in Requests,
               pc'[s] = "commit", pc'[t] = "commit", key[s] = key[t]
        PROVE  s = t
    BY <2>3 DEF IInv, Shapes, KeyInv
  <2> QED
    BY <2>1, <2>2, <2>3 DEF KeyInv
<1>4. AnswerInv'
  <2> SUFFICES ASSUME NEW s \in Requests
               PROVE  /\ pc'[s] # "answered" => answer'[s].code = 0
                      /\ answer'[s].code \in {200, 201} => Confirmed(s, answer[s].id, payments)'
                      /\ answer'[s].code = 409 => Conflicting(s, payments)'
    BY DEF AnswerInv
  <2>1. CASE s = r
    <3>1. pc'[s] = l /\ answer'[s].code \in {0, 201, 500}
      BY <2>1 DEF IInv, Shapes
    <3>2. ASSUME answer'[s].code = 201
          PROVE  Confirmed(s, answer[s].id, payments)'
      <4>1. /\ PaymentRow(r).id = answer'[s].id
            /\ PaymentRow(r).trip = body[r].trip
            /\ PaymentRow(r).amount = body[r].amount.value
            /\ PaymentRow(r).mode = body[r].mode
        BY <2>1, <3>2, ZenonT(40) DEF PaymentRow
      <4> QED
        BY <1>2, <2>1, <4>1 DEF Confirmed
    <3> QED
      BY <2>1, <3>1, <3>2
  <2>2. CASE s # r
    <3>1. pc'[s] = pc[s] /\ answer'[s] = answer[s]
      BY <2>2 DEF IInv, Shapes
    <3> QED
      BY <1>2, <3>1 DEF IInv, AnswerInv, Confirmed, Conflicting
  <2> QED
    BY <2>1, <2>2
<1>5. QuoteInv'
  <2>1. \A s \in Requests \ {r} : pc'[s] = pc[s] /\ quotes'[s] = quotes[s] /\ body'[s] = body[s]
    BY ZenonT(40) DEF IInv, Shapes, Return
  <2>2. pc'[r] = l /\ l \notin {"idle", "lookup", "quoting"}
        /\ l \notin {"routing", "precheck", "begin", "insert", "commit"} /\ l # "quoting"
    BY DEF IInv, Shapes
  <2>3. QuoteInv
    BY DEF IInv
  <2> QED
    BY <2>1, <2>2, <2>3 DEF QuoteInv
<1>6. LateInv'
  BY <1>0, <1>2 DEF IInv, Shapes, LateInv, RowOf
<1>7. PaymentIsComplete'
  <2>1. PaymentRow(r).id = r /\ PaymentRow(r).mode = body[r].mode
    BY DEF PaymentRow
  <2>2. {p.id : p \in payments'} = {p.id : p \in payments} \cup {r}
    BY <1>2, <2>1
  <2>3. {h.id : h \in hops'} = {h.id : h \in hops} \cup {r}
    <3>1. PICK new : new = [id |-> r, bridge |-> hop[r]]
      BY ZenonT(40)
    <3>2. hops' = hops \cup {new} /\ new.id = r
      BY <3>1, ZenonT(40) DEF WriteRows
    <3> QED
      BY <3>2
  <2>4. {q.id : q \in QuoteRows(r)} = IF body[r].mode = "testnet" THEN {r} ELSE {}
    <3>1. DOMAIN quotes[r] # {} <=> body[r].mode = "testnet"
      BY DEF IInv, QuoteInv
    <3>2. \A q \in QuoteRows(r) : q.id = r
      BY DEF QuoteRows
    <3>3. ASSUME NEW i \in DOMAIN quotes[r]
          PROVE  QuoteRows(r) # {}
      <4>1. [id |-> r, provider |-> Providers[i], fee |-> quotes[r][i],
             selected |-> Providers[i] = hop[r]] \in QuoteRows(r)
        BY <3>3 DEF QuoteRows
      <4> QED
        BY <4>1
    <3>4. ASSUME NEW q \in QuoteRows(r)
          PROVE  DOMAIN quotes[r] # {}
      BY <3>4 DEF QuoteRows
    <3> QED
      BY <3>1, <3>2, <3>3, <3>4
  <2>5. {q.id : q \in stored'} = {q.id : q \in stored} \cup {q.id : q \in QuoteRows(r)}
    BY DEF WriteRows
  <2>6. {p.id : p \in {x \in payments' : x.mode = "testnet"}} =
          {p.id : p \in {x \in payments : x.mode = "testnet"}}
            \cup IF body[r].mode = "testnet" THEN {r} ELSE {}
    BY <1>2, <2>1
  <2>7. outbox' = outbox \cup {r}
    BY ZenonT(40) DEF WriteRows
  <2>8. /\ {p.id : p \in payments} = {h.id : h \in hops}
        /\ {p.id : p \in payments} = outbox
        /\ {q.id : q \in stored} = {p.id : p \in {x \in payments : x.mode = "testnet"}}
    BY ZenonT(40) DEF IInv, PaymentIsComplete
  <2>9. {p.id : p \in payments'} = {h.id : h \in hops'}
    BY <2>2, <2>3, <2>8, ZenonT(40)
  <2>10. {p.id : p \in payments'} = outbox'
    BY <2>2, <2>7, <2>8, ZenonT(40)
  <2>11. {q.id : q \in stored'} = {p.id : p \in {x \in payments' : x.mode = "testnet"}}
    BY <2>4, <2>5, <2>6, <2>8
  <2> QED
    BY <2>9, <2>10, <2>11, ZenonT(40) DEF PaymentIsComplete
<1>8. RetryNeedsNoRouting'
  BY <1>0 DEF IInv, Shapes, LateInv, RetryNeedsNoRouting
<1> QED
  BY <1>1, <1>3, <1>4, <1>5, <1>6, <1>7, <1>8 DEF IInv

\* A request that stays unanswered keeps its quotes.
LEMMA QuotesKept ==
  ASSUME IInv, NEW r \in Requests, NEW l, Advance(r, l), Kept,
         \/ pc[r] = "idle" /\ l = "lookup"
         \/ pc[r] = "lookup" /\ body[r].mode = "simulated" /\ l = "routing"
         \/ pc[r] = "lookup" /\ body[r].mode = "testnet" /\ l = "quoting"
         \/ pc[r] \in {"routing", "precheck", "begin", "insert"}
              /\ l \in {"precheck", "begin", "insert", "commit", "reread"}
  PROVE  QuoteInv' /\ DOMAIN quotes' = Requests
  BY DEF IInv, Shapes, QuoteInv, Advance, Goto, Kept

\* The row under the key decides between 200 and 409, and both are true of it.
LEMMA ReplyFromRowKeeps ==
  ASSUME IInv, NEW r \in Requests, ReplyFromRow(r), Kept, pc[r] # "answered",
         UNCHANGED <<late, faults>>
  PROVE  IInv'
<1>1. PICK p \in RowOf(key[r]) :
        IF Matches(p, body[r]) THEN Reply(r, 200, p.id) ELSE Reply(r, 409, NoPayment)
  BY DEF ReplyFromRow
<1>2. p \in payments /\ p.key = key[r]
  BY DEF RowOf
<1>3. faults' \in Nat /\ faults' >= faults /\ late' = late
  BY DEF IInv, Shapes
<1>4. CASE Matches(p, body[r])
  <2>1. Confirmed(r, p.id, payments)
    BY <1>2, <1>4 DEF Matches, Confirmed
  <2>2. Tells(r, 200, p.id)
    BY <1>1, <1>3, <1>4, <2>1 DEF Tells
  <2> QED
    BY <2>2, ReplyKeeps
<1>5. CASE ~Matches(p, body[r])
  <2>1. Conflicting(r, payments)
    BY <1>2, <1>5 DEF Matches, Conflicting
  <2>2. Tells(r, 409, NoPayment)
    BY <1>1, <1>3, <1>5, <2>1 DEF Tells
  <2> QED
    BY <2>2, ReplyKeeps
<1> QED
  BY <1>4, <1>5

\* An error is told to a request that is not late.
LEMMA ReplyErrorKeeps ==
  ASSUME IInv, NEW r \in Requests, NEW code \in {400, 422, 500, 503, 504},
         Reply(r, code, NoPayment), Kept, pc[r] # "answered", r \notin late,
         UNCHANGED <<late, faults>>
  PROVE  IInv'
<1>1. faults' \in Nat /\ faults' >= faults /\ late' = late
  BY DEF IInv, Shapes
<1>2. Tells(r, code, NoPayment)
  BY <1>1 DEF Tells
<1> QED
  BY <1>2, ReplyKeeps

\* A step within the handler keeps the invariant.
LEMMA StepKeeps ==
  ASSUME IInv, NEW r \in Requests, Step(r)
  PROVE  IInv'
<1>0. /\ UNCHANGED <<late, faults>> => faults' \in Nat /\ faults' >= faults /\ late' = late
      /\ r \in late => RowOf(key[r]) # {} /\ pc[r] \in {"lookup", "answered", "gone"}
  BY DEF IInv, Shapes, LateInv
<1>1. CASE Lookup(r)
  <2>1. pc[r] = "lookup" /\ Kept /\ UNCHANGED <<late, faults>>
    BY <1>1, ZenonT(40) DEF Lookup, Kept, tables
  <2>2. CASE ReplyFromRow(r)
    BY <2>1, <2>2, ReplyFromRowKeeps
  <2>3. ASSUME RowOf(key[r]) = {}, NEW l \in {"routing", "quoting"}, Advance(r, l),
               IF l = "routing" THEN body[r].mode = "simulated" ELSE body[r].mode = "testnet"
        PROVE  IInv'
    <3>1. QuoteInv' /\ DOMAIN quotes' = Requests
      BY <2>1, <2>3, QuotesKept
    <3>2. pc' = [pc EXCEPT ![r] = l] /\ UNCHANGED answer
      BY <2>3 DEF Advance, Goto
    <3>3. Moves(r, l)
      BY <1>0, <2>1, <2>3, <3>1, <3>2, ZenonT(40) DEF Moves
    <3> QED
      BY <3>3, GotoKeeps
  <2>4. CASE RowOf(key[r]) = {} /\ Reply(r, 400, NoPayment)
    BY <1>0, <2>1, <2>4, ReplyErrorKeeps
  <2> QED
    BY <1>1, <2>2, <2>3, <2>4 DEF Lookup
<1>2. CASE GetQuotes(r)
  <2>1. pc[r] = "quoting" /\ Kept /\ UNCHANGED <<late, faults>>
    BY <1>2 DEF GetQuotes, Kept, tables
  <2>2. PICK q \in [DOMAIN Providers -> QuoteAnswers] :
          \/ Reply(r, 503, NoPayment)
          \/ Reply(r, 422, NoPayment)
          \/ /\ \E i \in DOMAIN q : q[i].kind = "quoted"
             /\ quotes' = [quotes EXCEPT ![r] = CandidateEdges(q)]
             /\ Goto(r, "routing")
    BY <1>2 DEF GetQuotes
  <2>3. CASE Reply(r, 503, NoPayment) \/ Reply(r, 422, NoPayment)
    BY <1>0, <2>1, <2>3, ReplyErrorKeeps
  <2>4. CASE /\ \E i \in DOMAIN q : q[i].kind = "quoted"
             /\ quotes' = [quotes EXCEPT ![r] = CandidateEdges(q)]
             /\ Goto(r, "routing")
    <3>1. DOMAIN CandidateEdges(q) # {}
      BY <2>4, ZenonT(40) DEF CandidateEdges
    <3>2. body[r].mode = "testnet"
      BY <2>1, ZenonT(40) DEF IInv, QuoteInv
    <3>3. pc' = [pc EXCEPT ![r] = "routing"] /\ UNCHANGED answer
      BY <2>4 DEF Goto
    <3>4. DOMAIN quotes' = Requests /\ quotes'[r] = CandidateEdges(q)
      BY <2>4, ZenonT(40) DEF IInv, Shapes
    <3>5. QuoteInv'
      BY <2>1, <2>4, <3>1, <3>2, <3>3, <3>4, ZenonT(40) DEF IInv, Shapes, QuoteInv, Kept
    <3>6. Moves(r, "routing")
      BY <1>0, <2>1, <3>3, <3>4, <3>5 DEF Moves
    <3> QED
      BY <3>6, GotoKeeps
  <2> QED
    BY <2>2, <2>3, <2>4
<1>3. CASE FindRoute(r)
  <2>1. pc[r] = "routing" /\ Kept /\ UNCHANGED <<late, faults>>
    BY <1>3, ZenonT(40) DEF FindRoute, Kept, tables
  <2>2. ASSUME NEW code \in RoutingErrors \cup {422}, Reply(r, code, NoPayment)
        PROVE  IInv'
    <3>1. code \in {400, 422, 500, 503, 504}
      BY <2>2 DEF RoutingErrors
    <3> QED
      BY <1>0, <2>1, <2>2, <3>1, ReplyErrorKeeps
  <2>3. CASE Goto(r, "precheck") /\ UNCHANGED quotes
    <3>1. pc' = [pc EXCEPT ![r] = "precheck"] /\ UNCHANGED answer
      BY <2>3 DEF Goto
    <3>2. DOMAIN quotes' = Requests /\ QuoteInv'
      BY <2>1, <2>3, <3>1, ZenonT(40) DEF IInv, Shapes, QuoteInv, Kept
    <3>3. Moves(r, "precheck")
      BY <1>0, <2>1, <3>1, <3>2, ZenonT(40) DEF Moves
    <3> QED
      BY <3>3, GotoKeeps
  <2>4. \/ \E code \in RoutingErrors : Reply(r, code, NoPayment)
        \/ Reply(r, 422, NoPayment)
        \/ Goto(r, "precheck") /\ UNCHANGED quotes
    BY <1>3, ZenonT(40) DEF FindRoute
  <2> QED
    BY <2>2, <2>3, <2>4, ZenonT(40)
<1>4. ASSUME NEW l \in {"begin", "insert", "commit", "reread"}, Advance(r, l),
             pc[r] \in {"precheck", "begin", "insert"}, Kept, UNCHANGED <<late, faults>>,
             l = "commit" => RowOf(key[r]) = {} /\ Inserted(key[r]) = {}
      PROVE  IInv'
  <2>1. QuoteInv' /\ DOMAIN quotes' = Requests
    BY <1>4, QuotesKept
  <2>2. pc' = [pc EXCEPT ![r] = l] /\ UNCHANGED answer
    BY <1>4 DEF Advance, Goto
  <2>3. Moves(r, l)
    BY <1>0, <1>4, <2>1, <2>2, ZenonT(40) DEF Moves
  <2> QED
    BY <2>3, GotoKeeps, ZenonT(40)
<1>5. CASE PreCheck(r)
  <2>1. pc[r] = "precheck" /\ Kept /\ UNCHANGED <<late, faults>>
    BY <1>5, ZenonT(40) DEF PreCheck, Kept, tables
  <2>2. CASE ReplyFromRow(r)
    BY <2>1, <2>2, ReplyFromRowKeeps
  <2>3. CASE Advance(r, "begin")
    BY <1>4, <2>1, <2>3, ZenonT(40)
  <2> QED
    BY <1>5, <2>2, <2>3, ZenonT(40) DEF PreCheck
<1>6. CASE BeginTx(r)
  <2>1. pc[r] = "begin" /\ Kept /\ UNCHANGED <<late, faults>> /\ Advance(r, "insert")
    BY <1>6 DEF BeginTx, Kept, tables
  <2> QED
    BY <1>4, <2>1
<1>7. CASE InsertPayment(r)
  <2>1. /\ pc[r] = "insert" /\ Inserted(key[r]) = {} /\ Kept /\ UNCHANGED <<late, faults>>
        /\ Advance(r, IF RowOf(key[r]) = {} THEN "commit" ELSE "reread")
    BY <1>7 DEF InsertPayment, Kept, tables
  <2>2. CASE RowOf(key[r]) = {}
    <3>1. Advance(r, "commit")
      BY <2>1, <2>2
    <3> QED
      BY <1>4, <2>1, <2>2, <3>1
  <2>3. CASE RowOf(key[r]) # {}
    <3>1. Advance(r, "reread")
      BY <2>1, <2>3
    <3> QED
      BY <1>4, <2>1, <3>1, ZenonT(40)
  <2> QED
    BY <2>2, <2>3
<1>8. CASE ReRead(r)
  <2>1. pc[r] = "reread" /\ Kept /\ UNCHANGED <<late, faults>>
    BY <1>8 DEF ReRead, Kept, tables
  <2>2. CASE Reply(r, 500, NoPayment)
    BY <1>0, <2>1, <2>2, ReplyErrorKeeps
  <2>3. CASE ReplyFromRow(r)
    BY <2>1, <2>3, ReplyFromRowKeeps
  <2> QED
    BY <1>8, <2>2, <2>3 DEF ReRead
<1>9. CASE Commit(r)
  <2>1. /\ pc[r] = "commit" /\ WriteRows(r) /\ Reply(r, 201, r)
        /\ UNCHANGED <<key, body, late, faults>>
    BY <1>9 DEF Commit
  <2>2. /\ pc' = [pc EXCEPT ![r] = "answered"] /\ Return(r)
        /\ DOMAIN answer' = Requests
        /\ \A s \in Requests \ {r} : answer'[s] = answer[s]
        /\ answer'[r].code = 201 /\ answer'[r].id = r
    BY <2>1, ZenonT(40) DEF Reply, IInv, Shapes
  <2>3. Writes(r, "answered")
    BY <1>0, <2>1, <2>2, ZenonT(40) DEF Writes
  <2> QED
    BY <2>3, WriteKeeps
<1> QED
  BY <1>1, <1>2, <1>3, <1>5, <1>6, <1>7, <1>8, <1>9 DEF Step

\* A fault keeps the invariant.
LEMMA FaultKeeps ==
  ASSUME IInv, NEW r \in Requests, Fault(r)
  PROVE  IInv'
<1>1. faults' \in Nat /\ faults' >= faults /\ faults' > 0 /\ UNCHANGED <<key, body, late>>
  <2>1. faults' = faults + 1 /\ UNCHANGED <<key, body, late>>
    BY ZenonT(40) DEF Fault, DbError, CommitAppliedButFailed, Vanish
  <2>2. faults \in Nat
    BY DEF IInv, Shapes
  <2> QED
    BY <2>1, <2>2
<1>2. CASE DbError(r)
  <2>1. Reply(r, 500, NoPayment) /\ Kept /\ pc[r] # "answered"
    BY <1>2 DEF DbError, Kept, tables
  <2>2. Tells(r, 500, NoPayment)
    BY <1>1, <2>1 DEF Tells
  <2> QED
    BY <2>2, ReplyKeeps
<1>3. CASE CommitAppliedButFailed(r)
  <2>1. pc[r] = "commit" /\ WriteRows(r) /\ Reply(r, 500, NoPayment)
    BY <1>3, ZenonT(40) DEF CommitAppliedButFailed
  <2>2. /\ pc' = [pc EXCEPT ![r] = "answered"] /\ Return(r)
        /\ DOMAIN answer' = Requests
        /\ \A s \in Requests \ {r} : answer'[s] = answer[s]
        /\ answer'[r].code = 500
    BY <2>1, ZenonT(40) DEF Reply, IInv, Shapes
  <2>3. answer'[r].code \in {0, 201, 500} /\ answer'[r].code # 201
    BY <2>2
  <2>4. Writes(r, "answered")
    BY <1>1, <2>1, <2>2, <2>3, ZenonT(40) DEF Writes
  <2> QED
    BY <2>4, WriteKeeps
<1>4. CASE Vanish(r)
  <2>1. /\ pc[r] \in Active /\ pc' = [pc EXCEPT ![r] = "gone"] /\ UNCHANGED answer /\ Return(r)
        /\ UNCHANGED tables \/ (pc[r] = "commit" /\ WriteRows(r))
    BY <1>4 DEF Vanish, Goto
  <2>2. CASE UNCHANGED tables
    <3>1. Kept
      BY <1>1, <2>2, ZenonT(40) DEF Kept, tables
    <3>2. QuoteInv' /\ DOMAIN quotes' = Requests
      BY <1>1, <2>1, ZenonT(40) DEF IInv, Shapes, QuoteInv, Return
    <3>3. pc[r] # "answered"
      BY <2>1, ZenonT(40) DEF Active
    <3>4. Moves(r, "gone")
      BY <1>1, <2>1, <3>1, <3>2, <3>3, ZenonT(40) DEF Moves
    <3> QED
      BY <3>4, GotoKeeps
  <2>3. CASE pc[r] = "commit" /\ WriteRows(r)
    <3>1. /\ answer'[r].code = 0
          /\ DOMAIN answer' = Requests
          /\ \A s \in Requests \ {r} : answer'[s] = answer[s]
      BY <2>1, <2>3, ZenonT(40) DEF IInv, Shapes, AnswerInv
    <3>2. answer'[r].code \in {0, 201, 500} /\ answer'[r].code # 201
      BY <3>1
    <3>3. Writes(r, "gone")
      BY <1>1, <2>1, <2>3, <3>1, <3>2, ZenonT(40) DEF Writes
    <3> QED
      BY <3>3, WriteKeeps
  <2> QED
    BY <2>1, <2>2, <2>3
<1> QED
  BY <1>2, <1>3, <1>4 DEF Fault

\* A request received is one that has not been answered, late or not.
LEMMA ReceiveKeeps ==
  ASSUME IInv, NEW r \in Requests, Receive(r)
  PROVE  IInv'
<1>1. /\ pc[r] = "idle" /\ Kept /\ UNCHANGED faults
      /\ late' = late \/ (late' = late \cup {r} /\ RowOf(key[r]) # {})
      /\ faults' \in Nat /\ faults' >= faults
  <2>1. /\ pc[r] = "idle" /\ Kept /\ UNCHANGED faults
        /\ late' = IF RowOf(key[r]) = {} THEN late ELSE late \cup {r}
    BY ZenonT(40) DEF Receive, Kept, tables
  <2>2. faults \in Nat
    BY ZenonT(40) DEF IInv, Shapes
  <2> QED
    BY <2>1, <2>2
<1>2. CASE body[r] \in Malformed /\ Reply(r, 400, NoPayment)
  <2>1. Tells(r, 400, NoPayment)
    BY <1>1, <1>2 DEF Tells
  <2> QED
    BY <2>1, ReplyKeeps
<1>3. CASE Advance(r, "lookup")
  <2>1. /\ pc' = [pc EXCEPT ![r] = "lookup"] /\ UNCHANGED <<answer, quotes, hop>>
    BY <1>3, ZenonT(40) DEF Advance, Goto
  <2>2. Shapes'
    BY <1>1, <2>1 DEF IInv, Shapes
  <2>3. KeyInv'
    BY <1>1, <2>1, ZenonT(40) DEF IInv, Shapes, KeyInv, Kept, RowOf
  <2>4. AnswerInv'
    <3>1. \A s \in Requests : pc'[s] # "answered" => pc[s] # "answered"
      BY <1>1, <2>1, ZenonT(40) DEF IInv, Shapes
    <3> QED
      BY <1>1, <2>1, <3>1, AnswersStable DEF IInv, Kept
  <2>5. QuoteInv'
    BY <1>1, <1>3, QuotesKept
  <2>6. LateInv'
    BY <1>1, <2>1 DEF IInv, Shapes, LateInv, Kept, RowOf
  <2>7. PaymentIsComplete'
    BY <1>1, ZenonT(40) DEF IInv, PaymentIsComplete, Kept
  <2>8. RetryNeedsNoRouting'
    <3>1. answer[r].code = 0
      <4>1. AnswerInv /\ pc[r] # "answered"
        BY <1>1, ZenonT(40) DEF IInv
      <4> QED
        BY <4>1 DEF AnswerInv
    <3>2. ASSUME NEW s \in late'
          PROVE  /\ answer'[s].code \in {0, 200, 400, 409, 500}
                 /\ answer'[s].code = 400 => body'[s] \in Malformed
                 /\ answer'[s].code = 500 => faults' > 0
      <4>1. CASE s = r
        BY <2>1, <3>1, <4>1
      <4>2. CASE s # r
        BY <1>1, <2>1, <3>2, <4>2 DEF IInv, RetryNeedsNoRouting, Kept
      <4> QED
        BY <4>1, <4>2
    <3> QED
      BY <3>2 DEF RetryNeedsNoRouting
  <2> QED
    BY <2>2, <2>3, <2>4, <2>5, <2>6, <2>7, <2>8 DEF IInv
<1> QED
  BY <1>2, <1>3 DEF Receive

\* Every step keeps the invariant.
LEMMA NextIInv == IInv /\ [Next]_vars => IInv'
<1> SUFFICES ASSUME IInv, [Next]_vars
             PROVE  IInv'
  OBVIOUS
<1>1. CASE Next
  BY <1>1, ReceiveKeeps, StepKeeps, FaultKeeps DEF Next
<1>2. CASE UNCHANGED vars
  <2>1. Shapes' /\ LateInv'
    BY <1>2 DEF IInv, Shapes, LateInv, RowOf, vars
  <2>2. KeyInv'
    BY <1>2 DEF IInv, KeyInv, RowOf, vars
  <2>3. AnswerInv'
    BY <1>2, AnswersStable, ZenonT(40) DEF IInv, vars
  <2>4. QuoteInv' /\ RetryNeedsNoRouting'
    BY <1>2 DEF IInv, QuoteInv, RetryNeedsNoRouting, vars
  <2>5. PaymentIsComplete'
    BY <1>2, ZenonT(40) DEF IInv, PaymentIsComplete, vars
  <2> QED
    BY <2>1, <2>2, <2>3, <2>4, <2>5 DEF IInv
<1> QED
  BY <1>1, <1>2

\* The invariant holds in every reachable state.
THEOREM Inductive == Spec => []IInv
  BY InitIInv, NextIInv, PTL DEF Spec

\* CreateOrGetPayment is idempotent for any number of concurrent requests,
\* retries, connections and faults.
THEOREM AlwaysOnePaymentPerKey == Spec => []OnePaymentPerKey
<1>1. IInv => OnePaymentPerKey
  BY ZenonT(40) DEF IInv, KeyInv, AnswerInv, Confirmed, OnePaymentPerKey
<1> QED
  BY <1>1, Inductive, PTL

\* A 409 is told only of a payment made from another request.
THEOREM AlwaysConflictIsReal == Spec => []ConflictIsReal
<1>1. IInv => ConflictIsReal
  BY ZenonT(40) DEF IInv, AnswerInv, Conflicting, ConflictIsReal
<1> QED
  BY <1>1, Inductive, PTL

\* PostPayments answers a retry of a committed payment without the routing
\* service.
THEOREM AlwaysRetryNeedsNoRouting == Spec => []RetryNeedsNoRouting
<1>1. IInv => RetryNeedsNoRouting
  BY DEF IInv
<1> QED
  BY <1>1, Inductive, PTL

\* The rows of a payment are committed all together, whatever fails.
THEOREM AlwaysComplete == Spec => []PaymentIsComplete
<1>1. IInv => PaymentIsComplete
  BY DEF IInv
<1> QED
  BY <1>1, Inductive, PTL

-----------------------------------------------------------------------------
(***************************************************************************)
(* Types, and the quote the worker will execute.                           *)
(***************************************************************************)
Labels == {"idle", "answered", "gone"} \cup Active

QuoteMaps == UNION {[S -> Fees] : S \in SUBSET DOMAIN Providers}

\* Bridge b is what FindRoute gives request r.
Fits(r, b) ==
  /\ body[r].mode = "simulated" => b \in SimBridges
  /\ body[r].mode = "testnet" => b = Providers[CheapestEdge(quotes[r])]

\* From FindRoute to the commit, a request keeps the hop it was given.
HopInv ==
  \A r \in Requests : pc[r] \in {"precheck", "begin", "insert", "commit"} => Fits(r, hop[r])

\* The request that created a payment is over.
DoneInv == \A p \in payments : pc[p.id] \in {"answered", "gone"}

TypeInv ==
  /\ TypeOK
  /\ HopInv
  /\ DoneInv

\* Integer division rounds down.
LEMMA DivBounds ==
  ASSUME NEW a \in Int, NEW d \in Nat \ {0}
  PROVE  a \div d \in Int /\ d * (a \div d) <= a /\ a < d * (a \div d) + d
  OBVIOUS

\* A larger fee stays larger when it is scaled.
LEMMA TimesMonotone ==
  ASSUME NEW a \in Int, NEW b \in Int, a <= b, NEW d \in Nat
  PROVE  d * a <= d * b
  OBVIOUS

\* A fee that is no more than another as a float64 is less than a float64 step
\* above it in base units.
LEMMA FloatClose ==
  ASSUME NEW a \in Int, NEW b \in Int, FeeFloat(a) <= FeeFloat(b)
  PROVE  a < b + FloatStep
<1>1. FloatStep \in Nat \ {0}
  BY ProvidersAssumption
<1> DEFINE x == a \div FloatStep
           y == b \div FloatStep
<1>2. x \in Int /\ a < FloatStep * x + FloatStep
  BY <1>1, DivBounds
<1>3. y \in Int /\ FloatStep * y <= b
  BY <1>1, DivBounds
<1>4. x <= y
  BY DEF FeeFloat
<1> HIDE DEF x, y
<1>5. FloatStep * x <= FloatStep * y
  BY <1>1, <1>2, <1>3, <1>4, TimesMonotone
<1>6. FloatStep * x \in Int /\ FloatStep * y \in Int
  BY <1>1, <1>2, <1>3
<1> QED
  BY <1>1, <1>2, <1>3, <1>5, <1>6

\* What is left needs facts about finite sets.
INSTANCE SetInduction

\* The routing service has a first cheapest candidate edge whenever there is an
\* edge at all.
LEMMA CheapestEdgeExists ==
  ASSUME NEW edges \in QuoteMaps, DOMAIN edges # {}
  PROVE  /\ CheapestEdge(edges) \in DOMAIN edges
         /\ \A j \in DOMAIN edges :
              FeeFloat(edges[CheapestEdge(edges)]) <= FeeFloat(edges[j])
<1> DEFINE D == DOMAIN edges
           fee == [j \in D |-> FeeFloat(edges[j])]
           F == {fee[j] : j \in D}
<1>1. D \subseteq DOMAIN Providers /\ edges \in [D -> Fees]
  BY DEF QuoteMaps
<1>2. D \subseteq 1..Len(Providers) /\ Len(Providers) \in Nat
  BY <1>1, ProvidersAssumption
<1>3. IsFiniteSet(D)
  BY <1>2, SubsetOfInterval
<1>4. fee \in [D -> Int]
  <2>1. \A j \in D : edges[j] \in Int
    BY <1>1, ProvidersAssumption
  <2>2. FloatStep \in Nat \ {0}
    BY ProvidersAssumption
  <2>3. \A j \in D : FeeFloat(edges[j]) \in Int
    BY <2>1, <2>2, DivBounds, ZenonT(40) DEF FeeFloat
  <2> QED
    BY <2>3
<1> HIDE DEF fee, D
<1>5. IsFiniteSet(F) /\ F # {} /\ F \subseteq Int
  <2>1. fee \in Surjection(D, F)
    BY <1>4, ZenonT(40) DEF Surjection
  <2> QED
    BY <1>3, <1>4, <2>1, FS_Surjection, ZenonT(40) DEF D
<1>6. PICK least \in F : \A y \in F : least <= y
  BY <1>5, LeastInteger, ZenonT(40)
<1> DEFINE E == {j \in D : fee[j] = least}
<1>7. IsFiniteSet(E) /\ E # {} /\ E \subseteq Int
  <2>1. E \subseteq D /\ E # {}
    BY <1>6
  <2>2. E \subseteq 1..Len(Providers)
    BY <1>2, <2>1, ZenonT(40)
  <2>3. E \subseteq Int
    BY <1>2, <2>2
  <2> HIDE DEF E
  <2>4. IsFiniteSet(E)
    BY <1>2, <2>2, SubsetOfInterval, ZenonT(40)
  <2> QED
    BY <2>1, <2>3, <2>4
<1>8. PICK i \in E : \A y \in E : i <= y
  BY <1>7, LeastInteger, ZenonT(40)
<1>9. ASSUME NEW j \in D
      PROVE  fee[i] < fee[j] \/ (fee[i] = fee[j] /\ i <= j)
  <2>1. fee[i] <= fee[j] /\ fee[i] = least
    BY <1>6, <1>8, ZenonT(40)
  <2>2. fee[j] = least => i <= j
    BY <1>8
  <2> QED
    BY <1>4, <1>8, <2>1, <2>2
<1>10. \E k \in D : \A j \in D :
         FeeFloat(edges[k]) < FeeFloat(edges[j]) \/ (FeeFloat(edges[k]) = FeeFloat(edges[j]) /\ k <= j)
  BY <1>8, <1>9 DEF fee
<1>11. /\ CheapestEdge(edges) \in D
       /\ \A j \in D : \/ FeeFloat(edges[CheapestEdge(edges)]) < FeeFloat(edges[j])
                       \/ /\ FeeFloat(edges[CheapestEdge(edges)]) = FeeFloat(edges[j])
                          /\ CheapestEdge(edges) <= j
  BY <1>10, ZenonT(40) DEF CheapestEdge, D
<1>12. \A j \in D : FeeFloat(edges[j]) \in Int
  BY <1>4, ZenonT(40) DEF fee
<1> QED
  BY <1>11, <1>12 DEF D

-----------------------------------------------------------------------------
\* What a step does to the handler's state: the request is answered, its client
\* leaves, or it goes on.
Told(r) == \E code \in Codes, id \in Requests \cup {NoPayment} : Reply(r, code, id)

Left(r) == Goto(r, "gone") /\ Return(r)

WentOn(r, l) ==
  /\ Advance(r, l)
  /\ \/ l \in {"lookup", "quoting", "routing", "reread"}
     \/ l = "begin" /\ pc[r] = "precheck"
     \/ l = "insert" /\ pc[r] = "begin" /\ FreeConn
     \/ l = "commit" /\ pc[r] = "insert"

Quoted(r) ==
  /\ \E q \in QuoteMaps : quotes' = [quotes EXCEPT ![r] = q]
  /\ pc[r] = "quoting"
  /\ Goto(r, "routing")
  /\ UNCHANGED hop

Routed(r) ==
  /\ \E b \in ProviderNames \cup SimBridges : hop' = [hop EXCEPT ![r] = b] /\ Fits(r, b)
  /\ Goto(r, "precheck")
  /\ UNCHANGED quotes

\* What it does to the tables: nothing, or the commit of a request that is over.
Stores(r) ==
  \/ UNCHANGED tables
  \/ pc[r] = "commit" /\ WriteRows(r) /\ (Told(r) \/ Left(r))

Shape(r) ==
  /\ UNCHANGED <<key, body>>
  /\ late' \in {late, late \cup {r}}
  /\ faults' \in 0..MaxFaults
  /\ \/ Told(r)
     \/ Left(r)
     \/ \E l \in Active : WentOn(r, l)
     \/ Quoted(r)
     \/ Routed(r)
  /\ Stores(r)

\* A row that is found has the id of a request.
LEMMA ReplyFromRowTold ==
  ASSUME TypeInv, NEW r \in Requests, ReplyFromRow(r)
  PROVE  Told(r)
<1>1. PICK p \in RowOf(key[r]) :
        IF Matches(p, body[r]) THEN Reply(r, 200, p.id) ELSE Reply(r, 409, NoPayment)
  BY ZenonT(40) DEF ReplyFromRow
<1>2. p.id \in Requests
  BY ZenonT(40) DEF RowOf, TypeInv, TypeOK
<1> QED
  BY <1>1, <1>2 DEF Told, Codes

\* FindRoute gives a testnet request one of its candidates' providers.
LEMMA RoutedBridge ==
  ASSUME TypeInv, IInv, NEW r \in Requests, pc[r] \in {"routing", "precheck", "begin", "insert", "commit"},
         body[r].mode = "testnet"
  PROVE  /\ quotes[r] \in QuoteMaps
         /\ CheapestEdge(quotes[r]) \in DOMAIN quotes[r]
         /\ \A j \in DOMAIN quotes[r] :
              FeeFloat(quotes[r][CheapestEdge(quotes[r])]) <= FeeFloat(quotes[r][j])
         /\ Providers[CheapestEdge(quotes[r])] \in ProviderNames
<1>1. quotes[r] \in QuoteMaps
  BY ZenonT(40) DEF TypeInv, TypeOK, QuoteMaps
<1>2. DOMAIN quotes[r] # {}
  BY DEF IInv, QuoteInv
<1>3. DOMAIN quotes[r] \subseteq DOMAIN Providers
  BY <1>1, ZenonT(40) DEF QuoteMaps
<1>4. /\ CheapestEdge(quotes[r]) \in DOMAIN quotes[r]
      /\ \A j \in DOMAIN quotes[r] :
           FeeFloat(quotes[r][CheapestEdge(quotes[r])]) <= FeeFloat(quotes[r][j])
  BY <1>1, <1>2, CheapestEdgeExists, ZenonT(40)
<1> QED
  BY <1>1, <1>3, <1>4, ZenonT(40) DEF ProviderNames

\* Every step has that shape.
LEMMA StepShape ==
  ASSUME TypeInv, IInv, NEW r \in Requests, Receive(r) \/ Step(r) \/ Fault(r)
  PROVE  Shape(r)
<1>0. faults \in 0..MaxFaults /\ MaxFaults \in Nat
  BY PoolAssumption, ZenonT(40) DEF TypeInv, TypeOK
<1>1. CASE Receive(r)
  <2>1. Told(r) \/ WentOn(r, "lookup")
    <3>1. CASE Reply(r, 400, NoPayment)
      <4>1. 400 \in Codes /\ NoPayment \in Requests \cup {NoPayment}
        BY DEF Codes
      <4> QED
        BY <3>1, <4>1, ZenonT(40) DEF Told
    <3>2. CASE Advance(r, "lookup")
      BY <3>2, ZenonT(40) DEF WentOn
    <3> QED
      BY <1>1, <3>1, <3>2, ZenonT(40) DEF Receive
  <2>2. /\ UNCHANGED <<key, body, tables, faults>>
        /\ late' \in {late, late \cup {r}}
    BY <1>1, ZenonT(40) DEF Receive
  <2> QED
    BY <1>0, <2>1, <2>2, ZenonT(40) DEF Shape, Stores, Active
<1>2. CASE Lookup(r)
  <2>1. Told(r) \/ WentOn(r, "routing") \/ WentOn(r, "quoting")
    <3>1. CASE ReplyFromRow(r)
      BY <3>1, ReplyFromRowTold, ZenonT(40)
    <3>2. CASE Advance(r, "routing") \/ Advance(r, "quoting") \/ Reply(r, 400, NoPayment)
      <4>1. CASE Advance(r, "routing") \/ Advance(r, "quoting")
        BY <4>1, ZenonT(40) DEF WentOn
      <4>2. CASE Reply(r, 400, NoPayment)
        <5>1. 400 \in Codes /\ NoPayment \in Requests \cup {NoPayment}
          BY DEF Codes
        <5> QED
          BY <4>2, <5>1, ZenonT(40) DEF Told
      <4> QED
        BY <3>2, <4>1, <4>2, ZenonT(40)
    <3> QED
      BY <1>2, <3>1, <3>2, ZenonT(40) DEF Lookup
  <2>2. UNCHANGED <<key, body, tables, late, faults>>
    BY <1>2, ZenonT(40) DEF Lookup
  <2> QED
    BY <1>0, <2>1, <2>2, ZenonT(40) DEF Shape, Stores, Active
<1>3. CASE GetQuotes(r)
  <2>1. PICK q \in [DOMAIN Providers -> QuoteAnswers] :
          \/ Reply(r, 503, NoPayment)
          \/ Reply(r, 422, NoPayment)
          \/ /\ quotes' = [quotes EXCEPT ![r] = CandidateEdges(q)]
             /\ Goto(r, "routing")
             /\ UNCHANGED hop
    BY <1>3, ZenonT(40) DEF GetQuotes
  <2>2. CandidateEdges(q) \in QuoteMaps
    <3> DEFINE D == {j \in DOMAIN q : q[j].kind = "quoted"}
    <3>1. D \in SUBSET DOMAIN Providers
      OBVIOUS
    <3>2. \A j \in D : q[j].fee \in Fees
      BY DEF QuoteAnswers
    <3>3. CandidateEdges(q) \in [D -> Fees]
      BY <3>2, ZenonT(40) DEF CandidateEdges
    <3> QED
      BY <3>1, <3>3, ZenonT(40) DEF QuoteMaps
  <2>3. pc[r] = "quoting" /\ UNCHANGED <<key, body, tables, late, faults>>
    BY <1>3, ZenonT(40) DEF GetQuotes
  <2>4. Told(r) \/ Quoted(r)
    BY <2>1, <2>2, <2>3 DEF Told, Quoted, Codes
  <2> QED
    BY <1>0, <2>3, <2>4, ZenonT(40) DEF Shape, Stores
<1>4. CASE FindRoute(r)
  <2>1. pc[r] = "routing" /\ UNCHANGED <<key, body, tables, late, faults>>
    BY <1>4, ZenonT(40) DEF FindRoute
  <2>2. ASSUME NEW code \in RoutingErrors \cup {422}, Reply(r, code, NoPayment)
        PROVE  Told(r)
    BY <2>2 DEF RoutingErrors, Told, Codes
  <2>3. ASSUME body[r].mode = "simulated", NEW b \in SimBridges, hop' = [hop EXCEPT ![r] = b],
               Goto(r, "precheck"), UNCHANGED quotes
        PROVE  Routed(r)
    BY <2>3, ZenonT(40) DEF Routed, Fits
  <2>4. ASSUME body[r].mode = "testnet", Goto(r, "precheck"), UNCHANGED quotes,
               hop' = [hop EXCEPT ![r] = Providers[CheapestEdge(quotes[r])]]
        PROVE  Routed(r)
    <3>1. Providers[CheapestEdge(quotes[r])] \in ProviderNames
      BY <2>1, <2>4, RoutedBridge, ZenonT(40)
    <3> QED
      BY <2>4, <3>1, ZenonT(40) DEF Routed, Fits
  <2>5. Told(r) \/ Routed(r)
    BY <1>4, <2>2, <2>3, <2>4, ZenonT(40) DEF FindRoute
  <2> QED
    BY <1>0, <2>1, <2>5, ZenonT(40) DEF Shape, Stores
<1>5. CASE PreCheck(r)
  <2>1. Told(r) \/ WentOn(r, "begin")
    BY <1>5, ReplyFromRowTold, ZenonT(40) DEF PreCheck, WentOn
  <2>2. UNCHANGED <<key, body, tables, late, faults>>
    BY <1>5, ZenonT(40) DEF PreCheck
  <2> QED
    BY <1>0, <2>1, <2>2, ZenonT(40) DEF Shape, Stores, Active
<1>6. CASE BeginTx(r)
  <2>1. WentOn(r, "insert") /\ UNCHANGED <<key, body, tables, late, faults>>
    BY <1>6 DEF BeginTx, WentOn
  <2> QED
    BY <1>0, <2>1, ZenonT(40) DEF Shape, Stores, Active
<1>7. CASE InsertPayment(r)
  <2>1. WentOn(r, "commit") \/ WentOn(r, "reread")
    BY <1>7, ZenonT(40) DEF InsertPayment, WentOn
  <2>2. UNCHANGED <<key, body, tables, late, faults>>
    BY <1>7, ZenonT(40) DEF InsertPayment
  <2> QED
    BY <1>0, <2>1, <2>2, ZenonT(40) DEF Shape, Stores, Active
<1>8. CASE ReRead(r)
  <2>1. Told(r)
    BY <1>8, ReplyFromRowTold DEF ReRead, Told, Codes
  <2>2. UNCHANGED <<key, body, tables, late, faults>>
    BY <1>8, ZenonT(40) DEF ReRead
  <2> QED
    BY <1>0, <2>1, <2>2, ZenonT(40) DEF Shape, Stores
<1>9. CASE Commit(r)
  <2>1. Told(r) /\ pc[r] = "commit" /\ WriteRows(r) /\ UNCHANGED <<key, body, late, faults>>
    BY <1>9 DEF Commit, Told, Codes
  <2> QED
    BY <1>0, <2>1 DEF Shape, Stores
<1>10. CASE Fault(r)
  <2>1. faults' \in 0..MaxFaults /\ UNCHANGED <<key, body, late>>
    BY <1>0, <1>10 DEF Fault, DbError, CommitAppliedButFailed, Vanish
  <2>2. Told(r) \/ Left(r)
    <3>1. Reply(r, 500, NoPayment) \/ Left(r)
      BY <1>10, ZenonT(40) DEF Fault, DbError, CommitAppliedButFailed, Vanish, Left
    <3>2. 500 \in Codes /\ NoPayment \in Requests \cup {NoPayment}
      BY DEF Codes
    <3> QED
      BY <3>1, <3>2, ZenonT(40) DEF Told
  <2>3. UNCHANGED tables \/ (pc[r] = "commit" /\ WriteRows(r))
    BY <1>10, ZenonT(40) DEF Fault, DbError, CommitAppliedButFailed, Vanish
  <2> QED
    BY <2>1, <2>2, <2>3, ZenonT(40) DEF Shape, Stores
<1> QED
  BY <1>1, <1>2, <1>3, <1>4, <1>5, <1>6, <1>7, <1>8, <1>9, <1>10, ZenonT(40) DEF Step

\* The handler's own variables keep their types.
LEMMA LocalsTyped ==
  ASSUME TypeInv, NEW r \in Requests, Shape(r)
  PROVE  /\ pc' \in [Requests -> Labels]
         /\ answer' \in [Requests -> [code : {0} \cup Codes, id : Requests \cup {NoPayment}]]
         /\ quotes' \in [Requests -> QuoteMaps]
         /\ hop' \in [Requests -> ProviderNames \cup SimBridges \cup {NoBridge}]
<1>1. /\ pc \in [Requests -> Labels]
      /\ answer \in [Requests -> [code : {0} \cup Codes, id : Requests \cup {NoPayment}]]
      /\ quotes \in [Requests -> QuoteMaps]
      /\ hop \in [Requests -> ProviderNames \cup SimBridges \cup {NoBridge}]
  BY ZenonT(40) DEF TypeInv, TypeOK, Labels, QuoteMaps
<1>2. NoQuotes \in QuoteMaps
  <2>1. NoQuotes \in [{} -> Fees]
    BY ZenonT(40) DEF NoQuotes
  <2> QED
    BY <2>1, ZenonT(40) DEF QuoteMaps
<1>3. CASE Told(r)
  BY <1>1, <1>2, <1>3 DEF Told, Reply, Return, Labels
<1>4. CASE Left(r)
  BY <1>1, <1>2, <1>4, ZenonT(40) DEF Left, Goto, Return, Labels
<1>5. ASSUME NEW l \in Active, WentOn(r, l)
      PROVE  pc' \in [Requests -> Labels] /\ UNCHANGED <<answer, quotes, hop>>
  BY <1>1, <1>5, ZenonT(40) DEF WentOn, Advance, Goto, Labels
<1>6. CASE Quoted(r)
  BY <1>1, <1>6 DEF Quoted, Goto, Labels, Active
<1>7. CASE Routed(r)
  BY <1>1, <1>7, ZenonT(40) DEF Routed, Goto, Labels, Active
<1> QED
  BY <1>1, <1>3, <1>4, <1>5, <1>6, <1>7, ZenonT(40) DEF Shape

\* A hop, once found, stays with its request, and the payment that a request
\* leaves behind is not made again.
LEMMA HopsKept ==
  ASSUME TypeInv, NEW r \in Requests, Shape(r)
  PROVE  HopInv'
<1> SUFFICES ASSUME NEW s \in Requests,
                    pc'[s] \in {"precheck", "begin", "insert", "commit"}
             PROVE  Fits(s, hop[s])'
  BY ZenonT(40) DEF HopInv
<1>1. /\ pc \in [Requests -> Labels]
      /\ DOMAIN quotes = Requests /\ DOMAIN hop = Requests
      /\ UNCHANGED body
  BY ZenonT(40) DEF TypeInv, TypeOK, Labels, Shape
<1>2. CASE s # r
  <2>1. pc'[s] = pc[s] /\ quotes'[s] = quotes[s] /\ hop'[s] = hop[s]
    BY <1>1, <1>2, ZenonT(40)
       DEF Shape, Told, Left, WentOn, Quoted, Routed, Reply, Return, Goto, Advance
  <2>2. Fits(s, hop[s])
    BY <2>1, ZenonT(40) DEF TypeInv, HopInv
  <2> QED
    BY <1>1, <2>1, <2>2, ZenonT(40) DEF Fits
<1>3. CASE s = r
  <2>1. ~Told(r) /\ ~Left(r) /\ ~Quoted(r)
    BY <1>1, <1>3, ZenonT(40) DEF Told, Left, Quoted, Reply, Goto
  <2>2. ASSUME NEW l \in Active, WentOn(r, l)
        PROVE  Fits(s, hop[s])'
    <3>1. pc'[r] = l /\ UNCHANGED <<quotes, hop>>
      BY <1>1, <2>2, ZenonT(40) DEF WentOn, Advance, Goto
    <3>2. pc[r] \in {"precheck", "begin", "insert", "commit"}
      BY <1>3, <2>2, <3>1, ZenonT(40) DEF WentOn
    <3>3. Fits(r, hop[r])
      BY <3>2, ZenonT(40) DEF TypeInv, HopInv
    <3> QED
      BY <1>1, <1>3, <3>1, <3>3, ZenonT(40) DEF Fits
  <2>3. CASE Routed(r)
    <3>1. PICK b : hop' = [hop EXCEPT ![r] = b] /\ Fits(r, b)
      BY <2>3, ZenonT(40) DEF Routed
    <3>2. hop'[r] = b /\ UNCHANGED quotes
      BY <1>1, <2>3, <3>1, ZenonT(40) DEF Routed
    <3> QED
      BY <1>1, <1>3, <3>1, <3>2, ZenonT(40) DEF Fits
  <2> QED
    BY <2>1, <2>2, <2>3, ZenonT(40) DEF Shape
<1> QED
  BY <1>2, <1>3

\* The rows of a commit have their types.
LEMMA RowsTyped ==
  ASSUME TypeInv, IInv, NEW r \in Requests, pc[r] = "commit"
  PROVE  /\ PaymentRow(r) \in [id : Requests, key : Keys, trip : Trips, amount : Nat,
                               mode : {"simulated", "testnet"},
                               provider : ProviderNames \cup {NoBridge}]
         /\ [id |-> r, bridge |-> hop[r]] \in [id : Requests, bridge : ProviderNames \cup SimBridges]
         /\ QuoteRows(r) \subseteq [id : Requests, provider : ProviderNames, fee : Fees,
                                    selected : BOOLEAN]
<1>1. /\ body[r] \in Bodies /\ key[r] \in Keys
      /\ body[r].trip \in Trips
      /\ body[r].amount.value \in Nat
      /\ body[r].mode \in {"simulated", "testnet"}
  BY BodiesAssumption, ZenonT(40) DEF TypeInv, TypeOK, Trips
<1>2. Fits(r, hop[r])
  BY ZenonT(40) DEF TypeInv, HopInv
<1>3. /\ hop[r] \in ProviderNames \cup SimBridges
      /\ body[r].mode = "testnet" => hop[r] \in ProviderNames
  BY <1>1, <1>2, RoutedBridge, ZenonT(40) DEF Fits
<1>4. PaymentRow(r) \in [id : Requests, key : Keys, trip : Trips, amount : Nat,
                         mode : {"simulated", "testnet"},
                         provider : ProviderNames \cup {NoBridge}]
  BY <1>1, <1>3, ZenonT(40) DEF PaymentRow
<1>5. ASSUME NEW i \in DOMAIN quotes[r]
      PROVE  Providers[i] \in ProviderNames /\ quotes[r][i] \in Fees
  <2>1. quotes \in [Requests -> UNION {[S -> Fees] : S \in SUBSET DOMAIN Providers}]
    BY ZenonT(40) DEF TypeInv, TypeOK
  <2>2. quotes[r] \in UNION {[S -> Fees] : S \in SUBSET DOMAIN Providers}
    BY <2>1
  <2>3. PICK S \in SUBSET DOMAIN Providers : quotes[r] \in [S -> Fees]
    BY <2>2, ZenonT(40)
  <2>4. i \in S /\ quotes[r][i] \in Fees
    BY <2>3
  <2> QED
    BY <2>3, <2>4, ZenonT(40) DEF ProviderNames
<1>6. QuoteRows(r) \subseteq [id : Requests, provider : ProviderNames, fee : Fees,
                              selected : BOOLEAN]
  <2> SUFFICES ASSUME NEW q \in QuoteRows(r)
               PROVE  q \in [id : Requests, provider : ProviderNames, fee : Fees,
                             selected : BOOLEAN]
    BY ZenonT(40)
  <2>1. PICK i \in DOMAIN quotes[r] :
          q = [id |-> r, provider |-> Providers[i], fee |-> quotes[r][i],
               selected |-> Providers[i] = hop[r]]
    BY ZenonT(40) DEF QuoteRows
  <2>2. (Providers[i] = hop[r]) \in BOOLEAN
    BY ZenonT(40)
  <2> QED
    BY <1>5, <2>1, <2>2, ZenonT(40)
<1> QED
  BY <1>3, <1>4, <1>6, ZenonT(40)

\* The tables keep their types.
LEMMA TablesTyped ==
  ASSUME TypeInv, IInv, NEW r \in Requests, Shape(r)
  PROVE  /\ payments' \subseteq [id : Requests, key : Keys, trip : Trips, amount : Nat,
                                 mode : {"simulated", "testnet"},
                                 provider : ProviderNames \cup {NoBridge}]
         /\ hops' \subseteq [id : Requests, bridge : ProviderNames \cup SimBridges]
         /\ stored' \subseteq [id : Requests, provider : ProviderNames, fee : Fees,
                               selected : BOOLEAN]
         /\ outbox' \subseteq Requests
<1>1. CASE UNCHANGED tables
  BY <1>1, ZenonT(40) DEF TypeInv, TypeOK, tables
<1>2. CASE pc[r] = "commit" /\ WriteRows(r)
  <2>1. /\ payments' = payments \cup {PaymentRow(r)}
        /\ hops' = hops \cup {[id |-> r, bridge |-> hop[r]]}
        /\ stored' = stored \cup QuoteRows(r)
        /\ outbox' = outbox \cup {r}
    BY <1>2, ZenonT(40) DEF WriteRows
  <2>2. PICK P, H, Q :
          /\ P = [id : Requests, key : Keys, trip : Trips, amount : Nat, mode : {"simulated", "testnet"},
                  provider : ProviderNames \cup {NoBridge}]
          /\ H = [id : Requests, bridge : ProviderNames \cup SimBridges]
          /\ Q = [id : Requests, provider : ProviderNames, fee : Fees, selected : BOOLEAN]
    BY ZenonT(40)
  <2>3. payments \subseteq P /\ hops \subseteq H /\ stored \subseteq Q /\ outbox \subseteq Requests
    BY <2>2, ZenonT(40) DEF TypeInv, TypeOK
  <2>4. PaymentRow(r) \in P /\ [id |-> r, bridge |-> hop[r]] \in H /\ QuoteRows(r) \subseteq Q
    BY <1>2, <2>2, RowsTyped, ZenonT(40)
  <2>5. payments' \subseteq P /\ hops' \subseteq H /\ stored' \subseteq Q /\ outbox' \subseteq Requests
    BY <2>1, <2>3, <2>4, ZenonT(40)
  <2> QED
    BY <2>2, <2>5, ZenonT(40)
<1> QED
  BY <1>1, <1>2, ZenonT(40) DEF Shape, Stores

\* Only BeginTx adds an open transaction, and it waits for a connection.
LEMMA PoolKept ==
  ASSUME TypeInv, NEW r \in Requests, Shape(r)
  PROVE  Cardinality(InTx') <= MaxOpenConns
<1>1. pc \in [Requests -> Labels] /\ Cardinality(InTx) <= MaxOpenConns
  BY ZenonT(40) DEF TypeInv, TypeOK, Labels
<1>2. IsFiniteSet(InTx) /\ InTx \subseteq Requests
  <2>1. InTx \in SUBSET Requests
    BY DEF InTx
  <2> QED
    BY <2>1, PoolAssumption, FS_Subset
<1>3. MaxOpenConns \in Nat /\ Cardinality(InTx) \in Nat
  BY <1>2, PoolAssumption, FS_CardinalityType, ZenonT(40)
<1>4. ASSUME InTx' \in SUBSET InTx
      PROVE  Cardinality(InTx') <= MaxOpenConns
  <2>1. IsFiniteSet(InTx') /\ Cardinality(InTx') <= Cardinality(InTx)
    BY <1>2, <1>4, FS_Subset, ZenonT(40)
  <2>2. Cardinality(InTx') \in Nat
    BY <2>1, FS_CardinalityType, ZenonT(40)
  <2> QED
    BY <1>1, <1>3, <2>1, <2>2
<1>5. ASSUME Told(r) \/ Left(r) \/ Quoted(r) \/ Routed(r)
      PROVE  InTx' \in SUBSET InTx
  BY <1>1, <1>5, ZenonT(40) DEF InTx, Told, Left, Quoted, Routed, Reply, Goto
<1>6. ASSUME NEW l \in Active, WentOn(r, l), l # "insert"
      PROVE  InTx' \in SUBSET InTx
  BY <1>1, <1>6 DEF InTx, WentOn, Advance, Goto
<1>7. ASSUME WentOn(r, "insert")
      PROVE  Cardinality(InTx') <= MaxOpenConns
  <2>1. InTx' = InTx \cup {r} /\ r \notin InTx /\ FreeConn
    BY <1>1, <1>7, ZenonT(40) DEF InTx, WentOn, Advance, Goto
  <2>2. Cardinality(InTx \cup {r}) = Cardinality(InTx) + 1
    BY <1>2, <2>1, FS_AddElement, ZenonT(40)
  <2> QED
    BY <1>3, <2>1, <2>2 DEF FreeConn
<1> QED
  BY <1>4, <1>5, <1>6, <1>7, ZenonT(40) DEF Shape

\* The request whose rows are committed is over.
LEMMA DoneKept ==
  ASSUME TypeInv, NEW r \in Requests, Shape(r), pc[r] \notin {"answered", "gone"}
  PROVE  DoneInv'
<1>1. /\ pc \in [Requests -> Labels]
      /\ \A p \in payments : p.id \in Requests /\ pc[p.id] \in {"answered", "gone"}
  BY ZenonT(40) DEF TypeInv, TypeOK, Labels, DoneInv
<1>2. \A s \in Requests : s # r => pc'[s] = pc[s]
  BY <1>1, ZenonT(40) DEF Shape, Told, Left, WentOn, Quoted, Routed, Reply, Goto, Advance
<1>3. \A p \in payments : pc'[p.id] \in {"answered", "gone"}
  BY <1>1, <1>2, ZenonT(40)
<1>4. CASE UNCHANGED tables
  BY <1>3, <1>4, ZenonT(40) DEF DoneInv, tables
<1>5. CASE pc[r] = "commit" /\ WriteRows(r) /\ (Told(r) \/ Left(r))
  <2>1. pc'[r] \in {"answered", "gone"}
    BY <1>1, <1>5, ZenonT(40) DEF Told, Left, Reply, Goto
  <2>2. payments' = payments \cup {PaymentRow(r)} /\ PaymentRow(r).id = r
    BY <1>5, ZenonT(40) DEF WriteRows, PaymentRow
  <2> QED
    BY <1>3, <2>1, <2>2, ZenonT(40) DEF DoneInv
<1> QED
  BY <1>4, <1>5, ZenonT(40) DEF Shape, Stores

\* Initially every variable has its type.
LEMMA InitTypeInv == Init => TypeInv
<1> SUFFICES ASSUME Init
             PROVE  TypeInv
  OBVIOUS
<1>1. NoQuotes \in QuoteMaps
  <2>1. NoQuotes \in [{} -> Fees]
    BY DEF NoQuotes
  <2> QED
    BY <2>1, ZenonT(40) DEF QuoteMaps
<1>2. InTx = {}
  BY DEF Init, InTx
<1>3. Cardinality(InTx) <= MaxOpenConns
  <2>1. Cardinality(InTx) = 0
    BY <1>2, FS_EmptySet, ZenonT(40)
  <2> QED
    BY <2>1, PoolAssumption
<1>4. TypeOK
  <2>1. NotAnswered \in [code : {0} \cup Codes, id : Requests \cup {NoPayment}]
    BY DEF NotAnswered
  <2>2. faults \in 0..MaxFaults
    BY PoolAssumption DEF Init
  <2> QED
    BY <1>1, <1>3, <2>1, <2>2, ZenonT(40) DEF Init, TypeOK, QuoteMaps
<1>5. HopInv /\ DoneInv
  BY ZenonT(40) DEF Init, HopInv, DoneInv
<1> QED
  BY <1>4, <1>5, ZenonT(40) DEF TypeInv

\* A step of a request that is not over.
LEMMA NotOver ==
  ASSUME NEW r \in Requests, Receive(r) \/ Step(r) \/ Fault(r)
  PROVE  pc[r] \notin {"answered", "gone"}
  BY ZenonT(40) DEF Receive, Step, Fault, Lookup, GetQuotes, FindRoute, PreCheck, BeginTx, InsertPayment,
         ReRead, Commit, DbError, CommitAppliedButFailed, Vanish, Active

\* Every step keeps the types.
LEMMA NextTypeInv == IInv /\ TypeInv /\ [Next]_vars => TypeInv'
<1> SUFFICES ASSUME IInv, TypeInv, [Next]_vars
             PROVE  TypeInv'
  OBVIOUS
<1>1. CASE Next
  <2>1. PICK r \in Requests : Receive(r) \/ Step(r) \/ Fault(r)
    BY <1>1 DEF Next
  <2>2. Shape(r)
    BY <2>1, StepShape, ZenonT(40)
  <2>3. key' \in [Requests -> Keys] /\ body' \in [Requests -> Bodies]
    BY <2>2, ZenonT(40) DEF Shape, TypeInv, TypeOK
  <2>4. late' \subseteq Requests /\ faults' \in 0..MaxFaults
    BY <2>2, ZenonT(40) DEF Shape, TypeInv, TypeOK
  <2>5. /\ pc' \in [Requests -> Labels]
        /\ answer' \in [Requests -> [code : {0} \cup Codes, id : Requests \cup {NoPayment}]]
        /\ quotes' \in [Requests -> QuoteMaps]
        /\ hop' \in [Requests -> ProviderNames \cup SimBridges \cup {NoBridge}]
    BY <2>2, LocalsTyped
  <2>6. TypeOK'
    BY <2>2, <2>3, <2>4, <2>5, TablesTyped, PoolKept, ZenonT(40) DEF TypeOK, Labels, QuoteMaps
  <2>7. HopInv' /\ DoneInv'
    BY <2>1, <2>2, HopsKept, DoneKept, NotOver, ZenonT(40)
  <2> QED
    BY <2>6, <2>7 DEF TypeInv
<1>2. CASE UNCHANGED vars
  <2>1. TypeOK'
    BY <1>2, ZenonT(40) DEF TypeInv, TypeOK, InTx, vars
  <2>2. HopInv' /\ DoneInv'
    BY <1>2, ZenonT(40) DEF TypeInv, HopInv, DoneInv, Fits, vars
  <2> QED
    BY <2>1, <2>2, ZenonT(40) DEF TypeInv
<1> QED
  BY <1>1, <1>2

\* The types, the hop of every request and the end of every creator hold in
\* every reachable state.
THEOREM AlwaysTypeInv == Spec => []TypeInv
<1>1. Init => TypeInv
  BY InitTypeInv
<1>2. IInv /\ TypeInv /\ [Next]_vars => TypeInv'
  BY NextTypeInv
<1> QED
  BY <1>1, <1>2, Inductive, PTL DEF Spec

\* Every variable has its type, and BeginTx never has more transactions open
\* than SetMaxOpenConns allows.
THEOREM TypeCorrect == Spec => []TypeOK
<1>1. TypeInv => TypeOK
  BY ZenonT(40) DEF TypeInv
<1> QED
  BY <1>1, AlwaysTypeInv, PTL

-----------------------------------------------------------------------------
\* The quote rows of a testnet request: one is selected, that of the hop's
\* provider, and none is cheaper by a float64 step.
LEMMA QuoteRowsSelect ==
  ASSUME TypeInv, IInv, NEW r \in Requests, pc[r] = "commit", body[r].mode = "testnet"
  PROVE  \E q \in QuoteRows(r) :
           /\ q.id = r /\ q.selected /\ q.provider = hop[r]
           /\ \A o \in QuoteRows(r) : o # q =>
                ~o.selected /\ o.provider # q.provider /\ q.fee < o.fee + FloatStep
<1> DEFINE c == CheapestEdge(quotes[r])
           row(i) == [id |-> r, provider |-> Providers[i], fee |-> quotes[r][i],
                      selected |-> Providers[i] = hop[r]]
<1>1. /\ quotes[r] \in QuoteMaps
      /\ c \in DOMAIN quotes[r]
      /\ \A j \in DOMAIN quotes[r] : FeeFloat(quotes[r][c]) <= FeeFloat(quotes[r][j])
  BY RoutedBridge, ZenonT(40)
<1>2. hop[r] = Providers[c]
  BY DEF TypeInv, HopInv, Fits
<1>3. /\ DOMAIN quotes[r] \subseteq DOMAIN Providers
      /\ \A j \in DOMAIN quotes[r] : quotes[r][j] \in Int
  <2>1. PICK S \in SUBSET DOMAIN Providers : quotes[r] \in [S -> Fees]
    BY <1>1, ZenonT(40) DEF QuoteMaps
  <2>2. Fees \subseteq Int
    BY ProvidersAssumption, ZenonT(40)
  <2> QED
    BY <2>1, <2>2, ZenonT(40)
<1>4. \A o \in QuoteRows(r) : \E i \in DOMAIN quotes[r] : o = row(i)
  BY ZenonT(40) DEF QuoteRows
<1>5. row(c) \in QuoteRows(r)
  BY <1>1, ZenonT(40) DEF QuoteRows
<1>6. /\ row(c).id = r
      /\ row(c).selected = (Providers[c] = hop[r])
      /\ row(c).provider = Providers[c]
      /\ row(c).fee = quotes[r][c]
  BY ZenonT(40)
<1>7. row(c).selected
  BY <1>2, <1>6, ZenonT(40)
<1>8. ASSUME NEW o \in QuoteRows(r), o # row(c)
      PROVE  ~o.selected /\ o.provider # row(c).provider /\ row(c).fee < o.fee + FloatStep
  <2>1. PICK i \in DOMAIN quotes[r] : o = row(i)
    BY <1>4, ZenonT(40)
  <2>2. i # c
    BY <1>8, <2>1, ZenonT(40)
  <2>3. Providers[i] # Providers[c]
    BY <1>1, <1>3, <2>2, ProvidersAssumption, ZenonT(40)
  <2>4. o.provider = Providers[i] /\ o.fee = quotes[r][i] /\ o.selected = (Providers[i] = hop[r])
    BY <2>1, ZenonT(40)
  <2>5. quotes[r][c] < quotes[r][i] + FloatStep
    BY <1>1, <1>3, FloatClose, ZenonT(40)
  <2> HIDE DEF row, c
  <2>6. ~o.selected
    BY <1>2, <2>3, <2>4, ZenonT(40)
  <2> QED
    BY <1>6, <2>3, <2>4, <2>5, <2>6, ZenonT(40)
<1> HIDE DEF row, c
<1>9. row(c).provider = hop[r]
  BY <1>2, <1>6, ZenonT(40)
<1> QED
  BY <1>5, <1>6, <1>7, <1>8, <1>9, ZenonT(40)

\* A commit keeps the quotes of other payments, and adds its own.
LEMMA SelectionKept ==
  ASSUME TypeInv, IInv, SelectedQuoteExecutes, NEW r \in Requests, Shape(r)
  PROVE  SelectedQuoteExecutes'
<1>1. CASE UNCHANGED tables
  <2>1. payments' = payments /\ hops' = hops /\ stored' = stored
    BY <1>1, ZenonT(40) DEF tables
  <2> QED
    BY <2>1 DEF SelectedQuoteExecutes
<1>2. CASE pc[r] = "commit" /\ WriteRows(r)
  <2>1. /\ payments' = payments \cup {PaymentRow(r)}
        /\ hops' = hops \cup {[id |-> r, bridge |-> hop[r]]}
        /\ stored' = stored \cup QuoteRows(r)
    BY <1>2, ZenonT(40) DEF WriteRows
  <2>2. \A p \in payments : p.id # r
    BY <1>2 DEF TypeInv, DoneInv
  <2>3. \A q \in stored : q.id # r
    <3>1. {q.id : q \in stored} \subseteq {p.id : p \in payments}
      BY ZenonT(40) DEF IInv, PaymentIsComplete
    <3>2. ASSUME NEW q \in stored
          PROVE  q.id # r
      <4>1. q.id \in {p.id : p \in payments}
        BY <3>1, ZenonT(40)
      <4>2. PICK p \in payments : q.id = p.id
        BY <4>1, ZenonT(40)
      <4> QED
        BY <2>2, <4>2, ZenonT(40)
    <3> QED
      BY <3>2, ZenonT(40)
  <2>4. \A q \in QuoteRows(r) : q.id = r
    BY DEF QuoteRows
  <2>5. ASSUME NEW p \in payments, p.mode = "testnet"
        PROVE  \E q \in stored' :
                 /\ q.id = p.id /\ q.selected
                 /\ q.provider = p.provider
                 /\ [id |-> p.id, bridge |-> q.provider] \in hops'
                 /\ \A o \in stored' : o.id = p.id /\ o # q =>
                      ~o.selected /\ o.provider # q.provider /\ q.fee < o.fee + FloatStep
    <3>1. PICK q \in stored :
            /\ q.id = p.id /\ q.selected
            /\ q.provider = p.provider
            /\ [id |-> p.id, bridge |-> q.provider] \in hops
            /\ \A o \in stored : o.id = p.id /\ o # q =>
                 ~o.selected /\ o.provider # q.provider /\ q.fee < o.fee + FloatStep
      BY <2>5, ZenonT(40) DEF SelectedQuoteExecutes
    <3>2. \A o \in stored' : o.id = p.id => o \in stored
      BY <2>1, <2>2, <2>4, ZenonT(40)
    <3> QED
      BY <2>1, <3>1, <3>2, ZenonT(40)
  <2>6. ASSUME body[r].mode = "testnet"
        PROVE  \E q \in stored' :
                 /\ q.id = r /\ q.selected
                 /\ q.provider = hop[r]
                 /\ [id |-> r, bridge |-> q.provider] \in hops'
                 /\ \A o \in stored' : o.id = r /\ o # q =>
                      ~o.selected /\ o.provider # q.provider /\ q.fee < o.fee + FloatStep
    <3>1. PICK q \in QuoteRows(r) :
            /\ q.id = r /\ q.selected /\ q.provider = hop[r]
            /\ \A o \in QuoteRows(r) : o # q =>
                 ~o.selected /\ o.provider # q.provider /\ q.fee < o.fee + FloatStep
      BY <1>2, <2>6, QuoteRowsSelect, ZenonT(40)
    <3>2. \A o \in stored' : o.id = r => o \in QuoteRows(r)
      BY <2>1, <2>3, ZenonT(40)
    <3> QED
      BY <2>1, <3>1, <3>2, ZenonT(40)
  <2>7. /\ PaymentRow(r).id = r
        /\ PaymentRow(r).mode = body[r].mode
        /\ body[r].mode = "testnet" => PaymentRow(r).provider = hop[r]
    BY ZenonT(40) DEF PaymentRow
  <2>8. ASSUME NEW p \in payments', p.mode = "testnet"
        PROVE  \E q \in stored' :
                 /\ q.id = p.id /\ q.selected
                 /\ q.provider = p.provider
                 /\ [id |-> p.id, bridge |-> q.provider] \in hops'
                 /\ \A o \in stored' : o.id = p.id /\ o # q =>
                      ~o.selected /\ o.provider # q.provider /\ q.fee < o.fee + FloatStep
    <3>1. CASE p \in payments
      BY <2>5, <2>8, <3>1, ZenonT(40)
    <3>2. CASE p = PaymentRow(r)
      BY <2>6, <2>7, <2>8, <3>2, ZenonT(40)
    <3> QED
      BY <2>1, <3>1, <3>2, ZenonT(40)
  <2> QED
    BY <2>8, ZenonT(40) DEF SelectedQuoteExecutes
<1> QED
  BY <1>1, <1>2, ZenonT(40) DEF Shape, Stores

\* The worker finds exactly one selected quote for a testnet payment, that of
\* the provider its row and its hop name, and no stored quote is cheaper by a
\* float64 step.
THEOREM AlwaysSelectedQuoteExecutes == Spec => []SelectedQuoteExecutes
<1>1. Init => SelectedQuoteExecutes
  BY ZenonT(40) DEF Init, SelectedQuoteExecutes
<1>2. IInv /\ TypeInv /\ SelectedQuoteExecutes /\ [Next]_vars => SelectedQuoteExecutes'
  <2> SUFFICES ASSUME IInv, TypeInv, SelectedQuoteExecutes, [Next]_vars
               PROVE  SelectedQuoteExecutes'
    OBVIOUS
  <2>1. CASE Next
    BY <2>1, StepShape, SelectionKept, ZenonT(40) DEF Next
  <2>2. CASE UNCHANGED vars
    <3>1. payments' = payments /\ stored' = stored /\ hops' = hops
      BY <2>2 DEF vars
    <3> QED
      BY <3>1 DEF SelectedQuoteExecutes
  <2> QED
    BY <2>1, <2>2
<1> QED
  BY <1>1, <1>2, Inductive, AlwaysTypeInv, PTL DEF Spec

=============================================================================
