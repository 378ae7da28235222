--------------------------- MODULE BridgeQuotesProofs ---------------------------
(***************************************************************************)
(* Proofs about BridgeQuotes, for any amounts, any bodies the providers    *)
(* answer with, any limits and any tolerance.                              *)
(***************************************************************************)
EXTENDS BridgeQuotes, TLAPS

\* The fee of what goes in and what comes out.
Fee(input, output) == input - output

\* What a fresh quote and its envelope have to satisfy, once the executor has
\* accepted them.
Sound(h) ==
  /\ h.kind = "to sign"
  /\ h.env.to = Pinned[row.provider]
  /\ h.env.chain = "origin"
  /\ h.env.recipient = Wallet
  /\ h.env.value = DecimalToBaseUnits(column)
  /\ h.env.value <= MaxAmount
  /\ h.quote.provider = row.provider
  /\ WithinTolerance(Fee(DecimalToBaseUnits(column), h.env.output), row.fee)
  /\ row.provider = "across" => h.env.deadline = h.quote.payload.fillDeadline
  /\ row.provider = "relay" =>
       h.reference # NoReference /\ h.reference = h.quote.payload.requestId

\* The inductive invariant: what is held and what is signed was accepted
\* against the row and the amount that are still stored.
IInv ==
  /\ TypeOK
  /\ held # Nothing => Sound(held)
  /\ signed # Nothing => Sound(signed)
  /\ OnlyDefiniteWords

-----------------------------------------------------------------------------
\* exceedsSlippageTolerance lets a fee pass only if it is no more than the
\* baseline, or no more than the tolerance above a positive baseline.
LEMMA SlippageBound ==
  ASSUME NEW baseline \in Int, NEW fresh \in Int,
         ~exceedsSlippageTolerance(baseline, fresh)
  PROVE  WithinTolerance(fresh, baseline)
<1> SUFFICES \/ fresh <= baseline
             \/ baseline > 0 /\ fresh * 10000 <= baseline * (10000 + SlippageBps)
  BY DEF WithinTolerance
<1> DEFINE margin == baseline * SlippageBps
<1>1. margin \in Int
  BY LimitsAssumption
<1>2. baseline * (10000 + SlippageBps) = baseline * 10000 + margin
  BY LimitsAssumption
<1>3. CASE fresh <= baseline
  BY <1>3
<1>4. CASE fresh > baseline
  <2>1. baseline # 0 /\ (fresh - baseline) * 10000 <= margin
    BY <1>1, <1>4 DEF exceedsSlippageTolerance
  <2>2. (fresh - baseline) * 10000 > 0
    BY <1>4
  <2>3. margin > 0
    BY <1>1, <2>1, <2>2
  <2>4. baseline > 0
    <3>1. CASE baseline < 0
      <4>1. margin <= 0
        BY <3>1, LimitsAssumption
      <4> QED
        BY <1>1, <2>3, <4>1
    <3> QED
      BY <2>1, <3>1
  <2>5. fresh * 10000 <= baseline * 10000 + margin
    BY <1>1, <2>1
  <2> QED
    BY <1>2, <2>4, <2>5
<1> QED
  BY <1>3, <1>4

\* The fee of a quote is what goes in and does not come out.
LEMMA QuoteFee ==
  ASSUME NEW provider, NEW input \in Int, NEW output \in Int, NEW payload
  PROVE  /\ Quote(provider, input, output, payload).fee = Fee(input, output)
         /\ Fee(input, output) \in Int
  BY DEF Quote, Fee

\* A quote the Across client returns is for the amount asked, with an integer
\* output.
LEMMA AcrossQuoteShape ==
  ASSUME NEW input, NEW reply \in Replies("across"),
         NEW q, q = AcrossGetQuote(input, reply), q.kind # "error", q.kind # "unavailable"
  PROVE  /\ q = Quote("across", input, reply.body.outputAmount, reply.body)
         /\ reply.body.outputAmount \in Int
  BY ZenonT(40) DEF AcrossGetQuote, QuoteError, Unavailable, Replies, Quote

\* The same of the Relay client, whose quotes have a reference and name the
\* origin chain.
LEMMA RelayQuoteShape ==
  ASSUME NEW input, NEW reply \in Replies("relay"),
         NEW q, q = RelayGetQuote(input, reply), q.kind # "error", q.kind # "unavailable"
  PROVE  /\ q = Quote("relay", input, reply.body.minimumAmount, reply.body)
         /\ reply.body.minimumAmount \in Int
         /\ reply.body.requestId # NoReference
  BY ZenonT(40) DEF RelayGetQuote, QuoteError, Unavailable, Replies, Quote

\* An envelope the executor accepts is sound, whichever provider it is from.
LEMMA EnvelopeSound ==
  ASSUME row.provider \in Providers, row.fee \in Int,
         NEW reply \in Replies(row.provider),
         NEW input \in Int, input = DecimalToBaseUnits(column), ~(input > MaxAmount),
         NEW q, q = GetQuote(row.provider, input, reply),
         q.kind # "error", q.kind # "unavailable",
         ~exceedsSlippageTolerance(row.fee, q.fee),
         NEW env, env = BuildTransaction(q), env # Nothing, validateEnvelope(env, q),
         NEW verdict, verdict = ToSign(env, q)
  PROVE  Sound(verdict)
<1>2. input <= MaxAmount
  BY LimitsAssumption
<1>3. ASSUME NEW provider, NEW output \in Int, NEW payload,
             q = Quote(provider, input, output, payload), env.output = output
      PROVE  WithinTolerance(Fee(input, env.output), row.fee)
  <2>1. q.fee = Fee(input, output) /\ q.fee \in Int
    BY <1>3, QuoteFee
  <2>2. WithinTolerance(q.fee, row.fee)
    BY <2>1, SlippageBound
  <2> QED
    BY <1>3, <2>1, <2>2
<1>4. CASE row.provider = "across"
  <2>1. q = AcrossGetQuote(input, reply)
    BY <1>4 DEF GetQuote
  <2>3. /\ q = Quote("across", input, reply.body.outputAmount, reply.body)
        /\ reply.body.outputAmount \in Int
    BY <1>4, <2>1, AcrossQuoteShape
  <2>4. /\ q.provider = "across" /\ q.input = input /\ q.output = reply.body.outputAmount
    BY <2>3 DEF Quote
  <2>5. env = AcrossBuild(q)
    BY <2>4, ZenonT(40) DEF BuildTransaction
  <2>6. /\ env.to = SpokePool /\ env.chain = "origin" /\ env.recipient = Wallet
        /\ env.value = input /\ env.output = q.output
        /\ env.deadline = q.payload.fillDeadline
    BY <2>4, <2>5 DEF AcrossBuild
  <2>7. WithinTolerance(Fee(input, env.output), row.fee)
    BY <1>3, <2>3, <2>4, <2>6
  <2>8. Pinned[row.provider] = SpokePool
    BY <1>4 DEF Pinned
  <2> QED
    BY <1>2, <1>4, <2>4, <2>6, <2>7, <2>8, ZenonT(40) DEF Sound, ToSign
<1>5. CASE row.provider = "relay"
  <2>1. q = RelayGetQuote(input, reply)
    BY <1>5 DEF GetQuote
  <2>3. /\ q = Quote("relay", input, reply.body.minimumAmount, reply.body)
        /\ reply.body.minimumAmount \in Int
        /\ reply.body.requestId # NoReference
    BY <1>5, <2>1, RelayQuoteShape
  <2>4. /\ q.provider = "relay" /\ q.input = input /\ q.output = reply.body.minimumAmount
        /\ q.payload = reply.body
    BY <2>3 DEF Quote
  <2>5. env = RelayBuild(q)
    BY <2>4 DEF BuildTransaction
  <2>6. env.recipient = Wallet /\ env.output = q.output
    BY <2>5 DEF RelayBuild
  <2>7. env.to = Pinned["relay"] /\ env.chain = "origin" /\ env.value = input
    BY <1>5, <2>4 DEF validateEnvelope
  <2>8. WithinTolerance(Fee(input, env.output), row.fee)
    BY <1>3, <2>3, <2>4, <2>6
  <2>9. extractProviderReferenceID(q) = q.payload.requestId /\ q.payload.requestId # NoReference
    BY <2>3, <2>4 DEF extractProviderReferenceID
  <2> QED
    BY <1>2, <1>5, <2>4, <2>6, <2>7, <2>8, <2>9, ZenonT(40) DEF Sound, ToSign
<1> QED
  BY <1>4, <1>5 DEF Providers

\* What Judge accepts is sound.
LEMMA JudgeSound ==
  ASSUME row.provider \in Providers, row.fee \in Int,
         NEW reply \in Replies(row.provider),
         NEW verdict, verdict = Judge(reply), verdict.kind = "to sign"
  PROVE  Sound(verdict)
<1>1. PICK input : input = DecimalToBaseUnits(column)
  BY ZenonT(40)
<1>2. PICK q : q = GetQuote(row.provider, input, reply)
  BY ZenonT(40)
<1>3. PICK env : env = BuildTransaction(q)
  BY ZenonT(40)
<1>4. /\ input \in Int /\ ~(input > MaxAmount)
      /\ q.kind # "error" /\ q.kind # "unavailable"
      /\ ~exceedsSlippageTolerance(row.fee, q.fee)
      /\ env # Nothing
      /\ validateEnvelope(env, q)
      /\ verdict = ToSign(env, q)
  BY <1>1, <1>2, <1>3, ZenonT(40) DEF Judge
<1> QED
  BY <1>1, <1>2, <1>3, <1>4, EnvelopeSound, ZenonT(40)

\* Initially nothing is held or signed.
LEMMA InitIInv == Init => IInv
  BY ZenonT(40) DEF Init, IInv, TypeOK, OnlyDefiniteWords

\* What was accepted stays acceptable while the row and the amount are kept.
LEMMA SoundStable ==
  ASSUME NEW h, Sound(h), UNCHANGED <<row, column>>
  PROVE  /\ held' = h => Sound(held)'
         /\ signed' = h => Sound(signed)'
  BY ZenonT(40) DEF Sound

\* A payment fails before anything is signed.
LEMMA MarkProcessingFailedKeeps ==
  ASSUME IInv, stage \in {"routed", "allocated"}, held = Nothing, MarkProcessingFailed
  PROVE  IInv'
<1>1. TypeOK'
  BY DEF IInv, TypeOK, MarkProcessingFailed
<1>2. signed = Nothing /\ signed' = Nothing /\ held' = Nothing
  BY DEF IInv, TypeOK, MarkProcessingFailed
<1>3. OnlyDefiniteWords'
  BY <1>2 DEF MarkProcessingFailed, OnlyDefiniteWords
<1> QED
  BY <1>1, <1>2, <1>3 DEF IInv

\* What is held after a fresh reply was accepted by Judge, or is nothing.
LEMMA HoldKeeps ==
  ASSUME IInv, stage \in {"routed", "allocated"}, NEW thing,
         thing = Nothing \/ Sound(thing), Hold(thing, "allocated")
  PROVE  IInv'
<1>1. TypeOK'
  BY DEF IInv, TypeOK, Hold
<1>2. signed = Nothing /\ signed' = Nothing /\ held' = thing
  BY DEF IInv, TypeOK, Hold
<1>3. held' # Nothing => Sound(held)'
  BY <1>2, SoundStable DEF Hold
<1>4. OnlyDefiniteWords'
  BY <1>2 DEF Hold, OnlyDefiniteWords
<1> QED
  BY <1>1, <1>2, <1>3, <1>4 DEF IInv

\* A step that leaves every variable alone keeps the invariant.
LEMMA StutterKeeps == IInv /\ UNCHANGED vars => IInv'
<1> SUFFICES ASSUME IInv, UNCHANGED vars
             PROVE  IInv'
  OBVIOUS
<1>1. TypeOK' /\ OnlyDefiniteWords'
  BY DEF IInv, TypeOK, OnlyDefiniteWords, vars
<1>2. held' # Nothing => Sound(held)'
  BY SoundStable DEF IInv, vars
<1>3. signed' # Nothing => Sound(signed)'
  BY SoundStable DEF IInv, vars
<1> QED
  BY <1>1, <1>2, <1>3 DEF IInv

\* An attempt to execute a payment fails it, holds an envelope, or does nothing.
LEMMA AttemptEffect ==
  ASSUME NEW reply, ExecuteTestnetPayment(reply) \/ DriveExecutionForward(reply)
  PROVE  \/ MarkProcessingFailed
         \/ Judge(reply).kind = "to sign" /\ Hold(Judge(reply), "allocated")
         \/ UNCHANGED vars
<1>1. PICK verdict : verdict = Judge(reply)
  OBVIOUS
<1>2. verdict.kind \in {"retry", "refused", "too much", "to sign"}
  BY <1>1, ZenonT(40) DEF Judge, ToSign
<1> QED
  BY <1>1, <1>2, ZenonT(40) DEF ExecuteTestnetPayment, DriveExecutionForward

\* Every action keeps the invariant.
LEMMA NextIInv == IInv /\ Next => IInv'
<1> SUFFICES ASSUME IInv, Next
             PROVE  IInv'
  OBVIOUS
<1>1. ASSUME NEW p \in Providers, NEW reply \in Replies(p), Route(p, reply)
      PROVE  IInv'
  <2>1. stage = "new" /\ held = Nothing /\ signed = Nothing /\ held' = Nothing /\ signed' = Nothing
    BY <1>1 DEF IInv, TypeOK, Route
  <2>2. PICK input : input = DecimalToBaseUnits(asked)
    OBVIOUS
  <2>3. PICK q : q = GetQuote(p, input, reply)
    OBVIOUS
  <2>4. /\ input \in Int /\ q.kind = "quote" /\ stage' = "routed"
        /\ row' = [kind |-> "row", provider |-> p, input |-> input, fee |-> q.fee]
        /\ UNCHANGED <<asked, expired, held, signed, word>>
    BY <1>1, <2>2, <2>3 DEF Route
  <2>5. q.fee \in Int
    <3>1. CASE p = "across"
      <4>1. q = AcrossGetQuote(input, reply)
        BY <2>3, <3>1 DEF GetQuote
      <4>2. /\ q = Quote("across", input, reply.body.outputAmount, reply.body)
            /\ reply.body.outputAmount \in Int
        BY <2>4, <3>1, <4>1, AcrossQuoteShape
      <4> QED
        BY <2>4, <4>2, QuoteFee
    <3>2. CASE p = "relay"
      <4>1. q = RelayGetQuote(input, reply)
        BY <2>3, <3>2 DEF GetQuote
      <4>2. /\ q = Quote("relay", input, reply.body.minimumAmount, reply.body)
            /\ reply.body.minimumAmount \in Int
        BY <2>4, <3>2, <4>1, RelayQuoteShape
      <4> QED
        BY <2>4, <4>2, QuoteFee
    <3> QED
      BY <1>1, <3>1, <3>2 DEF Providers
  <2>6. row' # Nothing /\ row'.provider = p /\ row'.fee = q.fee
    BY <2>4 DEF Nothing
  <2>7. TypeOK'
    BY <2>1, <2>4, <2>5, <2>6 DEF IInv, TypeOK
  <2>8. OnlyDefiniteWords'
    BY <2>4 DEF OnlyDefiniteWords
  <2> QED
    BY <2>1, <2>7, <2>8 DEF IInv
<1>2. CASE Expire
  <2>1. TypeOK' /\ OnlyDefiniteWords'
    BY <1>2 DEF IInv, TypeOK, OnlyDefiniteWords, Expire
  <2>2. held' # Nothing => Sound(held)'
    BY <1>2, SoundStable DEF IInv, Expire
  <2>3. signed' # Nothing => Sound(signed)'
    BY <1>2, SoundStable DEF IInv, Expire
  <2> QED
    BY <2>1, <2>2, <2>3 DEF IInv
<1>3. ASSUME row # Nothing, NEW reply \in Replies(row.provider),
             ExecuteTestnetPayment(reply) \/ DriveExecutionForward(reply)
      PROVE  IInv'
  <2>1. row.provider \in Providers /\ row.fee \in Int
    BY <1>3 DEF IInv, TypeOK
  <2>2. stage \in {"routed", "allocated"} /\ held = Nothing
    BY <1>3, ZenonT(40) DEF IInv, TypeOK, ExecuteTestnetPayment, DriveExecutionForward
  <2>3. PICK verdict : verdict = Judge(reply)
    OBVIOUS
  <2>4. \/ MarkProcessingFailed
        \/ verdict.kind = "to sign" /\ Hold(verdict, "allocated")
        \/ UNCHANGED vars
    BY <1>3, <2>3, AttemptEffect, ZenonT(40)
  <2>5. CASE MarkProcessingFailed
    BY <2>2, <2>5, MarkProcessingFailedKeeps
  <2>6. CASE verdict.kind = "to sign" /\ Hold(verdict, "allocated")
    <3>1. Sound(verdict)
      BY <1>3, <2>1, <2>3, <2>6, JudgeSound, ZenonT(40)
    <3> QED
      BY <2>2, <2>6, <3>1, HoldKeeps, ZenonT(40)
  <2>7. CASE UNCHANGED vars
    BY <2>7, StutterKeeps
  <2> QED
    BY <2>4, <2>5, <2>6, <2>7, ZenonT(40)
<1>4. CASE LoseEnvelope
  BY <1>4, HoldKeeps DEF LoseEnvelope
<1>5. CASE SignAndBroadcastFresh
  <2>1. TypeOK'
    BY <1>5 DEF IInv, TypeOK, SignAndBroadcastFresh
  <2>2. held' = Nothing
    BY <1>5 DEF SignAndBroadcastFresh
  <2>3. Sound(held) /\ signed' = held /\ UNCHANGED <<row, column>>
    BY <1>5 DEF IInv, SignAndBroadcastFresh
  <2>4. Sound(signed)'
    BY <2>3, SoundStable
  <2>5. OnlyDefiniteWords'
    BY <1>5 DEF OnlyDefiniteWords, SignAndBroadcastFresh
  <2> QED
    BY <2>1, <2>2, <2>4, <2>5 DEF IInv
<1>6. ASSUME NEW receipt \in {"none", "reverted", "mined"}, NEW w \in Words \cup {"failed"},
             checkAndUpdateOutcome(receipt, w)
      PROVE  IInv'
  <2>1. PICK state : state = CheckStatus(row.provider, signed.reference, w)
    OBVIOUS
  <2>2. /\ stage = "signed" /\ signed # Nothing /\ held = Nothing /\ row.provider \in Providers
        /\ UNCHANGED <<asked, column, row, expired, held, signed>>
    BY <1>6 DEF IInv, TypeOK, checkAndUpdateOutcome
  <2>3. \/ stage' = "FAILED" /\ word' = "origin_reverted"
        \/ state = "filled" /\ stage' = "COMPLETED" /\ word' = w
        \/ state \in {"refunded", "fill_failed"} /\ stage' = "FAILED" /\ word' = w
        \/ UNCHANGED <<stage, word>>
    BY <1>6, <2>1 DEF checkAndUpdateOutcome
  <2>4. state = "filled" => w = IF row.provider = "across" THEN "filled" ELSE "success"
    BY <2>1, <2>2 DEF CheckStatus, acrossStatusToState, relayStatusToState, Providers
  <2>5. state \in {"refunded", "fill_failed"} =>
          w \in IF row.provider = "across" THEN {"expired", "refunded"} ELSE {"refund", "failure"}
    BY <2>1, <2>2 DEF CheckStatus, acrossStatusToState, relayStatusToState, Providers
  <2>6. state \in {"filled", "refunded", "fill_failed"} => w \in Words
    BY <1>6, <2>1, <2>2 DEF CheckStatus
  <2>7. TypeOK'
    BY <2>2, <2>3, <2>6 DEF IInv, TypeOK
  <2>8. OnlyDefiniteWords'
    BY <2>2, <2>3, <2>4, <2>5 DEF IInv, OnlyDefiniteWords
  <2>9. held' = Nothing
    BY <2>2
  <2>10. Sound(signed)'
    BY <2>2, SoundStable DEF IInv
  <2> QED
    BY <2>7, <2>8, <2>9, <2>10 DEF IInv
<1> QED
  BY <1>1, <1>2, <1>3, <1>4, <1>5, <1>6 DEF Next

\* The invariant holds in every reachable state.
THEOREM Inductive == Spec => []IInv
  BY InitIInv, NextIInv, StutterKeeps, PTL DEF Spec

\* For any bodies the providers answer with, types are kept: a nonce before
\* anything is signed, signed bytes before an outcome.
THEOREM TypeCorrect == Spec => []TypeOK
<1>1. IInv => TypeOK
  BY DEF IInv
<1> QED
  BY <1>1, Inductive, PTL

\* Whatever the providers answer, what is signed is what validateEnvelope and
\* the limits promise: the pinned contract, the origin chain, the worker's
\* wallet, the routed amount; and AcrossBuild never cuts a fill deadline.
THEOREM AlwaysSignedAsRouted == Spec => []SignedAsRouted
<1>1. IInv => SignedAsRouted
  BY ZenonT(40) DEF IInv, SignedAsRouted, Sound
<1> QED
  BY <1>1, Inductive, PTL

\* exceedsSlippageTolerance bounds the price of what is signed, at every
\* attempt, for every baseline and tolerance.
THEOREM AlwaysWithinTolerance == Spec => []FeeWithinTolerance
<1>1. ASSUME IInv
      PROVE  FeeWithinTolerance
  <2>1. ASSUME signed # Nothing
        PROVE  WithinTolerance(Fee(DecimalToBaseUnits(column), signed.env.output), row.fee)
    BY <1>1, <2>1, ZenonT(40) DEF IInv, Sound
  <2> QED
    BY <2>1 DEF FeeWithinTolerance, Fee
<1> QED
  BY <1>1, Inductive, PTL

\* A signed Relay execution always has the reference CheckStatus needs.
THEOREM AlwaysCanBeAsked == Spec => []OutcomeCanBeAsked
<1>1. IInv => OutcomeCanBeAsked
  BY ZenonT(40) DEF IInv, OutcomeCanBeAsked, Sound
<1> QED
  BY <1>1, Inductive, PTL

\* Whatever words the status endpoints answer, only the recognized terminal
\* ones end a broadcast payment.
THEOREM AlwaysDefiniteWords == Spec => []OnlyDefiniteWords
<1>1. IInv => OnlyDefiniteWords
  BY DEF IInv
<1> QED
  BY <1>1, Inductive, PTL

-----------------------------------------------------------------------------
(***************************************************************************)
(* Conversions between texts of digits and base units.                     *)
(***************************************************************************)
INSTANCE SetInduction

\* v[i] is the number the first i digits of d are read as.
Reading(d, v) ==
  /\ v \in [0..Len(d) -> Int]
  /\ v[0] = 0
  /\ \A i \in 1..Len(d) : v[i] = 10 * v[i - 1] + d[i]

\* Multiplying by ten, and appending a digit: facts of arithmetic that the
\* reading of digits needs.
LEMMA TimesTen == \A a, p \in Int : a * p \in Int /\ a * (10 * p) = 10 * (a * p)
OBVIOUS

\* A number above a digit is shifted with the digits in between.
LEMMA NextDigit == \A b, x, c \in Int : 10 * b + (10 * x + c) = 10 * (b + x) + c
OBVIOUS

\* Number reads digits from the left: whatever reads d digit by digit ends with
\* Number(d).
LEMMA NumberIs ==
  ASSUME NEW d \in Seq(Int), NEW v, Reading(d, v)
  PROVE  Number(d) = v[Len(d)] /\ Number(d) \in Int
<1> DEFINE upTo[i \in 0..Len(d)] == IF i = 0 THEN 0 ELSE 10 * upTo[i - 1] + d[i]
           T == {i \in 0..Len(d) : upTo[i] = v[i]}
<1>1. v = [i \in 0..Len(d) |-> IF i = 0 THEN 0 ELSE 10 * v[i - 1] + d[i]]
  BY DEF Reading
<1>2. upTo = [i \in 0..Len(d) |-> IF i = 0 THEN 0 ELSE 10 * upTo[i - 1] + d[i]]
  BY <1>1, ZenonT(40)
<1>3. Number(d) = upTo[Len(d)]
  BY DEF Number
<1> HIDE DEF upTo
<1>4. 0 \in T
  BY <1>2 DEF Reading
<1>5. ASSUME NEW i \in 0..(Len(d) - 1), i \in T
      PROVE  i + 1 \in T
  <2>1. i + 1 \in 1..Len(d) /\ (i + 1) - 1 = i
    OBVIOUS
  <2>2. upTo[i + 1] = 10 * upTo[i] + d[i + 1]
    BY <1>2, <2>1
  <2>3. v[i + 1] = 10 * v[i] + d[i + 1]
    BY <2>1 DEF Reading
  <2> QED
    BY <1>5, <2>1, <2>2, <2>3
<1>6. Len(d) \in Nat
  OBVIOUS
<1>7. 0..Len(d) \subseteq T
  <2> HIDE DEF T
  <2> QED
    BY <1>4, <1>5, <1>6, IntervalInduction, ZenonT(40)
<1>8. upTo[Len(d)] = v[Len(d)]
  BY <1>6, <1>7
<1> QED
  BY <1>3, <1>6, <1>8 DEF Reading

\* Every sequence of digits can be read.
LEMMA ReadingExists ==
  ASSUME NEW d \in Seq(Int)
  PROVE  \E v : Reading(d, v)
<1> DEFINE n == Len(d)
           step == [x \in (1..n) \X Int |-> 10 * x[2] + d[x[1]]]
<1>1. n \in Nat /\ 0 \in Int /\ step \in [(1..n) \X Int -> Int]
  OBVIOUS
<1>2. \A i \in 1..n, k \in Int : step[<<i, k>>] = 10 * k + d[i]
  OBVIOUS
<1> HIDE DEF step
<1>3. PICK v : Iterates(v, n, Int, 0, step)
  BY <1>1, IntervalRecursion, ZenonT(40)
<1>4. v \in [0..n -> Int] /\ v[0] = 0 /\ \A i \in 1..n : v[i] = step[<<i, v[i - 1]>>]
  BY <1>3 DEF Iterates
<1>5. ASSUME NEW i \in 1..n
      PROVE  v[i] = 10 * v[i - 1] + d[i]
  <2>1. v[i - 1] \in Int
    BY <1>1, <1>4
  <2> QED
    BY <1>2, <1>4, <2>1, ZenonT(40)
<1>6. Reading(d, v)
  BY <1>4, <1>5 DEF Reading
<1> QED
  BY <1>6

\* Digit by digit equal texts are the same number.
LEMMA NumberSame ==
  ASSUME NEW d \in Seq(Int), NEW e \in Seq(Int), Len(d) = Len(e),
         \A i \in 1..Len(d) : d[i] = e[i]
  PROVE  Number(d) = Number(e)
<1>1. PICK v : Reading(d, v)
  BY ReadingExists
<1>2. Reading(e, v)
  BY <1>1 DEF Reading
<1> QED
  BY <1>1, <1>2, NumberIs, ZenonT(40)

\* Zeros are digits.
LEMMA ZerosSeq ==
  ASSUME NEW n \in Nat
  PROVE  /\ Zeros(n) \in Seq(0..9) /\ Zeros(n) \in Seq(Int) /\ Len(Zeros(n)) = n
         /\ \A i \in 1..n : Zeros(n)[i] = 0
  BY DEF Zeros

\* A text of zeros is 0.
LEMMA NumberZeros ==
  ASSUME NEW n \in Nat
  PROVE  Number(Zeros(n)) = 0
<1>1. PICK z \in Seq(Int) : z = Zeros(n) /\ Len(z) = n /\ \A i \in 1..n : z[i] = 0
  BY ZerosSeq
<1> DEFINE v == [i \in 0..n |-> 0]
<1>2. Reading(z, v)
  BY <1>1 DEF Reading
<1> HIDE DEF v
<1>3. Number(z) = v[n]
  BY <1>1, <1>2, NumberIs
<1>4. v[n] = 0
  BY DEF v
<1> QED
  BY <1>1, <1>3, <1>4

\* A one and n zeros: the digits of a power of ten.
LEMMA PowerDigits ==
  ASSUME NEW n \in Nat, NEW d, d = << 1 >> \o Zeros(n)
  PROVE  /\ d \in Seq(Int) /\ Len(d) = n + 1 /\ d[1] = 1
         /\ \A i \in 2..(n + 1) : d[i] = 0
<1>1. Zeros(n) \in Seq(Int) /\ Len(Zeros(n)) = n /\ \A i \in 1..n : Zeros(n)[i] = 0
  BY ZerosSeq
<1> HIDE DEF Zeros
<1>2. d \in Seq(Int) /\ Len(d) = n + 1
  BY <1>1
<1>3. ASSUME NEW i \in 2..(n + 1)
      PROVE  d[i] = 0
  <2>1. d[i] = Zeros(n)[i - 1]
    BY <1>1, <1>2
  <2> QED
    BY <1>1, <2>1
<1> QED
  BY <1>1, <1>2, <1>3

\* The powers of ten.
LEMMA TenToZero == TenTo(0) = 1
<1>1. PICK d : d = << 1 >> \o Zeros(0)
  BY ZenonT(40)
<1>2. d \in Seq(Int) /\ Len(d) = 1 /\ d[1] = 1
  <2>1. 0 \in Nat /\ 0 + 1 = 1
    OBVIOUS
  <2>2. d \in Seq(Int) /\ Len(d) = 0 + 1 /\ d[1] = 1
    BY <1>1, <2>1, PowerDigits, ZenonT(40)
  <2> QED
    BY <2>1, <2>2
<1> DEFINE v == [i \in 0..1 |-> i]
<1>3. Reading(d, v)
  BY <1>2 DEF Reading
<1> HIDE DEF v
<1>4. Number(d) = v[1]
  BY <1>2, <1>3, NumberIs, ZenonT(40)
<1>5. v[1] = 1
  BY DEF v
<1> QED
  BY <1>1, <1>4, <1>5 DEF TenTo

\* The next power of ten is ten times as much.
LEMMA TenToNext ==
  ASSUME NEW n \in Nat
  PROVE  TenTo(n) \in Int /\ TenTo(n + 1) = 10 * TenTo(n)
<1>1. PICK d, e : d = << 1 >> \o Zeros(n) /\ e = << 1 >> \o Zeros(n + 1)
  BY ZenonT(40)
<1>2. d \in Seq(Int) /\ Len(d) = n + 1 /\ d[1] = 1 /\ \A i \in 2..(n + 1) : d[i] = 0
  BY <1>1, PowerDigits, ZenonT(40)
<1>3. e \in Seq(Int) /\ Len(e) = n + 2 /\ e[1] = 1 /\ \A i \in 2..(n + 2) : e[i] = 0
  <2>1. PICK k \in Nat : k = n + 1
    OBVIOUS
  <2>2. e \in Seq(Int) /\ Len(e) = k + 1 /\ e[1] = 1 /\ \A i \in 2..(k + 1) : e[i] = 0
    BY <1>1, <2>1, PowerDigits, ZenonT(40)
  <2> QED
    BY <2>1, <2>2
<1>4. PICK v : Reading(d, v)
  BY <1>2, ReadingExists
<1>5. v \in [0..(n + 1) -> Int] /\ v[0] = 0 /\ \A i \in 1..(n + 1) : v[i] = 10 * v[i - 1] + d[i]
  BY <1>2, <1>4 DEF Reading
<1> DEFINE w == [i \in 0..(n + 2) |-> IF i <= n + 1 THEN v[i] ELSE 10 * v[n + 1]]
<1>6. w \in [0..(n + 2) -> Int] /\ w[0] = 0 /\ w[n + 2] = 10 * v[n + 1]
  BY <1>5
<1>7. ASSUME NEW i \in 1..(n + 2)
      PROVE  w[i] = 10 * w[i - 1] + e[i]
  <2>1. CASE i <= n + 1
    <3>1. i \in 1..(n + 1) /\ w[i] = v[i] /\ w[i - 1] = v[i - 1]
      BY <2>1
    <3>2. e[i] = d[i]
      BY <1>2, <1>3, <3>1
    <3> QED
      BY <1>5, <3>1, <3>2
  <2>2. CASE i = n + 2
    BY <1>3, <1>5, <1>6, <2>2
  <2> QED
    BY <2>1, <2>2
<1> HIDE DEF w
<1>8. Reading(e, w)
  BY <1>3, <1>6, <1>7 DEF Reading
<1>9. Number(d) = v[n + 1] /\ Number(e) = w[n + 2] /\ Number(d) \in Int
  BY <1>2, <1>3, <1>4, <1>8, NumberIs
<1> QED
  BY <1>1, <1>6, <1>9 DEF TenTo

\* Powers of ten grow: n digits suffice for n.
LEMMA TenToGrows ==
  ASSUME NEW n \in Nat
  PROVE  TenTo(n) \in Nat /\ TenTo(n) > n
<1> DEFINE T == {k \in Nat : TenTo(k) \in Nat /\ TenTo(k) > k}
<1>1. 0 \in T
  BY TenToZero
<1>2. ASSUME NEW k \in Nat, k \in T
      PROVE  k + 1 \in T
  BY <1>2, TenToNext
<1>3. Nat \subseteq T
  <2> HIDE DEF T
  <2> QED
    BY <1>1, <1>2, NatSetInduction
<1> QED
  BY <1>3

\* A text read after another one shifts it to the left.
LEMMA NumberConcat ==
  ASSUME NEW s \in Seq(Int), NEW t \in Seq(Int)
  PROVE  Number(s \o t) = Number(s) * TenTo(Len(t)) + Number(t)
<1>1. PICK m, n : m = Len(s) /\ n = Len(t)
  BY ZenonT(40)
<1>2. PICK d : d = s \o t
  BY ZenonT(40)
<1>3. /\ m \in Nat /\ n \in Nat /\ d \in Seq(Int) /\ Len(d) = m + n
      /\ \A i \in 1..m : d[i] = s[i]
      /\ \A i \in 1..n : d[m + i] = t[i]
  BY <1>1, <1>2
<1>4. PICK x : Reading(s, x)
  BY ReadingExists
<1>5. PICK y : Reading(t, y)
  BY ReadingExists
<1>6. x \in [0..m -> Int] /\ x[0] = 0 /\ \A i \in 1..m : x[i] = 10 * x[i - 1] + s[i]
  BY <1>1, <1>4 DEF Reading
<1>7. y \in [0..n -> Int] /\ y[0] = 0 /\ \A i \in 1..n : y[i] = 10 * y[i - 1] + t[i]
  BY <1>1, <1>5 DEF Reading
<1>8. PICK a \in Int : a = x[m]
  BY <1>3, <1>6
<1> DEFINE w == [i \in 0..(m + n) |-> IF i <= m THEN x[i] ELSE a * TenTo(i - m) + y[i - m]]
<1>9. \A i \in 0..m : w[i] = x[i]
  BY <1>3
<1>10. ASSUME NEW i \in 0..n
       PROVE  w[m + i] = a * TenTo(i) + y[i] /\ a * TenTo(i) \in Int /\ w[m + i] \in Int
  <2>a. i \in Nat /\ y[i] \in Int
    BY <1>3, <1>7
  <2>1. TenTo(i) \in Int /\ y[i] \in Int
    BY <2>a, TenToNext
  <2>2. a * TenTo(i) \in Int
    BY <1>8, <2>1
  <2>3. CASE i = 0
    <3>1. w[m + i] = a
      BY <1>3, <1>6, <1>8, <2>3
    <3> QED
      BY <1>7, <2>2, <2>3, <3>1, TenToZero
  <2>4. CASE i # 0
    <3>1. m + i \in 0..(m + n) /\ ~(m + i <= m) /\ (m + i) - m = i
      BY <1>3, <2>4
    <3>2. w[m + i] = a * TenTo(i) + y[i]
      BY <3>1
    <3> QED
      BY <2>1, <2>2, <3>2
  <2> QED
    BY <2>3, <2>4, ZenonT(40)
<1>11. w \in [0..(m + n) -> Int]
  <2> SUFFICES ASSUME NEW i \in 0..(m + n)
               PROVE  w[i] \in Int
    OBVIOUS
  <2> HIDE DEF w
  <2>1. CASE i <= m
    BY <1>3, <1>6, <1>9, <2>1
  <2>2. CASE i > m
    <3>1. i - m \in 0..n /\ i = m + (i - m)
      BY <1>3, <2>2
    <3> QED
      BY <1>10, <3>1
  <2> QED
    BY <1>3, <2>1, <2>2
<1> HIDE DEF w
<1>12. ASSUME NEW i \in 1..(m + n)
       PROVE  w[i] = 10 * w[i - 1] + d[i]
  <2>1. CASE i <= m
    <3>1. i \in 1..m /\ i \in 0..m /\ i - 1 \in 0..m
      BY <1>3, <2>1
    <3> QED
      BY <1>3, <1>6, <1>9, <3>1, ZenonT(40)
  <2>2. CASE i > m
    <3>1. PICK j \in 1..n : i = m + j
      <4>1. i - m \in 1..n /\ i = m + (i - m)
        BY <1>3, <2>2
      <4> QED
        BY <4>1
    <3>2. j - 1 \in Nat /\ j \in 0..n /\ j - 1 \in 0..n /\ i - 1 = m + (j - 1) /\ (j - 1) + 1 = j
      BY <1>3, <3>1
    <3>3. w[i] = a * TenTo(j) + y[j] /\ w[i - 1] = a * TenTo(j - 1) + y[j - 1]
      BY <1>10, <3>1, <3>2
    <3>4. PICK p \in Int : p = TenTo(j - 1) /\ TenTo(j) = 10 * p
      BY <3>2, TenToNext
    <3>5. y[j] = 10 * y[j - 1] + t[j] /\ d[i] = t[j]
      BY <1>3, <1>7, <3>1, ZenonT(40)
    <3>6. y[j - 1] \in Int
      BY <1>7, <3>2, ZenonT(40)
    <3>7. t[j] \in Int
      BY <1>1
    <3>8. PICK b \in Int : b = a * p /\ a * (10 * p) = 10 * b
      BY <1>8, <3>4, TimesTen, ZenonT(40)
    <3>9. w[i] = 10 * b + y[j] /\ w[i - 1] = b + y[j - 1]
      BY <3>3, <3>4, <3>8
    <3>10. 10 * b + (10 * y[j - 1] + t[j]) = 10 * (b + y[j - 1]) + t[j]
      BY <3>6, <3>7, NextDigit, ZenonT(40)
    <3> QED
      BY <3>5, <3>9, <3>10, ZenonT(40)
  <2> QED
    BY <1>3, <2>1, <2>2
<1>13. Reading(d, w)
  <2>1. w[0] = 0
    BY <1>3, <1>6, <1>9
  <2> QED
    BY <1>3, <1>11, <1>12, <2>1 DEF Reading
<1>14. Number(d) = w[m + n] /\ Number(s) = a /\ Number(t) = y[n]
  BY <1>1, <1>3, <1>4, <1>5, <1>8, <1>13, NumberIs, ZenonT(40)
<1>15. w[m + n] = a * TenTo(n) + y[n]
  <2>1. n \in 0..n
    BY <1>3
  <2> QED
    BY <1>10, <2>1
<1> QED
  BY <1>1, <1>2, <1>14, <1>15

\* Digits are integers.
LEMMA DigitsAreInts ==
  ASSUME NEW d \in Seq(0..9)
  PROVE  d \in Seq(Int)
  OBVIOUS

\* Digits are never a negative number.
LEMMA NumberNat ==
  ASSUME NEW d \in Seq(0..9)
  PROVE  Number(d) \in Nat
<1>1. d \in Seq(Int) /\ Len(d) \in Nat
  BY DigitsAreInts
<1>2. PICK v : Reading(d, v)
  BY <1>1, ReadingExists
<1> DEFINE T == {i \in 0..Len(d) : v[i] >= 0}
<1>3. 0 \in T
  BY <1>1, <1>2 DEF Reading
<1>4. ASSUME NEW i \in 0..(Len(d) - 1), i \in T
      PROVE  i + 1 \in T
  <2>1. i + 1 \in 1..Len(d) /\ (i + 1) - 1 = i /\ d[i + 1] \in 0..9
    BY <1>1
  <2>2. v[i + 1] = 10 * v[i] + d[i + 1] /\ v[i] \in Int
    BY <1>2, <2>1 DEF Reading
  <2>3. v[i] >= 0
    BY <1>4
  <2>4. v[i + 1] >= 0
    BY <2>1, <2>2, <2>3
  <2> QED
    BY <2>1, <2>4
<1>5. 0..Len(d) \subseteq T
  <2> HIDE DEF T
  <2> QED
    BY <1>1, <1>3, <1>4, IntervalInduction, ZenonT(40)
<1>6. v[Len(d)] >= 0
  BY <1>1, <1>5
<1> QED
  BY <1>1, <1>2, <1>6, NumberIs

\* Quotient and remainder determine each other.
LEMMA QuotientUnique ==
  ASSUME NEW n \in Nat, NEW d \in Nat \ {0}, NEW q \in Nat, NEW r \in Nat,
         n = d * q + r, r < d
  PROVE  n \div d = q
<1>1. PICK k \in Nat : k = n \div d
  OBVIOUS
<1>2. PICK m \in Nat : n = d * k + m /\ m < d
  BY <1>1
<1>3. CASE k < q
  <2>1. d * (k + 1) <= d * q
    BY <1>3
  <2>2. d * (k + 1) = d * k + d
    OBVIOUS
  <2> QED
    BY <1>2, <2>1, <2>2
<1>4. CASE q < k
  <2>1. d * (q + 1) <= d * k
    BY <1>4
  <2>2. d * (q + 1) = d * q + d
    OBVIOUS
  <2> QED
    BY <1>2, <2>1, <2>2
<1> QED
  BY <1>1, <1>3, <1>4

\* Dividing by a power of ten and once more by ten.
LEMMA DivideTwice ==
  ASSUME NEW n \in Nat, NEW p \in Nat \ {0}
  PROVE  n \div p \in Nat /\ (n \div p) \div 10 = n \div (10 * p)
<1>1. PICK q \in Nat, r \in Nat : q = n \div p /\ n = p * q + r /\ r < p
  OBVIOUS
<1>2. PICK u \in Nat, v \in Nat : u = q \div 10 /\ q = 10 * u + v /\ v <= 9
  OBVIOUS
<1>3. p * q = (10 * p) * u + p * v
  BY <1>2
<1>4. p * v <= p * 9 /\ p * v \in Nat
  BY <1>2
<1>5. PICK w \in Nat : w = p * v + r /\ w < 10 * p
  BY <1>1, <1>4
<1>6. n = (10 * p) * u + w
  BY <1>1, <1>3, <1>5
<1>7. 10 * p \in Nat \ {0}
  OBVIOUS
<1>8. n \div (10 * p) = u
  BY <1>5, <1>6, <1>7, QuotientUnique
<1> QED
  BY <1>1, <1>2, <1>8, ZenonT(40)

\* Every number has a length.
LEMMA LengthExists ==
  ASSUME NEW n \in Nat
  PROVE  \E k \in 1..(n + 1) : n < TenTo(k) /\ (k = 1 \/ n >= TenTo(k - 1))
<1> DEFINE K == {k \in 1..(n + 1) : n < TenTo(k)}
<1>1. n + 1 \in K
  <2>1. PICK k \in Nat : k = n + 1
    OBVIOUS
  <2>2. TenTo(k) \in Nat /\ TenTo(k) > k
    BY TenToGrows
  <2> QED
    BY <2>1, <2>2
<1>2. IsFiniteSet(K)
  <2>1. K \subseteq 1..(n + 1) /\ n + 1 \in Nat
    OBVIOUS
  <2> HIDE DEF K
  <2> QED
    BY <2>1, SubsetOfInterval, ZenonT(40)
<1>3. PICK k \in K : \A j \in K : k <= j
  <2>1. K # {} /\ K \subseteq Int
    BY <1>1
  <2> HIDE DEF K
  <2> QED
    BY <1>2, <2>1, LeastInteger, ZenonT(40)
<1>4. ASSUME k # 1
      PROVE  n >= TenTo(k - 1)
  <2>1. k - 1 \in 1..(n + 1) /\ k - 1 \in Nat /\ ~(k <= k - 1)
    BY <1>4
  <2>2. k - 1 \notin K
    BY <1>3, <2>1
  <2>3. TenTo(k - 1) \in Nat
    BY <2>1, TenToGrows
  <2> QED
    BY <2>1, <2>2, <2>3
<1> QED
  BY <1>3, <1>4

\* Digits writes the number that Number reads.
LEMMA NumberDigits ==
  ASSUME NEW n \in Nat
  PROVE  Digits(n) \in Seq(0..9) /\ Len(Digits(n)) >= 1 /\ Number(Digits(n)) = n
<1>1. PICK k \in 1..(n + 1) :
        n < TenTo(k) /\ Digits(n) = [i \in 1..k |-> (n \div TenTo(k - i)) % 10]
  <2>1. PICK k : k = CHOOSE j \in 1..(n + 1) : n < TenTo(j) /\ (j = 1 \/ n >= TenTo(j - 1))
    OBVIOUS
  <2>2. k \in 1..(n + 1) /\ n < TenTo(k)
    BY <2>1, LengthExists, ZenonT(40)
  <2>3. Digits(n) = [i \in 1..k |-> (n \div TenTo(k - i)) % 10]
    BY <2>1 DEF Digits
  <2> QED
    BY <2>2, <2>3
<1>2. PICK d : d = Digits(n)
  OBVIOUS
<1>3. k \in Nat /\ k >= 1 /\ DOMAIN d = 1..k /\ \A i \in 1..k : d[i] = (n \div TenTo(k - i)) % 10
  BY <1>1, <1>2
<1>4. \A j \in Nat : TenTo(j) \in Nat \ {0}
  BY TenToGrows
<1>5. \A j \in Nat : n \div TenTo(j) \in Nat
  BY <1>4, DivideTwice, ZenonT(40)
<1>6. ASSUME NEW i \in 1..k
      PROVE  d[i] \in 0..9
  <2>1. k - i \in Nat
    BY <1>3
  <2>2. PICK q \in Nat : q = n \div TenTo(k - i)
    BY <1>5, <2>1
  <2>3. q % 10 \in 0..9
    OBVIOUS
  <2> QED
    BY <1>3, <2>2, <2>3, ZenonT(40)
<1>7. d \in Seq(0..9) /\ Len(d) = k
  <2>1. d = [i \in 1..k |-> d[i]]
    BY <1>1, <1>2
  <2> QED
    BY <1>3, <1>6, <2>1
<1> DEFINE v == [i \in 0..k |-> n \div TenTo(k - i)]
<1>8. \A i \in 0..k : v[i] = n \div TenTo(k - i)
  OBVIOUS
<1>9. v \in [0..k -> Int]
  <2>1. \A i \in 0..k : k - i \in Nat
    BY <1>3
  <2> QED
    BY <1>5, <2>1
<1> HIDE DEF v
<1>10. v[0] = 0 /\ v[k] = n
  <2>1. v[0] = n \div TenTo(k) /\ v[k] = n \div TenTo(0)
    BY <1>3, <1>8
  <2>2. PICK p \in Nat \ {0} : p = TenTo(k)
    BY <1>3, <1>4
  <2>3. n = p * 0 + n /\ n < p
    BY <1>1, <2>2
  <2>4. n \div p = 0
    BY <2>3, QuotientUnique
  <2> QED
    BY <2>1, <2>2, <2>4, TenToZero
<1>11. ASSUME NEW i \in 1..k
       PROVE  v[i] = 10 * v[i - 1] + d[i]
  <2>1. PICK j \in Nat : j = k - i /\ k - (i - 1) = j + 1
    BY <1>3
  <2>2. PICK p \in Nat \ {0} : p = TenTo(j) /\ TenTo(j + 1) = 10 * p
    BY <1>4, TenToNext, ZenonT(40)
  <2>3. PICK q \in Nat : q = n \div p /\ q \div 10 = n \div (10 * p)
    BY DivideTwice, ZenonT(40)
  <2>4. i \in 0..k /\ i - 1 \in 0..k
    BY <1>3
  <2>5. v[i] = q /\ v[i - 1] = q \div 10 /\ d[i] = q % 10
    BY <1>3, <1>8, <2>1, <2>2, <2>3, <2>4, ZenonT(40)
  <2>6. q = 10 * (q \div 10) + (q % 10)
    OBVIOUS
  <2> QED
    BY <2>5, <2>6
<1>12. Reading(d, v)
  BY <1>7, <1>9, <1>10, <1>11 DEF Reading
<1>13. d \in Seq(Int)
  BY <1>7, DigitsAreInts
<1>14. Number(d) = n
  BY <1>7, <1>10, <1>12, <1>13, NumberIs
<1> QED
  BY <1>2, <1>3, <1>7, <1>14

\* Zeros on the left do not count, and there are enough digits for a fraction
\* and a digit before the point.
LEMMA PaddedNumber ==
  ASSUME NEW d \in Seq(0..9)
  PROVE  /\ Padded(d) \in Seq(0..9) /\ Len(Padded(d)) >= Decimals + 1
         /\ Number(Padded(d)) = Number(d)
<1>0. Decimals \in Nat /\ Len(d) \in Nat
  BY LimitsAssumption
<1>1. CASE Len(d) <= Decimals
  <2>0. Decimals + 1 - Len(d) \in Nat
    BY <1>0, <1>1
  <2>1. PICK k \in Nat : k = Decimals + 1 - Len(d)
    BY <2>0, ZenonT(40)
  <2>2. PICK z : z = Zeros(k)
    OBVIOUS
  <2>3. z \in Seq(0..9) /\ z \in Seq(Int) /\ Len(z) = k /\ Number(z) = 0
    BY <2>2, ZerosSeq, NumberZeros
  <2>4. Padded(d) = z \o d
    BY <1>1, <2>1, <2>2, ZenonT(40) DEF Padded
  <2>5. z \o d \in Seq(0..9) /\ Len(z \o d) = Decimals + 1
    BY <1>0, <2>1, <2>3
  <2>6. Number(z \o d) = 0 * TenTo(Len(d)) + Number(d)
    BY <2>3, DigitsAreInts, NumberConcat
  <2>7. TenTo(Len(d)) \in Int /\ Number(d) \in Int
    BY <1>0, TenToNext, NumberNat
  <2> QED
    BY <1>0, <2>4, <2>5, <2>6, <2>7
<1>2. CASE ~(Len(d) <= Decimals)
  BY <1>0, <1>2 DEF Padded
<1> QED
  BY <1>1, <1>2, ZenonT(40)

\* The digits of a text put after another one.
LEMMA JoinedDigits ==
  ASSUME NEW a \in Seq(0..9), NEW b \in Seq(0..9), NEW c, c = a \o b
  PROVE  /\ c \in Seq(0..9) /\ Len(c) = Len(a) + Len(b)
         /\ \A i \in 1..Len(a) : c[i] = a[i]
         /\ \A i \in (Len(a) + 1)..(Len(a) + Len(b)) : c[i] = b[i - Len(a)]
OBVIOUS

\* A text is the number its two parts make up.
LEMMA PartsNumber ==
  ASSUME NEW s \in Seq(0..9), NEW a \in Seq(0..9), NEW b \in Seq(0..9),
         Len(s) = Len(a) + Len(b),
         \A i \in 1..Len(a) : s[i] = a[i],
         \A i \in (Len(a) + 1)..(Len(a) + Len(b)) : s[i] = b[i - Len(a)]
  PROVE  Number(s) = Number(a) * TenTo(Len(b)) + Number(b)
<1>1. PICK c : c = a \o b
  BY ZenonT(40)
<1>2. c \in Seq(0..9) /\ Len(c) = Len(a) + Len(b)
  BY <1>1, JoinedDigits, ZenonT(40)
<1>3. ASSUME NEW i \in 1..Len(s)
      PROVE  s[i] = c[i]
  <2>1. i \in 1..Len(a) \/ i \in (Len(a) + 1)..(Len(a) + Len(b))
    OBVIOUS
  <2> QED
    BY <1>1, <2>1, JoinedDigits
<1>4. s \in Seq(Int) /\ c \in Seq(Int) /\ a \in Seq(Int) /\ b \in Seq(Int)
  BY <1>2, DigitsAreInts
<1>5. Number(s) = Number(c)
  BY <1>2, <1>3, <1>4, NumberSame, ZenonT(40)
<1> QED
  BY <1>1, <1>4, <1>5, NumberConcat

\* The digits before the point and those after it make up the number.
LEMMA SplitNumber ==
  ASSUME NEW s \in Seq(0..9), NEW k \in 0..Len(s)
  PROVE  \E a, b \in Seq(0..9) :
           /\ a = SubSeq(s, 1, k) /\ b = SubSeq(s, k + 1, Len(s))
           /\ Len(a) = k /\ Len(b) = Len(s) - k
           /\ Number(s) = Number(a) * TenTo(Len(s) - k) + Number(b)
<1>1. PICK a : a = SubSeq(s, 1, k)
  BY ZenonT(40)
<1>2. PICK b : b = SubSeq(s, k + 1, Len(s))
  BY ZenonT(40)
<1>3. a \in Seq(0..9) /\ Len(a) = k /\ \A i \in 1..k : s[i] = a[i]
  BY <1>1
<1>4. b \in Seq(0..9) /\ Len(b) = Len(s) - k
  BY <1>2
<1>5. \A i \in (k + 1)..Len(s) : s[i] = b[i - k]
  BY <1>2
<1>6. Len(s) = Len(a) + Len(b)
  BY <1>3, <1>4
<1>7. /\ \A i \in 1..Len(a) : s[i] = a[i]
      /\ \A i \in (Len(a) + 1)..(Len(a) + Len(b)) : s[i] = b[i - Len(a)]
  BY <1>3, <1>5, <1>6, ZenonT(40)
<1>8. Number(s) = Number(a) * TenTo(Len(b)) + Number(b)
  BY <1>3, <1>4, <1>6, <1>7, PartsNumber, ZenonT(40)
<1> QED
  BY <1>1, <1>2, <1>3, <1>4, <1>8, ZenonT(40)

\* TrimRight takes the zeros at the end away and nothing else.
LEMMA Trimmed ==
  ASSUME NEW d \in Seq(0..9)
  PROVE  \E k \in 0..Len(d) : /\ TrimRight(d) = SubSeq(d, 1, k)
                              /\ k = 0 \/ d[k] # 0
                              /\ \A j \in (k + 1)..Len(d) : d[j] = 0
<1>0. Len(d) \in Nat
  OBVIOUS
<1> DEFINE Rest(k) == \A j \in (k + 1)..Len(d) : d[j] = 0
           Good(k) == (k = 0 \/ d[k] # 0) /\ Rest(k)
           K == {k \in 1..(Len(d) + 1) : Rest(k - 1)}
<1>1. \E k \in 0..Len(d) : Good(k)
  <2>1. Len(d) + 1 \in K
    BY <1>0
  <2>2. IsFiniteSet(K)
    <3>1. K \subseteq 1..(Len(d) + 1) /\ Len(d) + 1 \in Nat
      BY <1>0
    <3> HIDE DEF K
    <3> QED
      BY <3>1, SubsetOfInterval, ZenonT(40)
  <2>3. PICK m \in K : \A j \in K : m <= j
    <3>1. K # {} /\ K \subseteq Int
      BY <2>1
    <3> HIDE DEF K
    <3> QED
      BY <2>2, <3>1, LeastInteger, ZenonT(40)
  <2>4. PICK k \in 0..Len(d) : k = m - 1 /\ Rest(k)
    BY <1>0, <2>3
  <2>5. ASSUME k # 0, d[k] = 0
        PROVE  FALSE
    <3>1. k \in 1..(Len(d) + 1) /\ k < m
      BY <1>0, <2>3, <2>4, <2>5
    <3>2. ASSUME NEW j \in ((k - 1) + 1)..Len(d)
          PROVE  d[j] = 0
      BY <2>4, <2>5, <3>1
    <3>3. k \in K
      BY <3>1, <3>2
    <3> QED
      BY <2>3, <3>1, <3>3
  <2> QED
    BY <2>4, <2>5
<1>2. PICK k : k = CHOOSE j \in 0..Len(d) : Good(j)
  OBVIOUS
<1>3. k \in 0..Len(d) /\ Good(k)
  <2> HIDE DEF Good
  <2> QED
    BY <1>1, <1>2, ZenonT(40)
<1>4. TrimRight(d) = SubSeq(d, 1, k)
  BY <1>2, ZenonT(40) DEF TrimRight
<1> QED
  BY <1>3, <1>4

\* Powers of ten multiply.
LEMMA TenToSum ==
  ASSUME NEW m \in Nat, NEW n \in Nat
  PROVE  TenTo(m) * TenTo(n) = TenTo(m + n)
<1> DEFINE T == {k \in Nat : TenTo(m) * TenTo(k) = TenTo(m + k)}
<1>1. 0 \in T
  <2>1. TenTo(m) \in Int
    BY TenToNext
  <2> QED
    BY <2>1, TenToZero
<1>2. ASSUME NEW k \in Nat, k \in T
      PROVE  k + 1 \in T
  <2>1. PICK x, y, z : x = TenTo(m) /\ y = TenTo(k) /\ z = TenTo(m + k)
    OBVIOUS
  <2>2. m + k \in Nat /\ m + (k + 1) = (m + k) + 1 /\ k + 1 \in Nat
    OBVIOUS
  <2>3. x \in Int /\ y \in Int /\ TenTo(k + 1) = 10 * y
    BY <2>1, TenToNext
  <2>4. z \in Int /\ TenTo((m + k) + 1) = 10 * z
    BY <2>1, <2>2, TenToNext
  <2>5. x * y = z
    BY <1>2, <2>1
  <2>6. x * (10 * y) = 10 * (x * y)
    BY <2>3
  <2>7. TenTo(m) * TenTo(k + 1) = TenTo(m + (k + 1))
    BY <2>1, <2>2, <2>3, <2>4, <2>5, <2>6, ZenonT(40)
  <2> QED
    BY <2>2, <2>7
<1>3. Nat \subseteq T
  <2> HIDE DEF T
  <2> QED
    BY <1>1, <1>2, NatSetInduction
<1> QED
  BY <1>3

\* What TrimRight keeps, shifted to the left, is the number there was.
LEMMA TrimmedNumber ==
  ASSUME NEW d \in Seq(0..9)
  PROVE  \E r \in Seq(0..9) :
           /\ r = TrimRight(d) /\ Len(r) <= Len(d)
           /\ r # <<>> => r[Len(r)] # 0
           /\ Number(d) = Number(r) * TenTo(Len(d) - Len(r))
<1>1. PICK k \in 0..Len(d) : /\ TrimRight(d) = SubSeq(d, 1, k)
                             /\ k = 0 \/ d[k] # 0
                             /\ \A j \in (k + 1)..Len(d) : d[j] = 0
  BY Trimmed
<1>2. PICK a \in Seq(0..9), b \in Seq(0..9) :
           /\ a = SubSeq(d, 1, k) /\ b = SubSeq(d, k + 1, Len(d))
           /\ Len(a) = k /\ Len(b) = Len(d) - k
           /\ Number(d) = Number(a) * TenTo(Len(d) - k) + Number(b)
  BY SplitNumber
<1>3. a # <<>> => a[Len(a)] # 0
  BY <1>1, <1>2
<1>4. \A i \in 1..Len(b) : b[i] = 0
  BY <1>1, <1>2
<1>5. Number(b) = 0
  <2>1. PICK n \in Nat : n = Len(b)
    OBVIOUS
  <2>2. PICK z \in Seq(Int) : z = Zeros(n) /\ Len(z) = n /\ \A i \in 1..n : z[i] = 0
    BY ZerosSeq
  <2>3. b \in Seq(Int)
    BY DigitsAreInts
  <2>4. \A i \in 1..Len(b) : b[i] = z[i]
    BY <1>4, <2>1, <2>2
  <2> QED
    BY <2>1, <2>2, <2>3, <2>4, NumberSame, NumberZeros, ZenonT(40)
<1>6. Number(a) * TenTo(Len(d) - k) \in Int
  <2>1. Len(d) - k \in Nat
    OBVIOUS
  <2>2. Number(a) \in Int /\ TenTo(Len(d) - k) \in Int
    BY <2>1, NumberNat, TenToNext
  <2> QED
    BY <2>2
<1>7. Number(d) = Number(a) * TenTo(Len(d) - Len(a))
  BY <1>2, <1>5, <1>6
<1>8. a = TrimRight(d) /\ Len(a) <= Len(d)
  BY <1>1, <1>2
<1> QED
  BY <1>3, <1>7, <1>8, ZenonT(40)

\* decimalToBaseUnits shifts the digits by the missing places.
LEMMA ScaledNumber ==
  ASSUME NEW t, t.whole \in Seq(0..9), t.frac \in Seq(0..9), Len(t.frac) <= Decimals
  PROVE  /\ Number(t.whole \o t.frac) \in Nat
         /\ Number(t.whole \o t.frac) = Number(t.whole) * TenTo(Len(t.frac)) + Number(t.frac)
         /\ DecimalToBaseUnits(t) \in Nat
         /\ DecimalToBaseUnits(t) = Number(t.whole \o t.frac \o Zeros(Decimals - Len(t.frac)))
         /\ DecimalToBaseUnits(t) = Number(t.whole \o t.frac) * TenTo(Decimals - Len(t.frac))
<1>1. PICK w \in Seq(0..9), f \in Seq(0..9) : w = t.whole /\ f = t.frac
  BY ZenonT(40)
<1>2. PICK n \in Nat : n = Decimals - Len(f)
  <2>1. Decimals - Len(f) \in Nat
    BY <1>1, LimitsAssumption
  <2> QED
    BY <2>1, ZenonT(40)
<1>3. PICK z : z = Zeros(n)
  BY ZenonT(40)
<1>4. z \in Seq(0..9) /\ z \in Seq(Int) /\ Len(z) = n /\ Number(z) = 0
  BY <1>3, ZerosSeq, NumberZeros
<1>5. PICK c : c = w \o f
  BY ZenonT(40)
<1>6. c \in Seq(0..9)
  BY <1>5, JoinedDigits
<1>7. Number(c) = Number(w) * TenTo(Len(f)) + Number(f)
  BY <1>5, DigitsAreInts, NumberConcat, ZenonT(40)
<1>8. Number(c \o z) = Number(c) * TenTo(n) + 0
  BY <1>4, <1>6, DigitsAreInts, NumberConcat, ZenonT(40)
<1>9. Number(c) \in Nat /\ TenTo(n) \in Nat
  BY <1>6, NumberNat, TenToGrows, ZenonT(40)
<1>10. Number(c) * TenTo(n) \in Nat
  BY <1>9
<1>11. DecimalToBaseUnits(t) = Number(c \o z)
  <2>1. ~(Len(t.frac) > Decimals)
    BY LimitsAssumption
  <2> QED
    BY <1>1, <1>2, <1>3, <1>5, <2>1, ZenonT(40) DEF DecimalToBaseUnits
<1>12. DecimalToBaseUnits(t) = Number(c) * TenTo(n)
  <2>1. PICK v \in Nat : v = Number(c) * TenTo(n)
    BY <1>10, ZenonT(40)
  <2>2. v + 0 = v
    OBVIOUS
  <2> QED
    BY <1>8, <1>11, <2>1, <2>2, ZenonT(40)
<1> QED
  BY <1>1, <1>2, <1>3, <1>5, <1>7, <1>9, <1>10, <1>11, <1>12, ZenonT(40)

\* What baseUnitsToDecimal writes for n says n, sign and all, in the shortest way.
Written(n) ==
  LET t == BaseUnitsToDecimal(n)
      fraction == DecimalToBaseUnits([whole |-> << 0 >>, frac |-> t.frac])
  IN /\ Len(t.whole) >= 1
     /\ Abs(n) = Number(t.whole) * TenTo(Decimals) + fraction
     /\ t.frac # <<>> => t.frac[Len(t.frac)] # 0
     /\ t.neg <=> n < 0

\* A digit before the point and the trimmed digits after it give the number back.
LEMMA WrittenExact ==
  ASSUME NEW n \in Int
  PROVE  Written(n)
<1>1. PICK v \in Nat : v = Abs(n)
  BY DEF Abs
<1>2. PICK d \in Seq(0..9) : d = Digits(v) /\ Number(d) = v
  BY NumberDigits
<1>3. PICK s \in Seq(0..9) : s = Padded(d) /\ Len(s) >= Decimals + 1 /\ Number(s) = v
  BY <1>2, PaddedNumber
<1>4. PICK k \in 0..Len(s) : k = Len(s) - Decimals /\ k >= 1 /\ Len(s) - k = Decimals
  <2>1. Len(s) - Decimals \in 0..Len(s) /\ Len(s) - Decimals >= 1
    BY <1>3, LimitsAssumption
  <2>2. Len(s) - (Len(s) - Decimals) = Decimals
    BY <1>3, LimitsAssumption
  <2> QED
    BY <2>1, <2>2, ZenonT(40)
<1>5. PICK a \in Seq(0..9), b \in Seq(0..9) :
           /\ a = SubSeq(s, 1, k) /\ b = SubSeq(s, k + 1, Len(s))
           /\ Len(a) = k /\ Len(b) = Len(s) - k
           /\ Number(s) = Number(a) * TenTo(Len(s) - k) + Number(b)
  BY SplitNumber, ZenonT(40)
<1>6. Len(b) = Decimals /\ Number(s) = Number(a) * TenTo(Decimals) + Number(b)
  BY <1>4, <1>5, ZenonT(40)
<1>7. PICK r \in Seq(0..9) :
           /\ r = TrimRight(b) /\ Len(r) <= Decimals
           /\ r # <<>> => r[Len(r)] # 0
           /\ Number(b) = Number(r) * TenTo(Decimals - Len(r))
  BY <1>6, TrimmedNumber, ZenonT(40)
<1>8. PICK t : t = BaseUnitsToDecimal(n)
  OBVIOUS
<1>9. t = [neg |-> n < 0, whole |-> a, frac |-> r]
  BY <1>1, <1>2, <1>3, <1>4, <1>5, <1>7, <1>8, ZenonT(40) DEF BaseUnitsToDecimal
<1>10. PICK f : f = [whole |-> << 0 >>, frac |-> r]
  BY ZenonT(40)
<1>11. DecimalToBaseUnits(f) = Number(b)
  <2>1. f.whole = << 0 >> /\ f.frac = r /\ << 0 >> \in Seq(0..9)
    BY <1>10
  <2>2. Number(<< 0 >>) = 0
    <3>1. PICK z \in Seq(Int) : z = Zeros(1) /\ Len(z) = 1 /\ \A i \in 1..1 : z[i] = 0
      BY ZerosSeq, ZenonT(40)
    <3>2. PICK o : o = << 0 >>
      BY ZenonT(40)
    <3>3. o \in Seq(Int) /\ Len(o) = 1 /\ \A i \in 1..1 : o[i] = 0
      BY <3>2
    <3>4. \A i \in 1..1 : o[i] = z[i]
      BY <3>1, <3>3, ZenonT(40)
    <3>5. Number(o) = Number(z)
      BY <3>1, <3>3, <3>4, NumberSame, ZenonT(40)
    <3> QED
      BY <3>1, <3>2, <3>5, NumberZeros
  <2>3. /\ Number(<< 0 >> \o r) = Number(<< 0 >>) * TenTo(Len(r)) + Number(r)
        /\ DecimalToBaseUnits(f) = Number(<< 0 >> \o r) * TenTo(Decimals - Len(r))
    BY <1>7, <2>1, ScaledNumber, ZenonT(40)
  <2>4. TenTo(Len(r)) \in Int /\ Number(r) \in Int
    BY NumberNat, TenToNext
  <2>5. Number(<< 0 >> \o r) = Number(r)
    BY <2>2, <2>3, <2>4
  <2> QED
    BY <1>7, <2>3, <2>5
<1>12. t.whole = a /\ t.frac = r /\ (t.neg <=> n < 0)
  BY <1>9, ZenonT(40)
<1>13. Abs(n) = Number(a) * TenTo(Decimals) + DecimalToBaseUnits(f)
  BY <1>1, <1>3, <1>6, <1>11
<1> QED
  BY <1>4, <1>5, <1>7, <1>8, <1>10, <1>12, <1>13, ZenonT(40) DEF Written

\* An amount that has base units: its NUMERIC(38, 18) text has the same, and
\* they are what the text says.
LEMMA AmountKept ==
  ASSUME NEW t \in Amounts, DecimalToBaseUnits(t) \in Int
  PROVE  /\ DecimalToBaseUnits(NumericText(t)) = DecimalToBaseUnits(t)
         /\ DecimalToBaseUnits(t) * TenTo(Len(t.frac)) = Number(t.whole \o t.frac) * TenTo(Decimals)
<1>0. Decimals \in Nat
  BY LimitsAssumption, ZenonT(40)
<1>1. t.whole \in Seq(0..9) /\ t.frac \in Seq(0..9) /\ NotANumber \notin Int
  BY AmountsAssumption
<1>2. Len(t.frac) <= Decimals /\ Len(t.frac) \in Nat
  BY <1>0, <1>1 DEF DecimalToBaseUnits
<1>3. PICK v \in Nat : v = DecimalToBaseUnits(t)
  BY <1>1, <1>2, ScaledNumber, ZenonT(40)
<1>4. v = Number(t.whole \o t.frac \o Zeros(Decimals - Len(t.frac)))
  BY <1>1, <1>2, <1>3, ScaledNumber
<1>5. PICK d \in Seq(0..9) : d = Digits(v) /\ Number(d) = v
  BY NumberDigits
<1>6. PICK s \in Seq(0..9) : s = Padded(d) /\ Len(s) >= Decimals + 1 /\ Number(s) = v
  BY <1>5, PaddedNumber
<1>7. PICK k \in 0..Len(s) : k = Len(s) - Decimals /\ Len(s) - k = Decimals
  <2>1. Len(s) - Decimals \in 0..Len(s)
    BY <1>0, <1>6
  <2>2. Len(s) - (Len(s) - Decimals) = Decimals
    BY <1>0, <1>6
  <2> QED
    BY <2>1, <2>2, ZenonT(40)
<1>8. PICK a \in Seq(0..9), b \in Seq(0..9) :
           /\ a = SubSeq(s, 1, k) /\ b = SubSeq(s, k + 1, Len(s))
           /\ Len(a) = k /\ Len(b) = Len(s) - k
           /\ Number(s) = Number(a) * TenTo(Len(s) - k) + Number(b)
  BY SplitNumber, ZenonT(40)
<1>9. Len(b) = Decimals /\ v = Number(a) * TenTo(Decimals) + Number(b)
  BY <1>6, <1>7, <1>8, ZenonT(40)
<1>10. PICK c : c = NumericText(t)
  OBVIOUS
<1>11. c.whole = a /\ c.frac = b
  <2>1. c = [whole |-> a, frac |-> b]
    BY <1>4, <1>5, <1>6, <1>7, <1>8, <1>10, ZenonT(40) DEF NumericText
  <2> QED
    BY <2>1
<1>12. DecimalToBaseUnits(c) = v
  <2>1. Decimals - Len(b) = 0 /\ Len(b) <= Decimals
    BY <1>0, <1>9
  <2>2. /\ Number(a \o b) \in Nat
        /\ Number(a \o b) = Number(a) * TenTo(Decimals) + Number(b)
        /\ DecimalToBaseUnits(c) = Number(a \o b) * TenTo(0)
    BY <1>9, <1>11, <2>1, ScaledNumber, ZenonT(40)
  <2> QED
    BY <1>9, <2>2, TenToZero
<1>13. v * TenTo(Len(t.frac)) = Number(t.whole \o t.frac) * TenTo(Decimals)
  <2>1. PICK x \in Int, y \in Int, z \in Int, w \in Int :
          /\ x = Number(t.whole \o t.frac) /\ y = TenTo(Decimals - Len(t.frac))
          /\ z = TenTo(Len(t.frac)) /\ w = TenTo(Decimals)
    <3>1. Number(t.whole \o t.frac) \in Int
      BY <1>1, <1>2, ScaledNumber
    <3>2. Decimals - Len(t.frac) \in Nat
      BY <1>0, <1>2
    <3> QED
      BY <1>0, <1>2, <3>1, <3>2, TenToNext, ZenonT(40)
  <2>2. v = x * y
    BY <1>1, <1>2, <1>3, <2>1, ScaledNumber, ZenonT(40)
  <2>3. y * z = w
    <3>0. Decimals - Len(t.frac) \in Nat
      BY <1>0, <1>2
    <3>1. PICK m \in Nat : m = Decimals - Len(t.frac)
      BY <3>0, ZenonT(40)
    <3>2. TenTo(m) * TenTo(Len(t.frac)) = TenTo(m + Len(t.frac))
      BY <1>2, <3>1, TenToSum, ZenonT(40)
    <3>3. m + Len(t.frac) = Decimals
      BY <1>0, <1>2, <3>1
    <3> QED
      BY <2>1, <3>1, <3>2, <3>3, ZenonT(40)
  <2>4. (x * y) * z = x * (y * z)
    OBVIOUS
  <2> QED
    BY <2>1, <2>2, <2>3, <2>4
<1> QED
  BY <1>3, <1>10, <1>12, <1>13, ZenonT(40)

\* What is stored of an amount is what it was asked for.
AmountInv ==
  /\ TypeOK
  /\ row # Nothing => /\ row.input = DecimalToBaseUnits(asked) /\ row.input \in Int
                      /\ column = NumericText(asked)

\* Only Route writes the amount and the quoted fee: no later attempt, whatever
\* the provider answers, converts them again or changes what the client asked.
LEMMA NextAmountInv == IInv /\ AmountInv /\ [Next]_vars => AmountInv'
<1> SUFFICES ASSUME IInv, AmountInv, [Next]_vars
             PROVE  AmountInv'
  OBVIOUS
<1>1. TypeOK'
  BY NextIInv, StutterKeeps, ZenonT(40) DEF IInv
<1>2. ASSUME NEW p \in Providers, NEW reply \in Replies(p), Route(p, reply)
      PROVE  AmountInv'
  <2>1. PICK input : input = DecimalToBaseUnits(asked)
    OBVIOUS
  <2>2. PICK q : q = GetQuote(p, input, reply)
    BY ZenonT(40)
  <2>3. /\ input \in Int /\ asked' = asked /\ column' = NumericText(asked)
        /\ row' = [kind |-> "row", provider |-> p, input |-> input, fee |-> q.fee]
    BY <1>2, <2>1, <2>2 DEF Route
  <2>4. row'.input = input
    BY <2>3
  <2> QED
    BY <1>1, <2>1, <2>3, <2>4 DEF AmountInv
<1>3. CASE UNCHANGED <<asked, column, row>>
  BY <1>1, <1>3 DEF AmountInv
<1>4. CASE Expire \/ LoseEnvelope \/ SignAndBroadcastFresh \/ UNCHANGED vars
  BY <1>3, <1>4 DEF Expire, LoseEnvelope, Hold, SignAndBroadcastFresh, vars
<1>5. ASSUME NEW reply, ExecuteTestnetPayment(reply) \/ DriveExecutionForward(reply)
      PROVE  AmountInv'
  BY <1>3, <1>5, AttemptEffect, ZenonT(40) DEF MarkProcessingFailed, Hold, vars
<1>6. ASSUME NEW receipt, NEW w, checkAndUpdateOutcome(receipt, w)
      PROVE  AmountInv'
  BY <1>3, <1>6 DEF checkAndUpdateOutcome
<1> QED
  BY <1>2, <1>4, <1>5, <1>6, ZenonT(40) DEF Next

\* Conversions lose nothing, for every amount the handler accepts, every fee a
\* provider quotes and every number of decimals.
THEOREM AlwaysConversionsExact == Spec => []ConversionsExact
<1>1. Init => AmountInv
  BY InitIInv DEF Init, AmountInv, IInv
<1>2. AmountInv => ConversionsExact
  <2> SUFFICES ASSUME AmountInv, row # Nothing
               PROVE  ConversionsExact
    BY ZenonT(40) DEF ConversionsExact
  <2>1. asked \in Amounts /\ row.fee \in Int
    BY DEF AmountInv, TypeOK
  <2>2. /\ row.input = DecimalToBaseUnits(asked) /\ row.input \in Int
        /\ column = NumericText(asked)
    BY DEF AmountInv
  <2>3. /\ DecimalToBaseUnits(column) = row.input
        /\ row.input * TenTo(Len(asked.frac)) = Number(asked.whole \o asked.frac) * TenTo(Decimals)
    BY <2>1, <2>2, AmountKept
  <2>4. Written(row.fee)
    BY <2>1, WrittenExact
  <2> QED
    BY <2>3, <2>4, ZenonT(40) DEF ConversionsExact, Written
<1> QED
  BY <1>1, <1>2, NextAmountInv, Inductive, PTL DEF Spec

=============================================================================
