------------------------------ MODULE BridgeQuotes ------------------------------
(***************************************************************************)
(* What a bridge provider's answers may lead to.  A testnet payment is     *)
(* routed on one quote, executed on another and, when the worker stops in  *)
(* between, on a third; the Across and Relay clients turn each answer into *)
(* a quote or refuse it, the executor compares it with the routing-time    *)
(* quote and the transaction built from it with its own configuration,     *)
(* and the reconciler turns status words into an outcome.                  *)
(*                                                                         *)
(* This is the data that TestnetExecution leaves out: one payment, its     *)
(* amount as text and as base units, fees, contracts, chains.  The races   *)
(* of several actors over the execution row are TestnetExecution's.        *)
(***************************************************************************)
EXTENDS Integers, Sequences

CONSTANTS
  Amounts,            \* amounts as clients write them: [whole, frac], digits
  Decimals,           \* wethDecimals, and the scale of payments.amount
  Word,               \* 2^32, the range of a uint32
  AcrossBodies,       \* bodies GET /suggested-fees may answer with
  RelayBodies,        \* bodies POST /quote may answer with
  NotANumber,         \* a text that is no integer
  NoReference,        \* an empty requestId, or a NULL provider_reference_id
  SpokePool,          \* the pinned Across contract
  RelayDepository,    \* the pinned Relay contract
  Wallet,             \* the worker's address
  MaxTestnetAmount,   \* MaxTestnetAmountWei of the API server
  MaxAmount,          \* MaxAmountWei of the worker
  SlippageBps,        \* MaxFeeSlippageBps
  Words               \* status words the providers may answer

Providers == {"across", "relay"}

Pinned == [across |-> SpokePool, relay |-> RelayDepository]

\* amountPattern of the handler: digits, a point and more digits or none.
ASSUME AmountsAssumption ==
  /\ \A t \in Amounts : t.whole \in Seq(0..9) /\ t.frac \in Seq(0..9)
  /\ NotANumber \notin Int

\* fillDeadline stands for quoteTimestamp too: both are texts parsed alike.
ASSUME BodiesAssumption ==
  /\ \A b \in AcrossBodies :
       /\ b.outputAmount \in Int \cup {NotANumber}
       /\ b.fillDeadline \in Int \cup {NotANumber}
       /\ b.exclusivityDeadline \in Int
  /\ \A b \in RelayBodies :
       /\ b.minimumAmount \in Int \cup {NotANumber}
       /\ b.value \in Int \cup {NotANumber}

ASSUME LimitsAssumption ==
  /\ Decimals \in Nat
  /\ Word \in Nat \ {0}
  /\ MaxTestnetAmount \in Nat
  /\ MaxAmount \in Nat
  /\ SlippageBps \in Nat

VARIABLES
  stage,      \* new, routed, allocated (has a nonce), signed, COMPLETED, FAILED
  asked,      \* ghost: the amount the client wrote
  column,     \* payments.amount, as the text the worker reads
  row,        \* the selected payment_quotes row
  expired,    \* the row is past expires_at
  held,       \* what the executor has in memory to sign, or Nothing
  signed,     \* what was signed and persisted, or Nothing
  word        \* the status the outcome was taken from

vars == <<stage, asked, column, row, expired, held, signed, word>>

Nothing == [kind |-> "nothing"]

-----------------------------------------------------------------------------
(***************************************************************************)
(* Amounts.                                                                *)
(***************************************************************************)
\* The number a sequence of digits is read as.
Number(digits) ==
  LET upTo[i \in 0..Len(digits)] == IF i = 0 THEN 0 ELSE 10 * upTo[i - 1] + digits[i]
  IN upTo[Len(digits)]

Zeros(n) == [i \in 1..n |-> 0]

\* The n-th power of ten: a one and n zeros.
TenTo(n) == Number(<<1>> \o Zeros(n))

\* n in decimal, without leading zeros.
Digits(n) ==
  LET len == CHOOSE k \in 1..(n + 1) : n < TenTo(k) /\ (k = 1 \/ n >= TenTo(k - 1))
  IN [i \in 1..len |-> (n \div TenTo(len - i)) % 10]

\* NotANumber: more fractional digits than the token has.
DecimalToBaseUnits(t) ==
  IF Len(t.frac) > Decimals
    THEN NotANumber
    ELSE Number(t.whole \o t.frac \o Zeros(Decimals - Len(t.frac)))

Padded(digits) ==
  IF Len(digits) <= Decimals THEN Zeros(Decimals + 1 - Len(digits)) \o digits ELSE digits

TrimRight(digits) ==
  SubSeq(digits, 1, CHOOSE k \in 0..Len(digits) :
                      /\ k = 0 \/ digits[k] # 0
                      /\ \A j \in (k + 1)..Len(digits) : digits[j] = 0)

Abs(n) == IF n < 0 THEN -n ELSE n

\* Mutant: a small number is not padded with zeros on the left.
BaseUnitsToDecimalUnpadded(n) ==
  LET s == Digits(Abs(n))
      split == Len(s) - Decimals
  IN [neg |-> n < 0, whole |-> SubSeq(s, 1, split),
      frac |-> TrimRight(SubSeq(s, split + 1, Len(s)))]

BaseUnitsToDecimal(n) ==
  LET s == Padded(Digits(Abs(n)))
      split == Len(s) - Decimals
  IN [neg |-> n < 0, whole |-> SubSeq(s, 1, split),
      frac |-> TrimRight(SubSeq(s, split + 1, Len(s)))]

\* payments.amount is NUMERIC(38, 18): read back, its text has no leading
\* zero and all its fractional digits.
NumericText(t) ==
  LET s == Padded(Digits(Number(t.whole \o t.frac \o Zeros(Decimals - Len(t.frac)))))
  IN [whole |-> SubSeq(s, 1, Len(s) - Decimals),
      frac |-> SubSeq(s, Len(s) - Decimals + 1, Len(s))]

-----------------------------------------------------------------------------
(***************************************************************************)
(* The providers' clients.                                                 *)
(***************************************************************************)
\* A call that is not answered 2xx, or not decodably, fails; "no route" is the
\* answer with errorCode NO_SWAP_ROUTES_FOUND, and a failure to Across.
Replies(provider) ==
  [kind : {"failed", "no route"}]
    \cup [kind : {"ok"}, body : IF provider = "across" THEN AcrossBodies ELSE RelayBodies]

Unavailable == [kind |-> "unavailable"]

QuoteError == [kind |-> "error"]

Quote(provider, input, output, payload) ==
  [kind |-> "quote", provider |-> provider, input |-> input, output |-> output,
   fee |-> input - output, payload |-> payload]

\* A fee may be negative here: nothing compares output with input.
AcrossGetQuote(input, reply) ==
  LET b == reply.body
  IN IF reply.kind # "ok" THEN QuoteError
     ELSE IF b.isAmountTooLow THEN Unavailable
     ELSE IF \/ b.inputToken # "origin weth"
             \/ b.outputToken # "destination weth"
             \/ b.outputAmount \notin Int
       THEN QuoteError
       ELSE Quote("across", input, b.outputAmount, b)

\* Mutant: a quote without a requestId is accepted.
RelayGetQuoteUnreferenced(input, reply) ==
  LET b == reply.body
  IN IF reply.kind = "no route" THEN Unavailable
     ELSE IF \/ reply.kind = "failed"
             \/ b.steps # "one transaction"
             \/ b.currencyIn # "origin eth"
             \/ b.currencyOut # "destination weth"
             \/ b.chain # "origin"
             \/ b.minimumAmount \notin Int
             \/ b.minimumAmount >= input
       THEN QuoteError
       ELSE Quote("relay", input, b.minimumAmount, b)

RelayGetQuote(input, reply) ==
  LET b == reply.body
  IN IF reply.kind = "no route" THEN Unavailable
     ELSE IF \/ reply.kind = "failed"
             \/ b.steps # "one transaction"
             \/ b.requestId = NoReference
             \/ b.currencyIn # "origin eth"
             \/ b.currencyOut # "destination weth"
             \/ b.chain # "origin"
             \/ b.minimumAmount \notin Int
             \/ b.minimumAmount >= input
       THEN QuoteError
       ELSE Quote("relay", input, b.minimumAmount, b)

GetQuote(provider, input, reply) ==
  IF provider = "across" THEN AcrossGetQuote(input, reply) ELSE RelayGetQuote(input, reply)

\* The depositV3 transaction.  The deadlines are parsed as 32 bit numbers,
\* exclusivityDeadline is cast to one.
AcrossBuild(q) ==
  IF \/ q.payload.spokePool # SpokePool
     \/ q.payload.fillDeadline \notin 0..(Word - 1)
    THEN Nothing
    ELSE [kind |-> "envelope", to |-> SpokePool, value |-> q.input, chain |-> "origin",
          recipient |-> Wallet, output |-> q.output,
          deadline |-> q.payload.fillDeadline,
          exclusivity |-> q.payload.exclusivityDeadline % Word]

\* The transaction Relay wants signed, as it came: its calldata is opaque.
RelayBuild(q) ==
  IF \/ q.payload.recipient # Wallet
     \/ q.payload.value \notin Int
     \/ q.payload.data = "malformed"
    THEN Nothing
    ELSE [kind |-> "envelope", to |-> q.payload.to, value |-> q.payload.value,
          chain |-> q.payload.chain, recipient |-> q.payload.recipient,
          output |-> q.output]

BuildTransaction(q) == IF q.provider = "across" THEN AcrossBuild(q) ELSE RelayBuild(q)

-----------------------------------------------------------------------------
(***************************************************************************)
(* The executor.                                                           *)
(***************************************************************************)
\* Mutant: the increase in basis points, rounded down by an integer division.
exceedsSlippageToleranceRounded(baseline, fresh) ==
  IF baseline = 0
    THEN fresh > 0
    ELSE fresh > baseline /\ ((fresh - baseline) * 10000) \div baseline > SlippageBps

\* A baseline that is no integer cannot come back from a NUMERIC(38, 0) column.
exceedsSlippageTolerance(baseline, fresh) ==
  IF baseline = 0
    THEN fresh > 0
    ELSE fresh > baseline /\ (fresh - baseline) * 10000 > baseline * SlippageBps

\* Mutant: the value is left to the provider.
validateEnvelopeAnyValue(env, q) ==
  /\ q.provider = row.provider
  /\ env.chain = "origin"
  /\ env.to = Pinned[row.provider]

\* The envelope against the executor's own configuration.
validateEnvelope(env, q) ==
  /\ q.provider = row.provider
  /\ env.chain = "origin"
  /\ env.to = Pinned[row.provider]
  /\ env.value = q.input

\* Relay's requestId, kept with the signed bytes.
extractProviderReferenceID(q) ==
  IF q.provider = "relay" THEN q.payload.requestId ELSE NoReference

ToSign(env, q) ==
  [kind |-> "to sign", env |-> env, quote |-> q, reference |-> extractProviderReferenceID(q)]

\* What ExecuteTestnetPayment and DriveExecutionForward make of a fresh reply:
\* the first check that refuses it, or an envelope to sign.
Judge(reply) ==
  LET input == DecimalToBaseUnits(column)
      q == GetQuote(row.provider, input, reply)
      env == BuildTransaction(q)
  IN IF input \notin Int \/ q.kind = "error" THEN [kind |-> "retry"]
     ELSE IF q.kind = "unavailable" \/ exceedsSlippageTolerance(row.fee, q.fee)
       THEN [kind |-> "refused"]
     ELSE IF input > MaxAmount THEN [kind |-> "too much"]
     ELSE IF env = Nothing \/ ~validateEnvelope(env, q) THEN [kind |-> "retry"]
     ELSE ToSign(env, q)

Init ==
  /\ stage = "new"
  /\ asked \in Amounts
  /\ column = asked
  /\ row = Nothing
  /\ expired = FALSE
  /\ held = Nothing
  /\ signed = Nothing
  /\ word = "none"

\* POST /payments: the provider's quote is available and wins; the payment and
\* the quote are stored, and a consumer claims the payment.
Route(provider, reply) ==
  LET input == DecimalToBaseUnits(asked)
      q == GetQuote(provider, input, reply)
  IN /\ stage = "new"
     /\ input \in Int
     /\ input <= MaxTestnetAmount
     /\ q.kind = "quote"
     /\ stage' = "routed"
     /\ column' = NumericText(asked)
     /\ row' = [kind |-> "row", provider |-> provider, input |-> input, fee |-> q.fee]
     /\ UNCHANGED <<asked, expired, held, signed, word>>

\* ROUTING_QUOTE_TTL passes.
Expire ==
  /\ stage \in {"routed", "allocated"}
  /\ ~expired
  /\ expired' = TRUE
  /\ UNCHANGED <<stage, asked, column, row, held, signed, word>>

MarkProcessingFailed ==
  /\ stage' = "FAILED"
  /\ UNCHANGED <<asked, column, row, expired, held, signed, word>>

Hold(thing, newStage) ==
  /\ held' = thing
  /\ stage' = newStage
  /\ UNCHANGED <<asked, column, row, expired, signed, word>>

\* Every check comes before TryCreateExecution allocates the nonce; after an
\* error the payment stays PROCESSING and a later sweep tries again.
ExecuteTestnetPayment(reply) ==
  /\ stage = "routed"
  /\ IF expired
       THEN MarkProcessingFailed
       ELSE LET verdict == Judge(reply)
            IN CASE verdict.kind \in {"refused", "too much"} -> MarkProcessingFailed
                 [] verdict.kind = "to sign" -> Hold(verdict, "allocated")
                 [] verdict.kind = "retry" -> UNCHANGED vars

\* The worker stops, or the gas price is not to be had, before PersistSigned-
\* Execution: the envelope in memory is gone and the nonce is not.
LoseEnvelope ==
  /\ stage = "allocated"
  /\ held # Nothing
  /\ Hold(Nothing, "allocated")

\* Mutant: a payment that is already FAILED is resumed too.
DriveExecutionForwardFailed(reply) ==
  /\ stage \in {"allocated", "FAILED"}
  /\ held = Nothing
  /\ IF expired
       THEN MarkProcessingFailed
       ELSE LET verdict == Judge(reply)
            IN verdict.kind = "to sign" /\ Hold(verdict, stage)

\* The resume of an execution that has its nonce and was not signed.  A quote
\* that is gone or too dear leaves the payment as it is, for an operator.
DriveExecutionForward(reply) ==
  /\ stage = "allocated"
  /\ held = Nothing
  /\ IF expired
       THEN MarkProcessingFailed
       ELSE LET verdict == Judge(reply)
            IN CASE verdict.kind = "too much" -> MarkProcessingFailed
                 [] verdict.kind = "to sign" -> Hold(verdict, "allocated")
                 [] verdict.kind \in {"refused", "retry"} -> UNCHANGED vars

\* signAndBroadcastFresh: the bytes and the reference are persisted, then sent.
SignAndBroadcastFresh ==
  /\ stage = "allocated"
  /\ held # Nothing
  /\ stage' = "signed"
  /\ signed' = held
  /\ held' = Nothing
  /\ UNCHANGED <<asked, column, row, expired, word>>

-----------------------------------------------------------------------------
(***************************************************************************)
(* The reconciler's reading of a broadcast execution.                      *)
(***************************************************************************)
acrossStatusToState(w) ==
  CASE w = "filled" -> "filled"
    [] w \in {"expired", "refunded"} -> "refunded"
    [] OTHER -> "pending"

\* Mutant: a word that is not known is a failure.
relayStatusToStateStrict(w) ==
  CASE w = "success" -> "filled"
    [] w = "refund" -> "refunded"
    [] w \in {"waiting", "depositing", "pending", "submitted", "delayed"} -> "pending"
    [] OTHER -> "fill_failed"

relayStatusToState(w) ==
  CASE w = "success" -> "filled"
    [] w = "refund" -> "refunded"
    [] w = "failure" -> "fill_failed"
    [] OTHER -> "pending"

\* The provider's state for a status reply; an error when Relay's order has no
\* reference to ask with, or when the call fails ("failed").
CheckStatus(provider, reference, w) ==
  CASE w = "failed" -> "error"
    [] provider = "across" /\ w # "failed" -> acrossStatusToState(w)
    [] provider = "relay" /\ w # "failed" ->
         IF reference = NoReference THEN "error" ELSE relayStatusToState(w)

\* The receipt: none yet, reverted, or mined, and then the provider's word.
checkAndUpdateOutcome(receipt, w) ==
  LET state == CheckStatus(row.provider, signed.reference, w)
      settle(to, by) == stage' = to /\ word' = by
  IN /\ stage = "signed"
     /\ \/ receipt = "reverted" /\ settle("FAILED", "origin_reverted")
        \/ receipt = "mined" /\ state = "filled" /\ settle("COMPLETED", w)
        \/ receipt = "mined" /\ state \in {"refunded", "fill_failed"} /\ settle("FAILED", w)
        \/ /\ receipt = "none" \/ (receipt = "mined" /\ state \in {"pending", "error"})
           /\ UNCHANGED <<stage, word>>
     /\ UNCHANGED <<asked, column, row, expired, held, signed>>

Next ==
  \/ \E p \in Providers : \E reply \in Replies(p) : Route(p, reply)
  \/ Expire
  \/ /\ row # Nothing
     /\ \E reply \in Replies(row.provider) :
          ExecuteTestnetPayment(reply) \/ DriveExecutionForward(reply)
  \/ LoseEnvelope
  \/ SignAndBroadcastFresh
  \/ \E receipt \in {"none", "reverted", "mined"}, w \in Words \cup {"failed"} :
       checkAndUpdateOutcome(receipt, w)

Spec == Init /\ [][Next]_vars

-----------------------------------------------------------------------------
\* Every variable has its type: there is a nonce before anything is held or
\* signed, and a broadcast execution has its signed bytes.
TypeOK ==
  /\ stage \in {"new", "routed", "allocated", "signed", "COMPLETED", "FAILED"}
  /\ asked \in Amounts
  /\ row # Nothing <=> stage # "new"
  /\ row # Nothing => row.provider \in Providers /\ row.fee \in Int
  /\ expired \in BOOLEAN
  /\ held # Nothing => stage = "allocated"
  /\ signed # Nothing => stage \in {"signed", "COMPLETED", "FAILED"}
  /\ stage \in {"signed", "COMPLETED"} => signed # Nothing
  /\ word \in Words \cup {"none", "origin_reverted"}

\* Whatever the providers answered, at whichever attempt, what is signed goes
\* to the contract pinned for the provider the payment was routed with, on the
\* origin chain, pays out to the worker's wallet and spends exactly the amount
\* the payment was routed for, which no limit forbids.  (The doc comment of
\* validateEnvelope: it can catch a genuine bug or a misbehaving provider.)  An
\* Across deposit's fill deadline is the quoted one, whatever integer that is:
\* one that does not fit 32 bits is never signed cut short.  (Its exclusivity
\* deadline is cast and may be.)
SignedAsRouted ==
  signed # Nothing =>
    /\ signed.env.to = Pinned[row.provider]
    /\ signed.env.chain = "origin"
    /\ signed.env.recipient = Wallet
    /\ signed.env.value = DecimalToBaseUnits(column)
    /\ signed.env.value <= MaxAmount
    /\ signed.quote.provider = row.provider
    /\ row.provider = "across" => signed.env.deadline = signed.quote.payload.fillDeadline

\* A fee that the tolerance leaves room for.
WithinTolerance(fee, baseline) ==
  \/ fee <= baseline
  \/ baseline > 0 /\ fee * 10000 <= baseline * (10000 + SlippageBps)

\* What is signed costs no more than the routing-time fee and the tolerance:
\* a payment whose stored fee is zero or negative may not cost more at all.
\* This is the price of the quote that was signed, not of an earlier attempt.
FeeWithinTolerance ==
  signed # Nothing =>
    WithinTolerance(DecimalToBaseUnits(column) - signed.env.output, row.fee)

\* Conversions lose nothing.  The amount survives its way from the client's
\* text through NUMERIC(38, 18) and back: the worker executes the base units the
\* provider was asked about when the payment was routed, and these are what the
\* text says.  The decimal text of a fee, which becomes the candidate edge's fee,
\* says exactly the fee in base units, negative ones included, and has no
\* trailing zero.
ConversionsExact ==
  row # Nothing =>
    LET t == BaseUnitsToDecimal(row.fee)
        fraction == DecimalToBaseUnits([whole |-> <<0>>, frac |-> t.frac])
    IN /\ DecimalToBaseUnits(column) = row.input
       /\ row.input * TenTo(Len(asked.frac)) = Number(asked.whole \o asked.frac) * TenTo(Decimals)
       /\ Len(t.whole) >= 1
       /\ Abs(row.fee) = Number(t.whole) * TenTo(Decimals) + fraction
       /\ t.frac # <<>> => t.frac[Len(t.frac)] # 0
       /\ t.neg <=> row.fee < 0

\* A Relay execution that was signed can be asked about: it has the reference
\* of the very order that was signed, so it cannot stay SUBMITTED for want of
\* one.
OutcomeCanBeAsked ==
  signed # Nothing /\ row.provider = "relay" =>
    /\ signed.reference # NoReference
    /\ signed.reference = signed.quote.payload.requestId

\* The comment on DepositStatusResponse: only a definitive, recognized terminal
\* signal may ever produce FAILED; and only the provider's own word for a fill
\* completes a payment, never the other provider's.
OnlyDefiniteWords ==
  /\ stage = "COMPLETED" => word = IF row.provider = "across" THEN "filled" ELSE "success"
  /\ stage = "FAILED" /\ signed # Nothing =>
       word \in {"origin_reverted"} \cup
                (IF row.provider = "across" THEN {"expired", "refunded"} ELSE {"refund", "failure"})

=============================================================================
