\* Tokens of one decimal, words of two bits, a tolerance of a third of the fee.
CONSTANTS
  ref1 = ref1
  ref2 = ref2
  NotANumber = NotANumber
  NoReference = NoReference
  SpokePool = SpokePool
  RelayDepository = RelayDepository
  Wallet = Wallet
  Amounts <- MCAmounts
  AcrossBodies <- MCAcrossBodies
  RelayBodies <- MCRelayBodies
  Decimals = 1
  Word = 4
  MaxTestnetAmount = 40
  MaxAmount = 25
  SlippageBps = 3333
  Words = {"filled", "expired", "refunded", "success", "refund", "failure", "pending", "slowFilled"}
SPECIFICATION Spec
INVARIANTS
  TypeOK
  SignedAsRouted
  FeeWithinTolerance
  ConversionsExact
  OutcomeCanBeAsked
  OnlyDefiniteWords
CHECK_DEADLOCK FALSE
