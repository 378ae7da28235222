----------------------------- MODULE MCBridgeQuotes -----------------------------
(***************************************************************************)
(* An instance of BridgeQuotes.  A provider's body is right but for at     *)
(* most two of its fields.                                                 *)
(***************************************************************************)
EXTENDS BridgeQuotes, FiniteSets, TLC

CONSTANTS ref1, ref2

\* TenTo is exponentiation.
ASSUME TenToAssumption == \A n \in 0..8 : TenTo(n) = 10^n

Text(w, f) == [whole |-> w, frac |-> f]

\* "2", "02.0" and "0.5" in tokens of one decimal, "3" above the worker's
\* limit, "9" above the server's, "0.25" that has too many digits.
MCAmounts ==
  {Text(<<2>>, <<>>), Text(<<0, 2>>, <<0>>), Text(<<0>>, <<5>>), Text(<<3>>, <<>>),
   Text(<<9>>, <<>>), Text(<<0>>, <<2, 5>>)}

\* For an amount of 20: a fee of 5, 4, 3, 2, 1, 0 or -1.
Outputs == {15, 16, 17, 18, 19, 20, 21, NotANumber}

AllAcross ==
  [isAmountTooLow : BOOLEAN, inputToken : {"origin weth", "other"},
   outputToken : {"destination weth", "other"}, outputAmount : Outputs,
   spokePool : {SpokePool, RelayDepository}, fillDeadline : {3, 4, -1, NotANumber},
   exclusivityDeadline : {1, 5}]

AcrossWrong(b) ==
  {f \in DOMAIN b : \/ f = "isAmountTooLow" /\ b[f]
                    \/ f = "inputToken" /\ b[f] # "origin weth"
                    \/ f = "outputToken" /\ b[f] # "destination weth"
                    \/ f = "spokePool" /\ b[f] # SpokePool
                    \/ f = "fillDeadline" /\ b[f] # 3
                    \/ f = "exclusivityDeadline" /\ b[f] # 1}

MCAcrossBodies == {b \in AllAcross : Cardinality(AcrossWrong(b)) <= 2}

AllRelay ==
  [steps : {"one transaction", "other"}, requestId : {ref1, ref2, NoReference},
   currencyIn : {"origin eth", "other"}, currencyOut : {"destination weth", "other"},
   chain : {"origin", "other"}, minimumAmount : Outputs,
   to : {RelayDepository, SpokePool}, value : {5, 20, 30, NotANumber},
   recipient : {Wallet, "other"}, data : {"hex", "malformed"}]

RelayWrong(b) ==
  {f \in DOMAIN b : \/ f = "steps" /\ b[f] # "one transaction"
                    \/ f = "requestId" /\ b[f] = NoReference
                    \/ f = "currencyIn" /\ b[f] # "origin eth"
                    \/ f = "currencyOut" /\ b[f] # "destination weth"
                    \/ f = "chain" /\ b[f] # "origin"
                    \/ f = "to" /\ b[f] # RelayDepository
                    \/ f = "value" /\ b[f] # 20
                    \/ f = "recipient" /\ b[f] # Wallet
                    \/ f = "data" /\ b[f] # "hex"}

MCRelayBodies == {b \in AllRelay : Cardinality(RelayWrong(b)) <= 2}

=============================================================================
