----------------------------- MODULE MCPaymentReads -----------------------------
(***************************************************************************)
(* An instance of PaymentReads: one testnet and two simulated payments.    *)
(***************************************************************************)
EXTENDS PaymentReads

MCPayments == 1..3
MCMode == <<"simulated", "testnet", "simulated">>
MCTrip == <<"base-eth", "base-eth", "eth-base">>
MCRawLimits == {Unset, 0, 1, 9}
MCRawDays == {Unset, 0, 2, 9}

=============================================================================
