------------------------------ MODULE MCPaymentAPI ------------------------------
(***************************************************************************)
(* An instance of PaymentAPI: one idempotency key, a testnet request       *)
(* spelled in two ways and a conflicting simulated one.                    *)
(***************************************************************************)
EXTENDS PaymentAPI, TLC

CONSTANTS r1, r2, r3, k1, across, relay, hopline

MCRequests == {r1, r2, r3}
MCKeys == {k1}

Amount(v, s) == [value |-> v, scale |-> s]
Body(t, a, m) == [trip |-> t, amount |-> a, mode |-> m]

Testnet1 == Body("base-eth", Amount(1, 0), "testnet")
Simulated1 == Body("base-eth", Amount(1, 0), "simulated")
Simulated1_00 == Body("base-eth", Amount(1, 2), "simulated")
TooMuch == Body("base-eth", Amount(2, 0), "testnet")
SameChain == Body("base-base", Amount(1, 0), "simulated")

MCBodies == {Testnet1, Simulated1, Simulated1_00, TooMuch, SameChain}
MCMalformed == {SameChain}
MCProviders == <<across, relay>>

RequestSymmetry == Permutations(MCRequests)

=============================================================================
