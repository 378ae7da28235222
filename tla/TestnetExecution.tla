--------------------------- MODULE TestnetExecution ---------------------------
(***************************************************************************)
(* Execution of testnet payments: ExecuteTestnetPayment, called by a       *)
(* consumer that has just claimed the payment and by the reconciler;       *)
(* DriveExecutionForward, the resume path of the reconciler; the           *)
(* reconciler's sweep; and the wallet's transactions on the origin chain   *)
(* and with the bridge.                                                    *)
(*                                                                         *)
(* Every database statement or transaction is one step, so is every call   *)
(* to the chain or a provider; handlers and reconcilers interleave between *)
(* them, and the worker may die between any two.                           *)
(*                                                                         *)
(* Data kept: a signed transaction is a payment and a version, since two   *)
(* signings of one payment (fresh quote, gas price) differ; its nonce is   *)
(* the one of the payment's execution row.  Fees, amounts, calldata and    *)
(* hashes are not kept: what the checks say of them is an input.           *)
(***************************************************************************)
EXTENDS Naturals, FiniteSets

CONSTANTS
  Payments,         \* testnet payment ids
  NoPayment,        \* the payment of an idle actor
  OverLimit,        \* payments above MAX_TESTNET_AMOUNT_WEI
  Handlers,         \* consumer goroutines
  Reconcilers,      \* reconciler goroutines, one per worker process
  HandlersTimeOut,  \* TESTNET_HANDLE_TIMEOUT is below RECONCILE_STALENESS
  MaxSigns,         \* bound: signings of one payment
  Faulty,           \* which kinds of faults happen
  MaxFaults         \* bound: how many faults happen in all

Actors == Handlers \cup Reconcilers

\* The worker dies; a database statement reports an error; a provider or gas
\* price call fails; looking a transaction up or sending it fails; the node
\* drops a pooled transaction; a worker without BLOCKCHAIN_ENV=testnet shares
\* the consumer group.
FaultKinds == {"crash", "db", "quote", "send", "evict", "unequipped"}

ASSUME PaymentsAssumption ==
  IsFiniteSet(Payments) /\ NoPayment \notin Payments /\ OverLimit \subseteq Payments

ASSUME ActorsAssumption ==
  Handlers \cap Reconcilers = {} /\ HandlersTimeOut \in BOOLEAN

ASSUME BoundsAssumption ==
  MaxSigns \in Nat /\ MaxFaults \in Nat /\ Faulty \subseteq FaultKinds

VARIABLES
  status,     \* payments.status, "NONE" before the row exists
  expired,    \* payments whose routing-time quote is past expires_at
  exec,       \* payment_executions, one row per payment
  nextNonce,  \* wallet_nonces.next_nonce
  signs,      \* how often each payment has been signed
  net,        \* each signed transaction: unknown, in the pool, or its outcome
  job,        \* each actor: where it is in the executor or reconciler code
  sweep,      \* each reconciler: the phase of SweepOnce and the ids left in it
  faults      \* faults so far

dbVars == <<status, exec, nextNonce>>
vars == <<dbVars, expired, signs, net, job, sweep, faults>>

Versions == 1..MaxSigns

Statuses == {"NONE", "ROUTED", "PROCESSING", "SUBMITTED", "COMPLETED", "FAILED"}

Terminal == {"COMPLETED", "FAILED"}

\* nonce 0: no row.  signed 0: signed_tx_hash IS NULL.  broadcast: broadcast_at
\* is set.  ext is external_status; confirmed_at is set when it leaves pending.
NoExec == [nonce |-> 0, signed |-> 0, broadcast |-> FALSE, ext |-> "pending"]

HasExec(p) == exec[p].nonce # 0

OnChain == {"mined", "reverted", "filled", "refunded"}

\* ver is the transaction an actor holds in memory, res the outcome it saw.
Idle == [pc |-> "idle", pay |-> NoPayment, ver |-> 0, res |-> "pending"]

ExecutorPcs == {"start", "rejecting", "checked", "unsigned", "signed", "sent", "marked"}

ReconcilerPcs == {"resume", "repair", "observe", "record", "settle"}

Jobs == [pc : ExecutorPcs \cup ReconcilerPcs, pay : Payments,
         ver : 0..MaxSigns, res : {"pending", "filled", "failed"}]

\* The type invariant: the values of rows, transactions and goroutines.  A
\* handler never runs reconciler code, and only a signed row is broadcast.
TypeOK ==
  /\ status \in [Payments -> Statuses]
  /\ expired \in SUBSET Payments
  /\ exec \in [Payments -> [nonce : Nat, signed : 0..MaxSigns, broadcast : BOOLEAN,
                            ext : {"pending", "filled", "failed"}]]
  /\ nextNonce \in Nat \ {0}
  /\ signs \in [Payments -> 0..MaxSigns]
  /\ net \in [Payments -> [Versions -> {"unknown", "pool"} \cup OnChain]]
  /\ job \in [Actors -> Jobs \cup {Idle}]
  /\ sweep \in [Reconcilers -> [phase : {"rest", "recover", "drive"}, ids : SUBSET Payments]]
  /\ faults \in Nat
  /\ \A h \in Handlers : job[h].pc \notin ReconcilerPcs
  /\ \A p \in Payments : exec[p].broadcast => exec[p].signed # 0

Init ==
  /\ status = [p \in Payments |-> "NONE"]
  /\ expired = {}
  /\ exec = [p \in Payments |-> NoExec]
  /\ nextNonce = 1
  /\ signs = [p \in Payments |-> 0]
  /\ net = [p \in Payments |-> [v \in Versions |-> "unknown"]]
  /\ job = [a \in Actors |-> Idle]
  /\ sweep = [r \in Reconcilers |-> [phase |-> "rest", ids |-> {}]]
  /\ faults = 0

Fault(kind) ==
  /\ kind \in Faulty
  /\ faults < MaxFaults
  /\ faults' = faults + 1

-----------------------------------------------------------------------------
(***************************************************************************)
(* The database statements.                                                *)
(***************************************************************************)
\* UPDATE payments SET status = to WHERE id = p AND status = from
Transition(p, from, to) ==
  /\ status' = [status EXCEPT ![p] = IF @ = from THEN to ELSE @]
  /\ UNCHANGED <<exec, nextNonce>>

MarkProcessingFailed(p) == Transition(p, "PROCESSING", "FAILED")

\* Mutant: the status is set whatever it was.
MarkSubmittedUnguarded(p) ==
  /\ status' = [status EXCEPT ![p] = "SUBMITTED"]
  /\ UNCHANGED <<exec, nextNonce>>

MarkSubmitted(p) == Transition(p, "PROCESSING", "SUBMITTED")

CompleteSubmittedPayment(p, res) ==
  Transition(p, "SUBMITTED", IF res = "filled" THEN "COMPLETED" ELSE "FAILED")

\* Mutant: the nonce is allocated in a transaction of its own.
TryCreateExecutionBurnsNonce(p) ==
  /\ exec' = IF HasExec(p) THEN exec ELSE [exec EXCEPT ![p].nonce = nextNonce]
  /\ nextNonce' = nextNonce + 1
  /\ UNCHANGED status

\* One transaction: next_nonce + 1 and the row.  A second row for the payment
\* violates UNIQUE (payment_id) and rolls the nonce back too.
TryCreateExecution(p) ==
  /\ IF HasExec(p)
     THEN UNCHANGED <<exec, nextNonce>>
     ELSE /\ exec' = [exec EXCEPT ![p] = [NoExec EXCEPT !.nonce = nextNonce]]
          /\ nextNonce' = nextNonce + 1
  /\ UNCHANGED status

\* Mutant: the signed bytes stay in memory.
PersistSignedExecutionSkipped(p, v) == UNCHANGED dbVars

\* Unconditional UPDATEs of the execution row.
PersistSignedExecution(p, v) ==
  /\ exec' = [exec EXCEPT ![p].signed = v]
  /\ UNCHANGED <<status, nextNonce>>

MarkExecutionBroadcast(p) ==
  /\ exec' = [exec EXCEPT ![p].broadcast = TRUE]
  /\ UNCHANGED <<status, nextNonce>>

UpdateExecutionExternalStatus(p, res) ==
  /\ exec' = [exec EXCEPT ![p].ext = res]
  /\ UNCHANGED <<status, nextNonce>>

-----------------------------------------------------------------------------
(***************************************************************************)
(* Creation, claim and the passing of time.                                *)
(***************************************************************************)
\* CreateOrGetPayment, with the selected quote.
Create(p) ==
  /\ status[p] = "NONE"
  /\ status' = [status EXCEPT ![p] = "ROUTED"]
  /\ UNCHANGED <<exec, nextNonce, expired, signs, net, job, sweep, faults>>

\* time.Now() passes expires_at of the selected quote.
QuoteExpires(p) ==
  /\ status[p] # "NONE"
  /\ p \notin expired
  /\ expired' = expired \cup {p}
  /\ UNCHANGED <<dbVars, signs, net, job, sweep, faults>>

Goto(a, pc) == job' = [job EXCEPT ![a].pc = pc]

Done(a) == job' = [job EXCEPT ![a] = Idle]

Begin(a, pc, p, v) ==
  job' = [job EXCEPT ![a] = [pc |-> pc, pay |-> p, ver |-> v, res |-> "pending"]]

\* HandleRoutedPayment: a delivery whose ClaimPayment wins.
Claim(h, p) ==
  /\ job[h] = Idle
  /\ status[p] = "ROUTED"
  /\ Transition(p, "ROUTED", "PROCESSING")
  /\ Begin(h, "start", p, 0)
  /\ UNCHANGED <<expired, signs, net, sweep, faults>>

-----------------------------------------------------------------------------
(***************************************************************************)
(* ExecuteTestnetPayment and the unsigned branch of DriveExecutionForward. *)
(***************************************************************************)
\* Checks whose answer cannot change: expiry and the amount guardrail.
MustReject(p) == p \in expired \/ p \in OverLimit

\* The quote expired, the route is gone, the fee slipped, or the amount is
\* over the limit; the last check is before TryCreateExecution.
PreflightReject(a) ==
  /\ job[a].pc = "start"
  /\ Goto(a, "rejecting")
  /\ UNCHANGED <<dbVars, expired, signs, net, sweep, faults>>

PreflightPass(a) ==
  /\ job[a].pc = "start"
  /\ ~MustReject(job[a].pay)
  /\ Goto(a, "checked")
  /\ UNCHANGED <<dbVars, expired, signs, net, sweep, faults>>

\* The resume path rejects on expiry and guardrail only ...
ResumeReject(a) ==
  /\ job[a].pc = "resume"
  /\ MustReject(job[a].pay)
  /\ Goto(a, "rejecting")
  /\ UNCHANGED <<dbVars, expired, signs, net, sweep, faults>>

\* ... and only logs when the fresh quote is unavailable or slipped.
ResumeLeave(a) ==
  /\ job[a].pc = "resume"
  /\ job[a].pay \notin expired
  /\ Done(a)
  /\ UNCHANGED <<dbVars, expired, signs, net, sweep, faults>>

ResumePass(a) ==
  /\ job[a].pc = "resume"
  /\ ~MustReject(job[a].pay)
  /\ Goto(a, "unsigned")
  /\ UNCHANGED <<dbVars, expired, signs, net, sweep, faults>>

Reject(a) ==
  /\ job[a].pc = "rejecting"
  /\ MarkProcessingFailed(job[a].pay)
  /\ Done(a)
  /\ UNCHANGED <<expired, signs, net, sweep, faults>>

\* created = false: another actor owns the execution.
CreateExecution(a) ==
  /\ job[a].pc = "checked"
  /\ TryCreateExecution(job[a].pay)
  /\ IF HasExec(job[a].pay) THEN Done(a) ELSE Goto(a, "unsigned")
  /\ UNCHANGED <<expired, signs, net, sweep, faults>>

\* signAndBroadcastFresh: a new signature, persisted before it is sent.
SignVersion(p) ==
  /\ signs[p] < MaxSigns
  /\ signs' = [signs EXCEPT ![p] = @ + 1]

\* The nonce the chain expects next from the wallet (seeded with 1).
ChainNonce == 1 + Cardinality({t \in Payments \X Versions : net[t[1]][t[2]] \in OnChain})

\* Mutant: the nonce is the chain's pending one, not the row's.
SignAndPersistPendingNonce(a) ==
  /\ job[a].pc = "unsigned"
  /\ SignVersion(job[a].pay)
  /\ exec' = [exec EXCEPT ![job[a].pay].signed = signs[job[a].pay] + 1,
                         ![job[a].pay].nonce = ChainNonce]
  /\ job' = [job EXCEPT ![a].pc = "signed", ![a].ver = signs[job[a].pay] + 1]
  /\ UNCHANGED <<status, nextNonce, expired, net, sweep, faults>>

SignAndPersist(a) ==
  /\ job[a].pc = "unsigned"
  /\ SignVersion(job[a].pay)
  /\ PersistSignedExecution(job[a].pay, signs[job[a].pay] + 1)
  /\ job' = [job EXCEPT ![a].pc = "signed", ![a].ver = signs[job[a].pay] + 1]
  /\ UNCHANGED <<expired, net, sweep, faults>>

\* eth_sendRawTransaction takes the transaction into the pool, in place of
\* another one of the same nonce.
Accept(p, v) ==
  /\ exec[p].nonce >= ChainNonce
  /\ net' = [net EXCEPT ![p] = [u \in Versions |->
       IF u = v THEN "pool" ELSE IF @[u] = "pool" THEN "unknown" ELSE @[u]]]

\* broadcastWithRecovery: TransactionByHash first, SendTransaction only if the
\* chain has never seen the hash.
AlreadyKnown(a) ==
  /\ job[a].pc = "signed"
  /\ net[job[a].pay][job[a].ver] # "unknown"
  /\ Goto(a, "sent")
  /\ UNCHANGED <<dbVars, expired, signs, net, sweep, faults>>

SendTransaction(a) ==
  /\ job[a].pc = "signed"
  /\ net[job[a].pay][job[a].ver] = "unknown"
  /\ Accept(job[a].pay, job[a].ver)
  /\ Goto(a, "sent")
  /\ UNCHANGED <<dbVars, expired, signs, sweep, faults>>

\* The node refuses: the nonce is used, or a pooled transaction has it.
SendRefused(a) ==
  /\ job[a].pc = "signed"
  /\ net[job[a].pay][job[a].ver] = "unknown"
  /\ \E u \in Versions : net[job[a].pay][u] # "unknown"
  /\ Done(a)
  /\ UNCHANGED <<dbVars, expired, signs, net, sweep, faults>>

RecordBroadcast(a) ==
  /\ job[a].pc = "sent"
  /\ MarkExecutionBroadcast(job[a].pay)
  /\ Goto(a, "marked")
  /\ UNCHANGED <<expired, signs, net, sweep, faults>>

Submit(a) ==
  /\ job[a].pc = "marked"
  /\ MarkSubmitted(job[a].pay)
  /\ Done(a)
  /\ UNCHANGED <<expired, signs, net, sweep, faults>>

-----------------------------------------------------------------------------
(***************************************************************************)
(* Reconciler.SweepOnce: recover, drive, check; then rest until the ticker.*)
(* Rows older than the staleness are a subset of the rows that could be;   *)
(* with HandlersTimeOut a row a live handler works on is never that old.   *)
(***************************************************************************)
MayBeStale(p) == HandlersTimeOut => \A h \in Handlers : job[h].pay # p

StaleTestnetProcessingWithoutExecutionIDs ==
  {p \in Payments : status[p] = "PROCESSING" /\ ~HasExec(p) /\ MayBeStale(p)}

\* Mutant: signed rows are taken for broadcast ones.
StaleNotYetBroadcastUnsigned ==
  {p \in Payments : HasExec(p) /\ exec[p].signed = 0 /\ MayBeStale(p)}

StaleNotYetBroadcast ==
  {p \in Payments : HasExec(p) /\ ~exec[p].broadcast /\ MayBeStale(p)}

BroadcastUnconfirmed ==
  {p \in Payments : exec[p].broadcast /\ exec[p].ext = "pending"}

Resting(r, phase) == job[r] = Idle /\ sweep[r] = [phase |-> phase, ids |-> {}]

Enter(r, phase, ids) == sweep' = [sweep EXCEPT ![r] = [phase |-> phase, ids |-> ids]]

SweepRecover(r, stale) ==
  /\ Resting(r, "rest")
  /\ stale \subseteq StaleTestnetProcessingWithoutExecutionIDs
  /\ Enter(r, "recover", stale)
  /\ UNCHANGED <<dbVars, expired, signs, net, job, faults>>

RecoverNext(r, p) ==
  /\ job[r] = Idle /\ sweep[r].phase = "recover" /\ p \in sweep[r].ids
  /\ Begin(r, "start", p, 0)
  /\ sweep' = [sweep EXCEPT ![r].ids = @ \ {p}]
  /\ UNCHANGED <<dbVars, expired, signs, net, faults>>

SweepDrive(r, stale) ==
  /\ Resting(r, "recover")
  /\ stale \subseteq StaleNotYetBroadcast
  /\ Enter(r, "drive", stale)
  /\ UNCHANGED <<dbVars, expired, signs, net, job, faults>>

\* Mutant: a signed row is quoted, checked and signed again.
DriveNextResigns(r, p) ==
  /\ job[r] = Idle /\ sweep[r].phase = "drive" /\ p \in sweep[r].ids
  /\ IF exec[p].broadcast THEN Done(r) ELSE Begin(r, "resume", p, 0)
  /\ sweep' = [sweep EXCEPT ![r].ids = @ \ {p}]
  /\ UNCHANGED <<dbVars, expired, signs, net, faults>>

\* The row is read again: skipped if broadcast meanwhile, broadcast as it was
\* persisted if signed, quoted and checked again if not.
DriveNext(r, p) ==
  /\ job[r] = Idle /\ sweep[r].phase = "drive" /\ p \in sweep[r].ids
  /\ IF exec[p].broadcast THEN Done(r)
     ELSE IF exec[p].signed # 0 THEN Begin(r, "signed", p, exec[p].signed)
     ELSE Begin(r, "resume", p, 0)
  /\ sweep' = [sweep EXCEPT ![r].ids = @ \ {p}]
  /\ UNCHANGED <<dbVars, expired, signs, net, faults>>

\* Mutant: no repair of a payment left PROCESSING by a crash.
SweepCheckNoRepair(r) ==
  /\ Resting(r, "drive")
  /\ IF BroadcastUnconfirmed = {} THEN Done(r)
     ELSE \E p \in BroadcastUnconfirmed :
            /\ \A q \in BroadcastUnconfirmed : exec[p].nonce <= exec[q].nonce
            /\ Begin(r, "observe", p, exec[p].signed)
  /\ Enter(r, "rest", {})
  /\ UNCHANGED <<dbVars, expired, signs, net, faults>>

\* checkBroadcastOutcomes: only the lowest nonce is looked at.
SweepCheck(r) ==
  /\ Resting(r, "drive")
  /\ IF BroadcastUnconfirmed = {} THEN Done(r)
     ELSE \E p \in BroadcastUnconfirmed :
            /\ \A q \in BroadcastUnconfirmed : exec[p].nonce <= exec[q].nonce
            /\ Begin(r, "repair", p, exec[p].signed)
  /\ Enter(r, "rest", {})
  /\ UNCHANGED <<dbVars, expired, signs, net, faults>>

\* checkAndUpdateOutcome, then markTerminal.
RepairSubmitted(r) ==
  /\ job[r].pc = "repair"
  /\ MarkSubmitted(job[r].pay)
  /\ Goto(r, "observe")
  /\ UNCHANGED <<expired, signs, net, sweep, faults>>

\* The receipt, then the bridge's answer; pending either way: next sweep.
Outcome(p, v) ==
  CASE net[p][v] = "filled" -> "filled"
    [] net[p][v] \in {"reverted", "refunded"} -> "failed"
    [] OTHER -> "pending"

ObserveOutcome(r) ==
  /\ job[r].pc = "observe"
  /\ LET res == Outcome(job[r].pay, job[r].ver)
     IN IF res = "pending" THEN Done(r)
        ELSE job' = [job EXCEPT ![r].pc = "record", ![r].res = res]
  /\ UNCHANGED <<dbVars, expired, signs, net, sweep, faults>>

RecordOutcome(r) ==
  /\ job[r].pc = "record"
  /\ UpdateExecutionExternalStatus(job[r].pay, job[r].res)
  /\ Goto(r, "settle")
  /\ UNCHANGED <<expired, signs, net, sweep, faults>>

SettlePayment(r) ==
  /\ job[r].pc = "settle"
  /\ CompleteSubmittedPayment(job[r].pay, job[r].res)
  /\ Done(r)
  /\ UNCHANGED <<expired, signs, net, sweep, faults>>

-----------------------------------------------------------------------------
(***************************************************************************)
(* The origin chain and the bridge.                                        *)
(***************************************************************************)
\* A pooled transaction with the next nonce is mined; it may revert.
Mine(p, v) ==
  /\ net[p][v] = "pool"
  /\ exec[p].nonce = ChainNonce
  /\ \E out \in {"mined", "reverted"} : net' = [net EXCEPT ![p][v] = out]
  /\ UNCHANGED <<dbVars, expired, signs, job, sweep, faults>>

\* The bridge fills the deposit, or gives up and refunds it.
BridgeSettles(p, v) ==
  /\ net[p][v] = "mined"
  /\ \E out \in {"filled", "refunded"} : net' = [net EXCEPT ![p][v] = out]
  /\ UNCHANGED <<dbVars, expired, signs, job, sweep, faults>>

-----------------------------------------------------------------------------
(***************************************************************************)
(* Faults.  A call that fails ends the actor's work on the payment; what   *)
(* is durable by then is left to a later sweep.                            *)
(***************************************************************************)
\* The statement an actor is about to execute.
Statement(a) ==
  LET p == job[a].pay IN
  \/ job[a].pc = "rejecting" /\ MarkProcessingFailed(p) /\ UNCHANGED signs
  \/ job[a].pc = "checked" /\ TryCreateExecution(p) /\ UNCHANGED signs
  \/ job[a].pc = "unsigned" /\ SignVersion(p) /\ PersistSignedExecution(p, signs[p] + 1)
  \/ job[a].pc = "sent" /\ MarkExecutionBroadcast(p) /\ UNCHANGED signs
  \/ job[a].pc \in {"marked", "repair"} /\ MarkSubmitted(p) /\ UNCHANGED signs
  \/ job[a].pc = "record" /\ UpdateExecutionExternalStatus(p, job[a].res) /\ UNCHANGED signs
  \/ job[a].pc = "settle" /\ CompleteSubmittedPayment(p, job[a].res) /\ UNCHANGED signs

\* An error is reported although the statement took effect ...
StatementErrsApplied(a) ==
  /\ Statement(a)
  /\ Fault("db")
  /\ Done(a)
  /\ UNCHANGED <<expired, net, sweep>>

\* ... or it did not.
StatementErrsLost(a) ==
  /\ job[a].pc \in {"rejecting", "checked", "unsigned", "sent", "marked",
                    "repair", "record", "settle"}
  /\ Fault("db")
  /\ Done(a)
  /\ UNCHANGED <<dbVars, expired, signs, net, sweep>>

\* A query of the sweep fails: the row, or the check phase, is skipped.
SweepQueryErrs(r) ==
  /\ job[r] = Idle /\ sweep[r].phase = "drive"
  /\ IF sweep[r].ids = {} THEN Enter(r, "rest", {})
     ELSE \E p \in sweep[r].ids : Enter(r, "drive", sweep[r].ids \ {p})
  /\ Fault("db")
  /\ UNCHANGED <<dbVars, expired, signs, net, job>>

\* Fetching the quote, building the envelope or pricing the gas fails.
QuoteErrs(a) ==
  /\ job[a].pc \in {"start", "resume", "unsigned"}
  /\ Fault("quote")
  /\ Done(a)
  /\ UNCHANGED <<dbVars, expired, signs, net, sweep>>

\* TransactionByHash, TransactionReceipt or CheckStatus fails, or
\* SendTransaction reports an error for a transaction the node has accepted.
NodeErrs(a) ==
  /\ job[a].pc \in {"signed", "observe"}
  /\ \/ UNCHANGED net
     \/ /\ job[a].pc = "signed" /\ net[job[a].pay][job[a].ver] = "unknown"
        /\ Accept(job[a].pay, job[a].ver)
  /\ Fault("send")
  /\ Done(a)
  /\ UNCHANGED <<dbVars, expired, signs, sweep>>

\* A node drops a transaction from its pool; nothing resends a broadcast row.
Evict(p, v) ==
  /\ net[p][v] = "pool"
  /\ net' = [net EXCEPT ![p][v] = "unknown"]
  /\ Fault("evict")
  /\ UNCHANGED <<dbVars, expired, signs, job, sweep>>

\* A worker without an Executor claims the payment and returns an error.
ClaimUnequipped(p) ==
  /\ status[p] = "ROUTED"
  /\ Transition(p, "ROUTED", "PROCESSING")
  /\ Fault("unequipped")
  /\ UNCHANGED <<expired, signs, net, job, sweep>>

WorkerCrash ==
  /\ Fault("crash")
  /\ job' = [a \in Actors |-> Idle]
  /\ sweep' = [r \in Reconcilers |-> [phase |-> "rest", ids |-> {}]]
  /\ UNCHANGED <<dbVars, expired, signs, net>>

-----------------------------------------------------------------------------
ExecutorStep(a) ==
  \/ PreflightReject(a) \/ PreflightPass(a) \/ Reject(a) \/ CreateExecution(a)
  \/ SignAndPersist(a) \/ AlreadyKnown(a) \/ SendTransaction(a) \/ SendRefused(a)
  \/ RecordBroadcast(a) \/ Submit(a)

ReconcilerStep(r) ==
  \/ ResumeReject(r) \/ ResumeLeave(r) \/ ResumePass(r)
  \/ RepairSubmitted(r) \/ ObserveOutcome(r) \/ RecordOutcome(r) \/ SettlePayment(r)

SweepStep(r) ==
  \/ \E stale \in SUBSET Payments : SweepRecover(r, stale) \/ SweepDrive(r, stale)
  \/ \E p \in Payments : RecoverNext(r, p) \/ DriveNext(r, p)
  \/ SweepCheck(r)

ActorFault(a) ==
  \/ StatementErrsApplied(a) \/ StatementErrsLost(a) \/ QuoteErrs(a) \/ NodeErrs(a)

ChainStep(p) == \E v \in Versions : Mine(p, v) \/ BridgeSettles(p, v)

Next ==
  \/ \E p \in Payments : Create(p) \/ QuoteExpires(p) \/ ChainStep(p) \/ ClaimUnequipped(p)
  \/ \E p \in Payments, v \in Versions : Evict(p, v)
  \/ \E h \in Handlers, p \in Payments : Claim(h, p)
  \/ \E a \in Actors : ExecutorStep(a) \/ ActorFault(a)
  \/ \E r \in Reconcilers : ReconcilerStep(r) \/ SweepStep(r) \/ SweepQueryErrs(r)
  \/ WorkerCrash

Spec == Init /\ [][Next]_vars

\* A goroutine with work goes on, the ticker ticks, time passes, the chain
\* mines and the bridge answers.  Every row left alone long enough is stale, so
\* a sweep that keeps coming back finds all of them.
Fairness ==
  /\ \A a \in Actors : WF_vars(ExecutorStep(a))
  /\ \A r \in Reconcilers :
       /\ WF_vars(ReconcilerStep(r) \/ SweepStep(r))
       /\ SF_vars(SweepRecover(r, StaleTestnetProcessingWithoutExecutionIDs))
       /\ SF_vars(SweepDrive(r, StaleNotYetBroadcast))
  /\ \A p \in Payments : WF_vars(QuoteExpires(p)) /\ WF_vars(ChainStep(p))

FairSpec == Spec /\ Fairness

-----------------------------------------------------------------------------
(***************************************************************************)
(* Properties.                                                             *)
(***************************************************************************)
\* Nonces are allocated without gap or repetition: the rows hold exactly the
\* nonces below next_nonce.  A lost TryCreateExecution race burns none.
NoncesDense ==
  /\ {exec[p].nonce : p \in {q \in Payments : HasExec(q)}} = 1..(nextNonce - 1)
  /\ \A p, q \in Payments : HasExec(p) /\ exec[p].nonce = exec[q].nonce => p = q

\* No payment is paid twice: of all the transactions ever signed for it, at most
\* one reaches the chain, whoever resumed the payment and signed it again.
PaidOnce ==
  \A p \in Payments, v, w \in Versions :
    net[p][v] \in OnChain /\ net[p][w] \in OnChain => v = w

\* A transaction the network has seen is the one the execution row records:
\* it was persisted before it was sent, and never signed a second time.
RecordedIsSent ==
  \A p \in Payments, v \in Versions : net[p][v] # "unknown" => exec[p].signed = v

\* COMPLETED payments were filled by the bridge, and FAILED ones have no
\* transaction that is still pending, deposited or filled.
OutcomeMatchesChain ==
  \A p \in Payments :
    /\ status[p] = "COMPLETED" => \E v \in Versions : net[p][v] = "filled"
    /\ status[p] = "FAILED" =>
         \A v \in Versions : net[p][v] \notin {"pool", "mined", "filled"}

\* When markTerminal settles a payment, the payment is SUBMITTED: a definitive
\* observation is never dropped by the guard of CompleteSubmittedPayment.
ObservationApplies ==
  \A r \in Reconcilers : job[r].pc = "settle" => status[job[r].pay] = "SUBMITTED"

\* A payment whose outcome is recorded in its execution row is settled, or a
\* reconciler is about to settle it.
NoSettlementLost ==
  \A p \in Payments :
    status[p] = "SUBMITTED" /\ exec[p].ext # "pending" =>
      \E r \in Reconcilers : job[r].pc = "settle" /\ job[r].pay = p

\* A payment that failed before it was signed holds no nonce.
FailedHoldsNoNonce ==
  \A p \in Payments : status[p] = "FAILED" /\ HasExec(p) => exec[p].signed # 0

\* A claimed testnet payment ends COMPLETED or FAILED.
ProcessingEventuallyTerminal ==
  \A p \in Payments : status[p] = "PROCESSING" ~> status[p] \in Terminal

\* Payment status moves only as the abstract lifecycle allows.
Lifecycle == INSTANCE PaymentLifecycle
               WITH Mode <- [p \in Payments |-> "testnet"]
RefinesLifecycle == Lifecycle!Spec

=============================================================================
