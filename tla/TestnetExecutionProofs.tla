------------------------ MODULE TestnetExecutionProofs ------------------------
(***************************************************************************)
(* Proofs about TestnetExecution for any number of payments, handlers,     *)
(* reconcilers (workers), signings and faults of every kind.               *)
(***************************************************************************)
EXTENDS TestnetExecution, TLAPS

\* A leaf may wait for its turn: the limits are above the default ones.
USE SMTT(20), ZenonT(20)

\* The rows of payment_executions, the invariant of a row included.
RowsTyped ==
  /\ exec \in [Payments -> [nonce : Nat, signed : 0..MaxSigns, broadcast : BOOLEAN,
                            ext : {"pending", "filled", "failed"}]]
  /\ \A p \in Payments : exec[p].broadcast => exec[p].signed # 0
  /\ \A p \in Payments : ~HasExec(p) => exec[p].signed = 0

\* What an actor counts on where it is: its payment has its nonce, and is
\* signed before it is sent; a handler never runs reconciler code.
JobOK(a) ==
  /\ a \in Handlers => job[a].pc \notin ReconcilerPcs
  /\ job[a].pc \in {"unsigned", "resume", "signed", "sent"} => HasExec(job[a].pay)
  /\ job[a].pc \in {"signed", "sent"} => exec[job[a].pay].signed # 0

\* The sweep drives rows that exist.
SweepOK == \A r \in Reconcilers : sweep[r].phase = "drive" => \A p \in sweep[r].ids : HasExec(p)

\* The inductive invariant behind the types.
TypeInv ==
  /\ TypeOK
  /\ RowsTyped
  /\ \A a \in Actors : JobOK(a)
  /\ SweepOK

-----------------------------------------------------------------------------
\* An actor that is not idle works on a payment.
LEMMA ActiveJob ==
  ASSUME TypeOK, NEW a \in Actors, job[a].pc # "idle"
  PROVE  job[a] \in Jobs /\ job[a].pay \in Payments /\ job[a].ver \in 0..MaxSigns
         /\ job[a].res \in {"pending", "filled", "failed"}
<1>1. job[a] \in Jobs
  BY DEF TypeOK, Idle
<1> QED
  BY <1>1 DEF Jobs

\* What a step does to the database: nothing, a creation, a claim, or the
\* statement an actor has come to.
LEMMA DbEffect ==
  ASSUME Next
  PROVE  \/ UNCHANGED <<status, exec, nextNonce, signs>>
         \/ \E p \in Payments : Create(p)
         \/ \E p \in Payments : ClaimUnequipped(p) \/ \E h \in Handlers : Claim(h, p)
         \/ \E a \in Actors : Statement(a)
<1>1. ASSUME NEW a \in Actors, ExecutorStep(a)
      PROVE  UNCHANGED <<status, exec, nextNonce, signs>> \/ Statement(a)
  <2>1. CASE PreflightReject(a) \/ PreflightPass(a) \/ AlreadyKnown(a) \/ SendTransaction(a)
             \/ SendRefused(a)
    BY <2>1 DEF PreflightReject, PreflightPass, AlreadyKnown, SendTransaction, SendRefused, dbVars
  <2>2. CASE Reject(a) \/ CreateExecution(a)
    BY <2>2 DEF Reject, CreateExecution, Statement
  <2>3. CASE SignAndPersist(a)
    BY <2>3 DEF SignAndPersist, Statement
  <2>4. CASE RecordBroadcast(a) \/ Submit(a)
    BY <2>4 DEF RecordBroadcast, Submit, Statement
  <2> QED
    BY <1>1, <2>1, <2>2, <2>3, <2>4 DEF ExecutorStep
<1>2. ASSUME NEW a \in Actors, ActorFault(a)
      PROVE  UNCHANGED <<status, exec, nextNonce, signs>> \/ Statement(a)
  BY <1>2 DEF ActorFault, StatementErrsApplied, StatementErrsLost, QuoteErrs, NodeErrs, dbVars
<1>3. ASSUME NEW r \in Reconcilers, ReconcilerStep(r)
      PROVE  UNCHANGED <<status, exec, nextNonce, signs>> \/ Statement(r)
  <2>1. CASE ResumeReject(r) \/ ResumeLeave(r) \/ ResumePass(r) \/ ObserveOutcome(r)
    BY <2>1 DEF ResumeReject, ResumeLeave, ResumePass, ObserveOutcome, dbVars
  <2>2. CASE RepairSubmitted(r) \/ RecordOutcome(r) \/ SettlePayment(r)
    BY <2>2 DEF RepairSubmitted, RecordOutcome, SettlePayment, Statement
  <2> QED
    BY <1>3, <2>1, <2>2 DEF ReconcilerStep
<1>4. ASSUME NEW r \in Reconcilers, SweepStep(r) \/ SweepQueryErrs(r)
      PROVE  UNCHANGED <<status, exec, nextNonce, signs>>
  BY <1>4 DEF SweepStep, SweepRecover, SweepDrive, RecoverNext, DriveNext, SweepCheck,
              SweepQueryErrs, dbVars
<1>5. CASE \/ WorkerCrash
           \/ \E p \in Payments : \/ QuoteExpires(p) \/ ChainStep(p)
                                  \/ \E v \in Versions : Evict(p, v)
  BY <1>5 DEF WorkerCrash, QuoteExpires, ChainStep, Mine, BridgeSettles, Evict, dbVars
<1> QED
  BY <1>1, <1>2, <1>3, <1>4, <1>5 DEF Next, Actors

\* The same of a payment's row: no statement touches another row, a nonce and
\* a signature are never taken back, and a row is new or keeps its nonce.
RowKept(p) ==
  /\ HasExec(p) => exec'[p].nonce = exec[p].nonce
  /\ exec[p].signed # 0 => exec'[p].signed # 0

\* What a step does to payment_executions and to next_nonce: nothing but the
\* creation of one row allocates a nonce.
LEMMA ExecEffect ==
  ASSUME TypeInv, Next
  PROVE  /\ RowsTyped'
         /\ \A p \in Payments : RowKept(p)
         /\ \/ nextNonce' = nextNonce /\ \A p \in Payments : exec'[p].nonce = exec[p].nonce
            \/ \E p \in Payments :
                 /\ exec[p].nonce = 0 /\ exec'[p].nonce = nextNonce
                 /\ nextNonce' = nextNonce + 1
                 /\ \A q \in Payments \ {p} : exec'[q].nonce = exec[q].nonce
<1>1. CASE UNCHANGED <<exec, nextNonce>>
  BY <1>1 DEF TypeInv, RowsTyped, RowKept, HasExec
<1>2. ASSUME NEW a \in Actors, Statement(a)
      PROVE  \/ UNCHANGED <<exec, nextNonce>>
             \/ job[a].pay \in Payments /\ TryCreateExecution(job[a].pay)
             \/ /\ job[a].pc = "unsigned" /\ job[a].pay \in Payments
                /\ signs[job[a].pay] < MaxSigns
                /\ PersistSignedExecution(job[a].pay, signs[job[a].pay] + 1)
             \/ /\ job[a].pc = "sent" /\ job[a].pay \in Payments
                /\ MarkExecutionBroadcast(job[a].pay)
             \/ /\ job[a].pay \in Payments /\ job[a].res \in {"pending", "filled", "failed"}
                /\ UpdateExecutionExternalStatus(job[a].pay, job[a].res)
  <2>1. job[a].pc # "idle"
    BY <1>2 DEF Statement
  <2>2. job[a].pay \in Payments /\ job[a].res \in {"pending", "filled", "failed"}
    BY <2>1, ActiveJob DEF TypeInv
  <2> QED
    BY <1>2, <2>2 DEF Statement, SignVersion, MarkProcessingFailed, MarkSubmitted,
                      CompleteSubmittedPayment, Transition
<1>3. ASSUME NEW p \in Payments, TryCreateExecution(p), ~HasExec(p)
      PROVE  /\ RowsTyped'
             /\ \A q \in Payments : RowKept(q)
             /\ exec[p].nonce = 0 /\ exec'[p].nonce = nextNonce
             /\ nextNonce' = nextNonce + 1
             /\ \A q \in Payments \ {p} : exec'[q].nonce = exec[q].nonce
  <2>1. /\ exec' = [exec EXCEPT ![p] = [nonce |-> nextNonce, signed |-> 0,
                                        broadcast |-> FALSE, ext |-> "pending"]]
        /\ nextNonce' = nextNonce + 1 /\ nextNonce \in Nat \ {0} /\ MaxSigns \in Nat
    BY <1>3, BoundsAssumption, ZenonT(40) DEF TryCreateExecution, NoExec, TypeInv, TypeOK
  <2>2. exec[p].signed = 0 /\ exec[p].nonce = 0
    BY <1>3 DEF TypeInv, RowsTyped, HasExec
  <2> QED
    BY <2>1, <2>2 DEF TypeInv, RowsTyped, RowKept, HasExec
<1>4. ASSUME NEW p \in Payments, NEW v \in 1..MaxSigns, HasExec(p), PersistSignedExecution(p, v)
      PROVE  /\ RowsTyped'
             /\ \A q \in Payments : RowKept(q)
             /\ nextNonce' = nextNonce /\ \A q \in Payments : exec'[q].nonce = exec[q].nonce
  BY <1>4, BoundsAssumption DEF PersistSignedExecution, TypeInv, RowsTyped, RowKept, HasExec
<1>5. ASSUME NEW p \in Payments, exec[p].signed # 0, MarkExecutionBroadcast(p)
      PROVE  /\ RowsTyped'
             /\ \A q \in Payments : RowKept(q)
             /\ nextNonce' = nextNonce /\ \A q \in Payments : exec'[q].nonce = exec[q].nonce
  BY <1>5, ZenonT(40) DEF MarkExecutionBroadcast, TypeInv, RowsTyped, RowKept, HasExec
<1>6. ASSUME NEW p \in Payments, NEW res \in {"pending", "filled", "failed"},
             UpdateExecutionExternalStatus(p, res)
      PROVE  /\ RowsTyped'
             /\ \A q \in Payments : RowKept(q)
             /\ nextNonce' = nextNonce /\ \A q \in Payments : exec'[q].nonce = exec[q].nonce
  BY <1>6 DEF UpdateExecutionExternalStatus, TypeInv, RowsTyped, RowKept, HasExec
<1>7. ASSUME NEW a \in Actors, Statement(a)
      PROVE  /\ RowsTyped'
             /\ \A p \in Payments : RowKept(p)
             /\ \/ nextNonce' = nextNonce /\ \A p \in Payments : exec'[p].nonce = exec[p].nonce
                \/ \E p \in Payments :
                     /\ exec[p].nonce = 0 /\ exec'[p].nonce = nextNonce
                     /\ nextNonce' = nextNonce + 1
                     /\ \A q \in Payments \ {p} : exec'[q].nonce = exec[q].nonce
  <2>1. CASE job[a].pay \in Payments /\ TryCreateExecution(job[a].pay)
    <3>1. CASE HasExec(job[a].pay)
      BY <1>1, <2>1, <3>1 DEF TryCreateExecution
    <3> QED
      BY <1>3, <2>1, <3>1
  <2>2. CASE /\ job[a].pc = "unsigned" /\ job[a].pay \in Payments
             /\ signs[job[a].pay] < MaxSigns
             /\ PersistSignedExecution(job[a].pay, signs[job[a].pay] + 1)
    <3>1. signs[job[a].pay] + 1 \in 1..MaxSigns
      BY <2>2, BoundsAssumption DEF TypeInv, TypeOK
    <3>2. HasExec(job[a].pay)
      BY <2>2 DEF TypeInv, JobOK
    <3> QED
      BY <1>4, <2>2, <3>1, <3>2
  <2>3. CASE /\ job[a].pc = "sent" /\ job[a].pay \in Payments
             /\ MarkExecutionBroadcast(job[a].pay)
    <3>1. exec[job[a].pay].signed # 0
      BY <2>3 DEF TypeInv, JobOK
    <3> QED
      BY <1>5, <2>3, <3>1
  <2>4. CASE /\ job[a].pay \in Payments /\ job[a].res \in {"pending", "filled", "failed"}
             /\ UpdateExecutionExternalStatus(job[a].pay, job[a].res)
    BY <1>6, <2>4
  <2> QED
    BY <1>1, <1>2, <1>7, <2>1, <2>2, <2>3, <2>4
<1>8. CASE \/ \E p \in Payments : Create(p)
           \/ \E p \in Payments : ClaimUnequipped(p) \/ \E h \in Handlers : Claim(h, p)
  BY <1>1, <1>8 DEF Create, Claim, ClaimUnequipped, Transition
<1> QED
  BY <1>1, <1>7, <1>8, DbEffect

\* A step moves at most one payment's status, along the lifecycle.
LEMMA StatusEffect ==
  ASSUME TypeOK, Next
  PROVE  \/ UNCHANGED status
         \/ \E p \in Payments : \E from, to \in Statuses :
              /\ status[p] = from
              /\ status' = [status EXCEPT ![p] = to]
              /\ <<from, to>> \in {<<"NONE", "ROUTED">>, <<"ROUTED", "PROCESSING">>,
                                   <<"PROCESSING", "FAILED">>, <<"PROCESSING", "SUBMITTED">>,
                                   <<"SUBMITTED", "COMPLETED">>, <<"SUBMITTED", "FAILED">>}
<1> DEFINE Moved(p, from, to) == status[p] = from /\ status' = [status EXCEPT ![p] = to]
<1>1. ASSUME NEW p \in Payments, NEW from, NEW to, Transition(p, from, to)
      PROVE  UNCHANGED status \/ Moved(p, from, to)
  BY <1>1, ZenonT(40) DEF Transition, TypeOK
<1>2. ASSUME NEW p \in Payments, Create(p)
      PROVE  Moved(p, "NONE", "ROUTED")
  BY <1>2 DEF Create
<1>3. ASSUME NEW p \in Payments, ClaimUnequipped(p) \/ \E h \in Handlers : Claim(h, p)
      PROVE  UNCHANGED status \/ Moved(p, "ROUTED", "PROCESSING")
  BY <1>1, <1>3 DEF Claim, ClaimUnequipped
<1>4. ASSUME NEW a \in Actors, Statement(a)
      PROVE  \/ UNCHANGED status
             \/ \E p \in Payments : \/ Moved(p, "PROCESSING", "FAILED")
                                    \/ Moved(p, "PROCESSING", "SUBMITTED")
                                    \/ Moved(p, "SUBMITTED", "COMPLETED")
                                    \/ Moved(p, "SUBMITTED", "FAILED")
  <2>1. job[a].pay \in Payments
    <3>1. job[a].pc # "idle"
      BY <1>4 DEF Statement
    <3> QED
      BY <3>1, ActiveJob
  <2>2. \/ UNCHANGED status
        \/ Transition(job[a].pay, "PROCESSING", "FAILED")
        \/ Transition(job[a].pay, "PROCESSING", "SUBMITTED")
        \/ Transition(job[a].pay, "SUBMITTED", "COMPLETED")
        \/ Transition(job[a].pay, "SUBMITTED", "FAILED")
    BY <1>4 DEF Statement, MarkProcessingFailed, MarkSubmitted, CompleteSubmittedPayment,
                TryCreateExecution, PersistSignedExecution, MarkExecutionBroadcast,
                UpdateExecutionExternalStatus
  <2> QED
    BY <1>1, <2>1, <2>2
<1> QED
  BY <1>2, <1>3, <1>4, DbEffect DEF Statuses

-----------------------------------------------------------------------------
\* Only the actor a moves.
OnlyMoves(a) ==
  /\ job' \in [Actors -> Jobs \cup {Idle}]
  /\ \A b \in Actors \ {a} : job'[b] = job[b]

\* Done leaves the actor idle.
LEMMA DoneJob ==
  ASSUME TypeInv, NEW a \in Actors, Done(a)
  PROVE  OnlyMoves(a) /\ JobOK(a)'
<1>1. job'[a] = Idle /\ OnlyMoves(a)
  BY DEF TypeInv, TypeOK, Done, OnlyMoves
<1> QED
  BY <1>1 DEF JobOK, Idle, ReconcilerPcs

\* Goto moves it within the code, with the same payment.
LEMMA GotoJob ==
  ASSUME TypeInv, NEW a \in Actors, job[a].pc # "idle",
         NEW pc \in ExecutorPcs \cup ReconcilerPcs, Goto(a, pc)
  PROVE  OnlyMoves(a) /\ job'[a].pc = pc /\ job'[a].pay = job[a].pay /\ job[a].pay \in Payments
<1>1. job[a] \in Jobs /\ job[a].pay \in Payments
  BY ActiveJob DEF TypeInv
<1>2. [job[a] EXCEPT !.pc = pc] \in Jobs
  BY <1>1 DEF Jobs
<1>3. job' = [job EXCEPT ![a] = [job[a] EXCEPT !.pc = pc]]
  BY DEF Goto
<1>4. [job[a] EXCEPT !.pc = pc].pc = pc /\ [job[a] EXCEPT !.pc = pc].pay = job[a].pay
  BY <1>1 DEF Jobs
<1> QED
  BY <1>1, <1>2, <1>3, <1>4 DEF TypeInv, TypeOK, OnlyMoves

\* Begin gives it a payment.
LEMMA BeginJob ==
  ASSUME TypeInv, NEW a \in Actors, NEW pc \in ExecutorPcs \cup ReconcilerPcs,
         NEW p \in Payments, NEW v \in 0..MaxSigns, Begin(a, pc, p, v)
  PROVE  OnlyMoves(a) /\ job'[a].pc = pc /\ job'[a].pay = p
<1>1. [pc |-> pc, pay |-> p, ver |-> v, res |-> "pending"] \in Jobs
  BY DEF Jobs
<1> QED
  BY <1>1 DEF TypeInv, TypeOK, Begin, OnlyMoves

\* The other actors can still count on their payments.
LEMMA OthersKeep ==
  ASSUME TypeInv, Next, NEW a \in Actors, OnlyMoves(a), JobOK(a)'
  PROVE  \A b \in Actors : JobOK(b)'
<1> SUFFICES ASSUME NEW b \in Actors \ {a}
             PROVE  JobOK(b)'
  OBVIOUS
<1>1. job'[b] = job[b] /\ JobOK(b)
  BY DEF OnlyMoves, TypeInv
<1>2. CASE job[b].pc = "idle"
  BY <1>1, <1>2 DEF JobOK, ReconcilerPcs
<1>3. CASE job[b].pc # "idle"
  <2>1. job[b].pay \in Payments
    BY <1>3, ActiveJob DEF TypeInv
  <2>2. RowKept(job[b].pay)
    BY <2>1, ExecEffect
  <2> QED
    BY <1>1, <2>2 DEF JobOK, RowKept, HasExec
<1> QED
  BY <1>2, <1>3

\* A step of the executor leaves its actor where it should be.
LEMMA ExecutorJob ==
  ASSUME TypeInv, Next, NEW a \in Actors, ExecutorStep(a)
  PROVE  OnlyMoves(a) /\ JobOK(a)'
<1>1. CASE PreflightReject(a) \/ PreflightPass(a) \/ RecordBroadcast(a)
  <2>1. PICK pc \in {"rejecting", "checked", "marked"} : Goto(a, pc) /\ job[a].pc # "idle"
    BY <1>1 DEF PreflightReject, PreflightPass, RecordBroadcast
  <2>2. OnlyMoves(a) /\ job'[a].pc = pc
    BY <2>1, GotoJob DEF ExecutorPcs
  <2> QED
    BY <2>2 DEF JobOK, ReconcilerPcs
<1>2. CASE Reject(a) \/ SendRefused(a) \/ Submit(a)
  BY <1>2, DoneJob DEF Reject, SendRefused, Submit
<1>3. CASE CreateExecution(a)
  <2>1. CASE HasExec(job[a].pay)
    BY <1>3, <2>1, DoneJob DEF CreateExecution
  <2>2. CASE ~HasExec(job[a].pay)
    <3>1. Goto(a, "unsigned") /\ job[a].pc # "idle" /\ TryCreateExecution(job[a].pay)
      BY <1>3, <2>2 DEF CreateExecution
    <3>2. OnlyMoves(a) /\ job'[a].pc = "unsigned" /\ job'[a].pay = job[a].pay
          /\ job[a].pay \in Payments
      BY <3>1, GotoJob DEF ExecutorPcs
    <3>3. exec'[job[a].pay].nonce = nextNonce /\ nextNonce # 0
      BY <2>2, <3>1, <3>2 DEF TryCreateExecution, NoExec, TypeInv, TypeOK
    <3> QED
      BY <3>2, <3>3 DEF JobOK, HasExec, ReconcilerPcs
  <2> QED
    BY <2>1, <2>2
<1>4. CASE SignAndPersist(a)
  <2>1. job[a].pc = "unsigned" /\ job[a] \in Jobs /\ job[a].pay \in Payments /\ HasExec(job[a].pay)
    BY <1>4, ActiveJob DEF SignAndPersist, TypeInv, JobOK
  <2>2. PICK v : v = signs[job[a].pay] + 1
    OBVIOUS
  <2>3. v \in 1..MaxSigns
    BY <1>4, <2>1, <2>2, BoundsAssumption DEF SignAndPersist, SignVersion, TypeInv, TypeOK
  <2>4. exec' = [exec EXCEPT ![job[a].pay].signed = v]
    BY <1>4, <2>2 DEF SignAndPersist, PersistSignedExecution
  <2>5. job' = [job EXCEPT ![a] = [job[a] EXCEPT !.pc = "signed", !.ver = v]]
    BY <1>4, <2>2, ZenonT(40) DEF SignAndPersist
  <2>6. PICK j : j = [job[a] EXCEPT !.pc = "signed", !.ver = v]
    OBVIOUS
  <2>7. j \in Jobs /\ j.pc = "signed" /\ j.pay = job[a].pay
    <3>1. v \in 0..MaxSigns /\ "signed" \in ExecutorPcs
      BY <2>3, BoundsAssumption DEF ExecutorPcs
    <3>2. j = [pc |-> "signed", pay |-> job[a].pay, ver |-> v, res |-> job[a].res]
      BY <2>1, <2>6, ZenonT(40) DEF Jobs
    <3>3. job[a].res \in {"pending", "filled", "failed"}
      BY <2>1 DEF Jobs
    <3> QED
      BY <2>1, <3>1, <3>2, <3>3 DEF Jobs
  <2>8. OnlyMoves(a) /\ job'[a] = j
    BY <2>5, <2>6, <2>7 DEF TypeInv, TypeOK, OnlyMoves
  <2>9. exec'[job[a].pay].signed = v /\ v # 0
    BY <2>1, <2>3, <2>4 DEF TypeInv, RowsTyped
  <2>10. HasExec(job[a].pay)'
    <3>1. RowKept(job[a].pay)
      BY <2>1, ExecEffect
    <3>2. job'[a].pay = job[a].pay
      BY <2>7, <2>8
    <3>3. exec'[job[a].pay].nonce # 0
      BY <2>1, <3>1 DEF RowKept, HasExec
    <3> QED
      BY <3>2, <3>3 DEF HasExec
  <2> QED
    BY <2>7, <2>8, <2>9, <2>10 DEF JobOK, ReconcilerPcs
<1>5. CASE AlreadyKnown(a) \/ SendTransaction(a)
  <2>1. Goto(a, "sent") /\ job[a].pc = "signed" /\ UNCHANGED exec
    BY <1>5 DEF AlreadyKnown, SendTransaction, dbVars
  <2>2. OnlyMoves(a) /\ job'[a].pc = "sent" /\ job'[a].pay = job[a].pay
    BY <2>1, GotoJob DEF ExecutorPcs
  <2>3. HasExec(job[a].pay) /\ exec[job[a].pay].signed # 0
    BY <2>1 DEF TypeInv, JobOK
  <2> QED
    BY <2>1, <2>2, <2>3 DEF JobOK, HasExec, ReconcilerPcs
<1> QED
  BY <1>1, <1>2, <1>3, <1>4, <1>5 DEF ExecutorStep

\* So does a step of the reconciler.
LEMMA ReconcilerJob ==
  ASSUME TypeInv, Next, NEW r \in Reconcilers,
         ReconcilerStep(r) \/ SweepStep(r) \/ SweepQueryErrs(r)
  PROVE  UNCHANGED job \/ (OnlyMoves(r) /\ JobOK(r)')
<1>0. r \in Actors /\ r \notin Handlers
  BY ActorsAssumption DEF Actors
<1>1. CASE ResumeReject(r) \/ RepairSubmitted(r) \/ RecordOutcome(r)
  <2>1. PICK pc \in {"rejecting", "observe", "settle"} : Goto(r, pc) /\ job[r].pc # "idle"
    BY <1>1 DEF ResumeReject, RepairSubmitted, RecordOutcome
  <2>2. OnlyMoves(r) /\ job'[r].pc = pc
    BY <1>0, <2>1, GotoJob DEF ExecutorPcs, ReconcilerPcs
  <2> QED
    BY <1>0, <2>2 DEF JobOK
<1>2. CASE ResumeLeave(r) \/ SettlePayment(r)
  BY <1>0, <1>2, DoneJob DEF ResumeLeave, SettlePayment
<1>3. CASE ResumePass(r)
  <2>1. Goto(r, "unsigned") /\ job[r].pc = "resume" /\ UNCHANGED exec
    BY <1>3 DEF ResumePass, dbVars
  <2>2. OnlyMoves(r) /\ job'[r].pc = "unsigned" /\ job'[r].pay = job[r].pay
    BY <1>0, <2>1, GotoJob DEF ExecutorPcs
  <2>3. HasExec(job[r].pay)
    BY <1>0, <2>1, ZenonT(40) DEF TypeInv, JobOK
  <2> QED
    BY <1>0, <2>1, <2>2, <2>3 DEF JobOK, HasExec
<1>4. CASE ObserveOutcome(r)
  <2>1. CASE Done(r)
    BY <1>0, <2>1, DoneJob
  <2>2. CASE \E res \in {"filled", "failed"} : job' = [job EXCEPT ![r].pc = "record", ![r].res = res]
    <3>1. PICK res \in {"filled", "failed"} : job' = [job EXCEPT ![r].pc = "record", ![r].res = res]
      BY <2>2, ZenonT(40)
    <3>2. job[r] \in Jobs
      BY <1>0, <1>4, ActiveJob DEF ObserveOutcome, TypeInv
    <3>3. PICK j : j = [job[r] EXCEPT !.pc = "record", !.res = res]
      OBVIOUS
    <3>4. j = [pc |-> "record", pay |-> job[r].pay, ver |-> job[r].ver, res |-> res]
      BY <3>2, <3>3, ZenonT(40) DEF Jobs
    <3>5. j \in Jobs /\ j.pc = "record"
      BY <3>1, <3>2, <3>4 DEF Jobs, ReconcilerPcs
    <3>6. OnlyMoves(r) /\ job'[r] = j
      BY <1>0, <3>1, <3>3, <3>5 DEF TypeInv, TypeOK, OnlyMoves
    <3> QED
      BY <1>0, <3>5, <3>6 DEF JobOK
  <2> QED
    BY <1>4, <2>1, <2>2 DEF ObserveOutcome, Outcome
<1>5. CASE \E stale \in SUBSET Payments : SweepRecover(r, stale) \/ SweepDrive(r, stale)
  BY <1>5 DEF SweepRecover, SweepDrive
<1>6. CASE SweepQueryErrs(r)
  BY <1>6 DEF SweepQueryErrs
<1>7. ASSUME NEW p \in Payments, RecoverNext(r, p)
      PROVE  OnlyMoves(r) /\ JobOK(r)'
  <2>1. 0 \in 0..MaxSigns
    BY BoundsAssumption
  <2>2. OnlyMoves(r) /\ job'[r].pc = "start"
    BY <1>0, <1>7, <2>1, BeginJob DEF RecoverNext, ExecutorPcs
  <2> QED
    BY <1>0, <2>2 DEF JobOK
<1>8. ASSUME NEW p \in Payments, DriveNext(r, p)
      PROVE  OnlyMoves(r) /\ JobOK(r)'
  <2>1. HasExec(p) /\ UNCHANGED exec
    BY <1>8 DEF DriveNext, TypeInv, SweepOK, dbVars
  <2>2. 0 \in 0..MaxSigns /\ exec[p].signed \in 0..MaxSigns
    BY BoundsAssumption DEF TypeInv, RowsTyped
  <2>3. CASE exec[p].broadcast
    BY <1>0, <1>8, <2>3, DoneJob DEF DriveNext
  <2>4. CASE ~exec[p].broadcast /\ exec[p].signed # 0
    <3>1. OnlyMoves(r) /\ job'[r].pc = "signed" /\ job'[r].pay = p
      BY <1>0, <1>8, <2>2, <2>4, BeginJob DEF DriveNext, ExecutorPcs
    <3> QED
      BY <1>0, <2>1, <2>4, <3>1 DEF JobOK, HasExec
  <2>5. CASE ~exec[p].broadcast /\ exec[p].signed = 0
    <3>1. OnlyMoves(r) /\ job'[r].pc = "resume" /\ job'[r].pay = p
      BY <1>0, <1>8, <2>2, <2>5, BeginJob DEF DriveNext, ReconcilerPcs
    <3> QED
      BY <1>0, <2>1, <3>1 DEF JobOK, HasExec
  <2> QED
    BY <2>3, <2>4, <2>5
<1>9. CASE SweepCheck(r)
  <2>1. CASE Done(r)
    BY <1>0, <2>1, DoneJob
  <2>2. ASSUME NEW p \in BroadcastUnconfirmed, Begin(r, "repair", p, exec[p].signed)
        PROVE  OnlyMoves(r) /\ JobOK(r)'
    <3>1. p \in Payments /\ exec[p].signed \in 0..MaxSigns
      BY DEF BroadcastUnconfirmed, TypeInv, RowsTyped
    <3>2. OnlyMoves(r) /\ job'[r].pc = "repair"
      BY <1>0, <2>2, <3>1, BeginJob DEF ReconcilerPcs
    <3> QED
      BY <1>0, <3>2 DEF JobOK
  <2> QED
    BY <1>9, <2>1, <2>2 DEF SweepCheck
<1> QED
  BY <1>1, <1>2, <1>3, <1>4, <1>5, <1>6, <1>7, <1>8, <1>9 DEF ReconcilerStep, SweepStep

\* After any step every actor is where it should be.
LEMMA JobEffect ==
  ASSUME TypeInv, Next
  PROVE  job' \in [Actors -> Jobs \cup {Idle}] /\ \A a \in Actors : JobOK(a)'
<1>1. ASSUME NEW a \in Actors, OnlyMoves(a), JobOK(a)'
      PROVE  job' \in [Actors -> Jobs \cup {Idle}] /\ \A b \in Actors : JobOK(b)'
  BY <1>1, OthersKeep DEF OnlyMoves
<1>2. CASE UNCHANGED job
  <2>1. job' \in [Actors -> Jobs \cup {Idle}]
    BY <1>2 DEF TypeInv, TypeOK
  <2>2. ASSUME NEW a \in Actors
        PROVE  JobOK(a)'
    <3>1. CASE job[a].pc = "idle"
      BY <1>2, <3>1 DEF JobOK, ReconcilerPcs
    <3>2. CASE job[a].pc # "idle"
      <4>1. RowKept(job[a].pay)
        BY <3>2, ActiveJob, ExecEffect DEF TypeInv
      <4>2. JobOK(a)
        BY DEF TypeInv
      <4> QED
        BY <1>2, <4>1, <4>2 DEF JobOK, RowKept, HasExec
    <3> QED
      BY <3>1, <3>2
  <2> QED
    BY <2>1, <2>2
<1>3. ASSUME NEW a \in Actors, ExecutorStep(a) \/ Done(a)
      PROVE  OnlyMoves(a) /\ JobOK(a)'
  BY <1>3, ExecutorJob, DoneJob
<1>4. ASSUME NEW a \in Actors, ActorFault(a)
      PROVE  Done(a)
  BY <1>4 DEF ActorFault, StatementErrsApplied, StatementErrsLost, QuoteErrs, NodeErrs
<1>5. ASSUME NEW h \in Handlers, NEW p \in Payments, Claim(h, p)
      PROVE  h \in Actors /\ OnlyMoves(h) /\ JobOK(h)'
  <2>1. h \in Actors /\ 0 \in 0..MaxSigns /\ Begin(h, "start", p, 0)
    BY <1>5, BoundsAssumption DEF Actors, Claim
  <2>2. OnlyMoves(h) /\ job'[h].pc = "start"
    BY <2>1, BeginJob DEF ExecutorPcs
  <2> QED
    BY <2>1, <2>2 DEF JobOK, ReconcilerPcs
<1>6. CASE WorkerCrash
  <2>1. job' = [a \in Actors |-> Idle]
    BY <1>6 DEF WorkerCrash
  <2> QED
    BY <2>1 DEF JobOK, Idle, ReconcilerPcs
<1>7. CASE \E p \in Payments : \/ Create(p) \/ QuoteExpires(p) \/ ChainStep(p) \/ ClaimUnequipped(p)
                              \/ \E v \in Versions : Evict(p, v)
  BY <1>2, <1>7 DEF Create, QuoteExpires, ChainStep, Mine, BridgeSettles, ClaimUnequipped, Evict
<1>8. ASSUME NEW r \in Reconcilers, ReconcilerStep(r) \/ SweepStep(r) \/ SweepQueryErrs(r)
      PROVE  r \in Actors /\ (UNCHANGED job \/ (OnlyMoves(r) /\ JobOK(r)'))
  BY <1>8, ReconcilerJob DEF Actors
<1> QED
  BY <1>1, <1>2, <1>3, <1>4, <1>5, <1>6, <1>7, <1>8 DEF Next

\* The sweep's ids are payments, and those it drives have rows.
LEMMA SweepEffect ==
  ASSUME TypeInv, Next
  PROVE  /\ sweep' \in [Reconcilers -> [phase : {"rest", "recover", "drive"}, ids : SUBSET Payments]]
         /\ SweepOK'
<1> DEFINE Sweeps == [phase : {"rest", "recover", "drive"}, ids : SUBSET Payments]
<1>0. sweep \in [Reconcilers -> Sweeps] /\ SweepOK /\ \A p \in Payments : RowKept(p)
  BY ExecEffect DEF TypeInv, TypeOK
<1>1. ASSUME NEW r \in Reconcilers, NEW new \in Sweeps, sweep' = [sweep EXCEPT ![r] = new],
             new.phase = "drive" => \A p \in new.ids : HasExec(p)
      PROVE  sweep' \in [Reconcilers -> Sweeps] /\ SweepOK'
  <2>1. sweep' \in [Reconcilers -> Sweeps]
    BY <1>0, <1>1
  <2>2. ASSUME NEW s \in Reconcilers, sweep'[s].phase = "drive", NEW p \in sweep'[s].ids
        PROVE  exec'[p].nonce # 0
    <3>1. p \in Payments
      BY <2>1, <2>2
    <3>2. HasExec(p)
      BY <1>0, <1>1, <2>2 DEF SweepOK
    <3> QED
      BY <1>0, <3>1, <3>2 DEF RowKept, HasExec
  <2> QED
    BY <2>1, <2>2 DEF SweepOK, HasExec
<1>2. CASE UNCHANGED sweep
  <2>1. sweep' \in [Reconcilers -> Sweeps]
    BY <1>0, <1>2
  <2>2. ASSUME NEW s \in Reconcilers, sweep'[s].phase = "drive", NEW p \in sweep'[s].ids
        PROVE  exec'[p].nonce # 0
    <3>1. p \in Payments /\ HasExec(p)
      BY <1>0, <1>2, <2>2 DEF SweepOK
    <3> QED
      BY <1>0, <3>1 DEF RowKept, HasExec
  <2> QED
    BY <2>1, <2>2 DEF SweepOK, HasExec
<1>3. ASSUME NEW r \in Reconcilers, NEW phase \in {"rest", "recover", "drive"},
             NEW ids \in SUBSET Payments, Enter(r, phase, ids),
             phase = "drive" => \A p \in ids : HasExec(p)
      PROVE  sweep' \in [Reconcilers -> Sweeps] /\ SweepOK'
  <2>1. PICK new : new = [phase |-> phase, ids |-> ids]
    BY ZenonT(40)
  <2>2. new \in Sweeps /\ new.phase = phase /\ new.ids = ids
    BY <2>1
  <2> QED
    BY <1>1, <1>3, <2>1, <2>2, ZenonT(40) DEF Enter
<1>4. ASSUME NEW r \in Reconcilers, NEW stale \in SUBSET Payments,
             SweepRecover(r, stale) \/ SweepDrive(r, stale)
      PROVE  sweep' \in [Reconcilers -> Sweeps] /\ SweepOK'
  BY <1>3, <1>4 DEF SweepRecover, SweepDrive, StaleNotYetBroadcast
<1>5. ASSUME NEW r \in Reconcilers, NEW p \in Payments, RecoverNext(r, p) \/ DriveNext(r, p)
      PROVE  sweep' \in [Reconcilers -> Sweeps] /\ SweepOK'
  <2>1. PICK new : new = [sweep[r] EXCEPT !.ids = sweep[r].ids \ {p}]
    BY ZenonT(40)
  <2>2. sweep' = [sweep EXCEPT ![r] = new]
    BY <1>5, <2>1 DEF RecoverNext, DriveNext
  <2>3. new \in Sweeps /\ new.phase = sweep[r].phase /\ new.ids \subseteq sweep[r].ids
    BY <1>0, <2>1
  <2>4. new.phase = "drive" => \A q \in new.ids : HasExec(q)
    BY <1>0, <2>3, ZenonT(40) DEF SweepOK
  <2> QED
    BY <1>1, <2>2, <2>3, <2>4, ZenonT(40)
<1>6. ASSUME NEW r \in Reconcilers, SweepCheck(r)
      PROVE  sweep' \in [Reconcilers -> Sweeps] /\ SweepOK'
  <2>1. Enter(r, "rest", {}) /\ {} \in SUBSET Payments
    BY <1>6 DEF SweepCheck
  <2> QED
    BY <1>3, <2>1
<1>7. ASSUME NEW r \in Reconcilers, SweepQueryErrs(r)
      PROVE  sweep' \in [Reconcilers -> Sweeps] /\ SweepOK'
  <2>1. CASE Enter(r, "rest", {})
    <3>1. {} \in SUBSET Payments
      OBVIOUS
    <3> QED
      BY <1>3, <2>1, <3>1
  <2>2. ASSUME NEW p \in sweep[r].ids, Enter(r, "drive", sweep[r].ids \ {p})
        PROVE  sweep' \in [Reconcilers -> Sweeps] /\ SweepOK'
    <3>1. sweep[r].ids \ {p} \in SUBSET Payments
      BY <1>0
    <3>2. \A q \in sweep[r].ids \ {p} : HasExec(q)
      BY <1>0, <1>7 DEF SweepOK, SweepQueryErrs
    <3> QED
      BY <1>3, <2>2, <3>1, <3>2
  <2> QED
    BY <1>7, <2>1, <2>2, ZenonT(40) DEF SweepQueryErrs
<1>8. CASE WorkerCrash
  BY <1>8 DEF WorkerCrash, SweepOK
<1>9. ASSUME NEW a \in Actors, ExecutorStep(a) \/ ActorFault(a)
      PROVE  UNCHANGED sweep
  <2>1. CASE ActorFault(a)
    BY <2>1 DEF ActorFault, StatementErrsApplied, StatementErrsLost, QuoteErrs, NodeErrs
  <2>2. CASE ExecutorStep(a)
    BY <2>2 DEF ExecutorStep, PreflightReject, PreflightPass, Reject, CreateExecution,
                SignAndPersist, AlreadyKnown, SendTransaction, SendRefused, RecordBroadcast, Submit
  <2> QED
    BY <1>9, <2>1, <2>2
<1>10. ASSUME NEW r \in Reconcilers, ReconcilerStep(r)
       PROVE  UNCHANGED sweep
  BY <1>10 DEF ReconcilerStep, ResumeReject, ResumeLeave, ResumePass, RepairSubmitted,
               ObserveOutcome, RecordOutcome, SettlePayment
<1>11. ASSUME NEW p \in Payments,
              \/ Create(p) \/ QuoteExpires(p) \/ ChainStep(p) \/ ClaimUnequipped(p)
              \/ \E v \in Versions : Evict(p, v)
              \/ \E h \in Handlers : Claim(h, p)
       PROVE  UNCHANGED sweep
  BY <1>11 DEF Create, QuoteExpires, ChainStep, Mine, BridgeSettles, ClaimUnequipped, Evict, Claim
<1> QED
  BY <1>2, <1>4, <1>5, <1>6, <1>7, <1>8, <1>9, <1>10, <1>11, ZenonT(40) DEF Next, SweepStep

-----------------------------------------------------------------------------
\* The transactions that reached the chain.
OnChainTxs == {t \in Payments \X Versions : net[t[1]][t[2]] \in OnChain}

NetStates == [Payments -> [Versions -> {"unknown", "pool"} \cup OnChain]]

\* The same transactions are on the chain as before.
SameOnChain ==
  \A p \in Payments, v \in Versions : net'[p][v] \in OnChain <=> net[p][v] \in OnChain

\* A transaction accepted by a node is not on the chain yet, and takes none off.
LEMMA AcceptEffect ==
  ASSUME net \in NetStates, NEW p \in Payments, NEW v, net[p][v] = "unknown", Accept(p, v)
  PROVE  net' \in NetStates /\ SameOnChain
<1>1. PICK f : f = [u \in Versions |->
        IF u = v THEN "pool" ELSE IF net[p][u] = "pool" THEN "unknown" ELSE net[p][u]]
  BY ZenonT(40)
<1>2. net' = [net EXCEPT ![p] = f]
  BY <1>1 DEF Accept
<1>3. net[p] \in [Versions -> {"unknown", "pool"} \cup OnChain]
  BY DEF NetStates
<1>4. f \in [Versions -> {"unknown", "pool"} \cup OnChain]
  BY <1>1, <1>3
<1>5. net' \in NetStates
  BY <1>2, <1>4 DEF NetStates
<1>6. \A u \in Versions : f[u] \in OnChain <=> net[p][u] \in OnChain
  BY <1>1, <1>3 DEF OnChain
<1>7. SameOnChain
  BY <1>2, <1>6 DEF SameOnChain, NetStates
<1> QED
  BY <1>5, <1>7

\* What a step does to the network: only Mine puts a transaction on the chain,
\* one with the nonce the chain expects.
LEMMA NetEffect ==
  ASSUME TypeOK, Next
  PROVE  /\ net' \in NetStates
         /\ \/ SameOnChain
            \/ \E p \in Payments, v \in Versions :
                 /\ net[p][v] = "pool" /\ exec[p].nonce = ChainNonce
                 /\ UNCHANGED exec
                 /\ \E out \in {"mined", "reverted"} : net' = [net EXCEPT ![p][v] = out]
<1>0. net \in NetStates
  BY DEF TypeOK, NetStates
<1>1. CASE UNCHANGED net
  BY <1>0, <1>1 DEF SameOnChain
<1>2. ASSUME NEW a \in Actors, ExecutorStep(a), ~UNCHANGED net
      PROVE  net' \in NetStates /\ SameOnChain
  <2>1. SendTransaction(a)
    BY <1>2 DEF ExecutorStep, PreflightReject, PreflightPass, Reject, CreateExecution,
                SignAndPersist, AlreadyKnown, SendRefused, RecordBroadcast, Submit
  <2>2. job[a].pay \in Payments
    BY <2>1, ActiveJob DEF SendTransaction
  <2> QED
    BY <1>0, <2>1, <2>2, AcceptEffect DEF SendTransaction
<1>3. ASSUME NEW a \in Actors, ActorFault(a), ~UNCHANGED net
      PROVE  net' \in NetStates /\ SameOnChain
  <2>1. /\ job[a].pc = "signed" /\ net[job[a].pay][job[a].ver] = "unknown"
        /\ Accept(job[a].pay, job[a].ver)
    BY <1>3 DEF ActorFault, StatementErrsApplied, StatementErrsLost, QuoteErrs, NodeErrs
  <2>2. job[a].pay \in Payments
    BY <2>1, ActiveJob
  <2> QED
    BY <1>0, <2>1, <2>2, AcceptEffect
<1>4. ASSUME NEW r \in Reconcilers, ReconcilerStep(r) \/ SweepStep(r) \/ SweepQueryErrs(r)
      PROVE  UNCHANGED net
  BY <1>4 DEF ReconcilerStep, ResumeReject, ResumeLeave, ResumePass, RepairSubmitted,
              ObserveOutcome, RecordOutcome, SettlePayment, SweepStep, SweepRecover,
              SweepDrive, RecoverNext, DriveNext, SweepCheck, SweepQueryErrs
<1>5. ASSUME NEW p \in Payments,
             Create(p) \/ QuoteExpires(p) \/ ClaimUnequipped(p) \/ \E h \in Handlers : Claim(h, p)
      PROVE  UNCHANGED net
  BY <1>5 DEF Create, QuoteExpires, ClaimUnequipped, Claim
<1>6. ASSUME NEW p \in Payments, NEW v \in Versions, NEW out \in OnChain,
             net' = [net EXCEPT ![p][v] = out]
      PROVE  net' \in NetStates
  BY <1>0, <1>6 DEF NetStates
<1>7. ASSUME NEW p \in Payments, NEW v \in Versions, Mine(p, v)
      PROVE  /\ net' \in NetStates
             /\ net[p][v] = "pool" /\ exec[p].nonce = ChainNonce /\ UNCHANGED exec
             /\ \E out \in {"mined", "reverted"} : net' = [net EXCEPT ![p][v] = out]
  BY <1>6, <1>7, ZenonT(40) DEF Mine, OnChain, dbVars
<1>8. ASSUME NEW p \in Payments, NEW v \in Versions, BridgeSettles(p, v)
      PROVE  net' \in NetStates /\ SameOnChain
  <2>1. PICK out \in {"filled", "refunded"} : net' = [net EXCEPT ![p][v] = out]
    BY <1>8, ZenonT(40) DEF BridgeSettles
  <2>2. net' \in NetStates
    BY <1>6, <2>1, ZenonT(40) DEF OnChain
  <2>3. net[p][v] \in OnChain /\ out \in OnChain
    BY <1>8 DEF BridgeSettles, OnChain
  <2> QED
    BY <1>0, <2>1, <2>2, <2>3 DEF NetStates, SameOnChain
<1>9. ASSUME NEW p \in Payments, NEW v \in Versions, Evict(p, v)
      PROVE  net' \in NetStates /\ SameOnChain
  <2>1. net[p][v] = "pool" /\ net' = [net EXCEPT ![p][v] = "unknown"]
    BY <1>9 DEF Evict
  <2>2. "unknown" \notin OnChain /\ "pool" \notin OnChain
    BY DEF OnChain
  <2> QED
    BY <1>0, <2>1, <2>2 DEF NetStates, SameOnChain
<1>10. CASE WorkerCrash
  BY <1>1, <1>10 DEF WorkerCrash
<1> QED
  BY <1>1, <1>2, <1>3, <1>4, <1>5, <1>7, <1>8, <1>9, <1>10 DEF Next, ChainStep

\* The types of what is left: expired quotes, signing counts and faults.
LEMMA RestEffect ==
  ASSUME TypeOK, Next
  PROVE  /\ expired' \in SUBSET Payments
         /\ signs' \in [Payments -> 0..MaxSigns]
         /\ faults' \in Nat
<1>1. ASSUME NEW a \in Actors, ExecutorStep(a)
      PROVE  UNCHANGED <<expired, faults>>
  BY <1>1 DEF ExecutorStep, PreflightReject, PreflightPass, Reject, CreateExecution,
              SignAndPersist, AlreadyKnown, SendTransaction, SendRefused, RecordBroadcast, Submit
<1>2. ASSUME NEW r \in Reconcilers, ReconcilerStep(r) \/ SweepStep(r)
      PROVE  UNCHANGED <<expired, faults>>
  BY <1>2 DEF ReconcilerStep, ResumeReject, ResumeLeave, ResumePass, RepairSubmitted,
              ObserveOutcome, RecordOutcome, SettlePayment, SweepStep, SweepRecover, SweepDrive,
              RecoverNext, DriveNext, SweepCheck
<1>3. ASSUME NEW a \in Actors, ActorFault(a) \/ SweepQueryErrs(a)
      PROVE  UNCHANGED expired /\ faults' = faults + 1
  BY <1>3 DEF ActorFault, StatementErrsApplied, StatementErrsLost, QuoteErrs, NodeErrs,
              SweepQueryErrs, Fault
<1>4. ASSUME \/ WorkerCrash
             \/ \E p \in Payments : ClaimUnequipped(p) \/ \E v \in Versions : Evict(p, v)
      PROVE  UNCHANGED expired /\ faults' = faults + 1
  BY <1>4 DEF WorkerCrash, ClaimUnequipped, Evict, Fault
<1>5. ASSUME NEW p \in Payments,
             Create(p) \/ QuoteExpires(p) \/ ChainStep(p) \/ \E h \in Handlers : Claim(h, p)
      PROVE  expired' \in {expired, expired \cup {p}} /\ UNCHANGED faults
  BY <1>5 DEF Create, QuoteExpires, ChainStep, Mine, BridgeSettles, Claim
<1>6. UNCHANGED signs \/ \E p \in Payments : SignVersion(p)
  <2>1. ASSUME NEW a \in Actors, Statement(a)
        PROVE  UNCHANGED signs \/ \E p \in Payments : SignVersion(p)
    <3>1. CASE job[a].pc = "unsigned"
      BY <2>1, <3>1, ActiveJob DEF Statement
    <3> QED
      BY <2>1, <3>1 DEF Statement
  <2> QED
    BY <2>1, DbEffect DEF Create, Claim, ClaimUnequipped
<1>7. signs' \in [Payments -> 0..MaxSigns]
  <2>1. ASSUME NEW p \in Payments, SignVersion(p)
        PROVE  signs' \in [Payments -> 0..MaxSigns]
    <3>1. signs[p] + 1 \in 0..MaxSigns
      BY <2>1, BoundsAssumption DEF SignVersion, TypeOK
    <3> QED
      BY <2>1, <3>1 DEF SignVersion, TypeOK
  <2> QED
    BY <1>6, <2>1 DEF TypeOK
<1>8. expired' \in SUBSET Payments /\ faults' \in Nat
  <2>1. CASE UNCHANGED <<expired, faults>>
    BY <2>1 DEF TypeOK
  <2>2. CASE UNCHANGED expired /\ faults' = faults + 1
    BY <2>2 DEF TypeOK
  <2>3. CASE \E p \in Payments : expired' \in {expired, expired \cup {p}} /\ UNCHANGED faults
    BY <2>3 DEF TypeOK
  <2> QED
    BY <1>1, <1>2, <1>3, <1>4, <1>5, <2>1, <2>2, <2>3 DEF Next, Actors
<1> QED
  BY <1>7, <1>8

-----------------------------------------------------------------------------
\* Every step, a stutter included, keeps TypeInv.
LEMMA NextTypeInv == TypeInv /\ [Next]_vars => TypeInv'
<1> SUFFICES ASSUME TypeInv, [Next]_vars
             PROVE  TypeInv'
  OBVIOUS
<1>1. CASE UNCHANGED vars
  <2>1. UNCHANGED <<status, exec, nextNonce, expired, signs, net, job, sweep, faults>>
    BY <1>1 DEF vars, dbVars
  <2>2. TypeOK' /\ RowsTyped'
    BY <2>1, ZenonT(40) DEF TypeInv, TypeOK, RowsTyped, HasExec
  <2>3. (\A a \in Actors : JobOK(a)') /\ SweepOK'
    BY <2>1 DEF TypeInv, JobOK, SweepOK, HasExec
  <2> QED
    BY <2>2, <2>3 DEF TypeInv
<1>2. CASE Next
  <2>1. status' \in [Payments -> Statuses]
    BY <1>2, StatusEffect, ZenonT(40) DEF TypeInv, TypeOK
  <2>2. nextNonce' \in Nat \ {0}
    BY <1>2, ExecEffect DEF TypeInv, TypeOK
  <2>3. /\ RowsTyped' /\ SweepOK'
        /\ \A a \in Actors : JobOK(a)'
        /\ job' \in [Actors -> Jobs \cup {Idle}]
        /\ sweep' \in [Reconcilers -> [phase : {"rest", "recover", "drive"}, ids : SUBSET Payments]]
    BY <1>2, ExecEffect, SweepEffect, JobEffect
  <2>4. /\ net' \in [Payments -> [Versions -> {"unknown", "pool"} \cup OnChain]]
        /\ expired' \in SUBSET Payments
        /\ signs' \in [Payments -> 0..MaxSigns]
        /\ faults' \in Nat
    BY <1>2, NetEffect, RestEffect DEF TypeInv, NetStates
  <2>5. \A h \in Handlers : job'[h].pc \notin ReconcilerPcs
    BY <2>3 DEF JobOK, Actors
  <2>6. /\ exec' \in [Payments -> [nonce : Nat, signed : 0..MaxSigns, broadcast : BOOLEAN,
                                   ext : {"pending", "filled", "failed"}]]
        /\ \A p \in Payments : exec'[p].broadcast => exec'[p].signed # 0
    BY <2>3 DEF RowsTyped
  <2>7. TypeOK'
    BY <2>1, <2>2, <2>3, <2>4, <2>5, <2>6 DEF TypeOK
  <2> QED
    BY <2>3, <2>7 DEF TypeInv
<1> QED
  BY <1>1, <1>2

\* It holds when nothing has happened yet.
LEMMA InitTypeInv == Init => TypeInv
<1> SUFFICES ASSUME Init
             PROVE  TypeInv
  OBVIOUS
<1>1. RowsTyped
  BY BoundsAssumption DEF Init, NoExec, RowsTyped, HasExec
<1>2. \A a \in Actors : JobOK(a)
  BY DEF Init, Idle, JobOK, ReconcilerPcs
<1>3. SweepOK
  BY ZenonT(40) DEF Init, SweepOK
<1>4. TypeOK
  <2>1. status \in [Payments -> Statuses] /\ signs \in [Payments -> 0..MaxSigns]
    BY BoundsAssumption DEF Init, Statuses
  <2>2. job \in [Actors -> Jobs \cup {Idle}]
    BY DEF Init
  <2>3. \A h \in Handlers : job[h].pc \notin ReconcilerPcs
    BY <1>2 DEF JobOK, Actors
  <2> QED
    BY <1>1, <2>1, <2>2, <2>3 DEF Init, TypeOK, RowsTyped
<1> QED
  BY <1>1, <1>2, <1>3, <1>4 DEF TypeInv

\* TypeInv is inductive.
LEMMA AlwaysTypeInv == Spec => []TypeInv
BY InitTypeInv, NextTypeInv, PTL DEF Spec

\* Rows, transactions and goroutines always have their types: no handler runs
\* reconciler code, and no row is marked broadcast before it is signed.
THEOREM TypeCorrect == Spec => []TypeOK
<1>1. TypeInv => TypeOK
  BY DEF TypeInv
<1> QED
  BY <1>1, AlwaysTypeInv, PTL

-----------------------------------------------------------------------------
\* However many workers race in TryCreateExecution, and whatever fails, nonces
\* are handed out without gap or repetition: next_nonce and the row are written
\* by one transaction, which UNIQUE (payment_id) rolls back for the loser.
THEOREM AlwaysNoncesDense == Spec => []NoncesDense
<1>1. Init => NoncesDense
  <2> SUFFICES ASSUME Init
               PROVE  NoncesDense
    OBVIOUS
  <2>1. \A p \in Payments : ~HasExec(p)
    BY DEF Init, NoExec, HasExec
  <2>2. nextNonce = 1
    BY ZenonT(40) DEF Init
  <2> QED
    BY <2>1, <2>2 DEF NoncesDense
<1>2. NoncesDense /\ TypeInv /\ [Next]_vars => NoncesDense'
  <2> SUFFICES ASSUME NoncesDense, TypeInv, [Next]_vars
               PROVE  NoncesDense'
    OBVIOUS
  <2>0. /\ nextNonce \in Nat \ {0}
        /\ \A p \in Payments : exec[p].nonce \in Nat
    BY DEF TypeInv, TypeOK
  <2>1. /\ \A p \in Payments : exec[p].nonce # 0 => exec[p].nonce \in 1..(nextNonce - 1)
        /\ \A n \in 1..(nextNonce - 1) : \E p \in Payments : exec[p].nonce # 0 /\ exec[p].nonce = n
        /\ \A p, q \in Payments : exec[p].nonce # 0 /\ exec[p].nonce = exec[q].nonce => p = q
    BY DEF NoncesDense, HasExec
  <2>2. SUFFICES
          /\ \A p \in Payments : exec'[p].nonce # 0 => exec'[p].nonce \in 1..(nextNonce' - 1)
          /\ \A n \in 1..(nextNonce' - 1) :
               \E p \in Payments : exec'[p].nonce # 0 /\ exec'[p].nonce = n
          /\ \A p, q \in Payments : exec'[p].nonce # 0 /\ exec'[p].nonce = exec'[q].nonce => p = q
    BY DEF NoncesDense, HasExec
  <2>3. CASE nextNonce' = nextNonce /\ \A p \in Payments : exec'[p].nonce = exec[p].nonce
    BY <2>1, <2>3
  <2>4. ASSUME NEW p \in Payments, exec[p].nonce = 0, exec'[p].nonce = nextNonce,
               nextNonce' = nextNonce + 1,
               \A q \in Payments \ {p} : exec'[q].nonce = exec[q].nonce
        PROVE  /\ \A q \in Payments : exec'[q].nonce # 0 => exec'[q].nonce \in 1..(nextNonce' - 1)
               /\ \A n \in 1..(nextNonce' - 1) :
                    \E q \in Payments : exec'[q].nonce # 0 /\ exec'[q].nonce = n
               /\ \A q, r \in Payments : exec'[q].nonce # 0 /\ exec'[q].nonce = exec'[r].nonce => q = r
    <3>1. \A q \in Payments : exec'[q].nonce # 0 => exec'[q].nonce \in 1..(nextNonce' - 1)
      BY <2>0, <2>1, <2>4
    <3>2. ASSUME NEW n \in 1..(nextNonce' - 1)
          PROVE  \E q \in Payments : exec'[q].nonce # 0 /\ exec'[q].nonce = n
      <4>1. CASE n = nextNonce
        BY <2>0, <2>4, <4>1
      <4>2. CASE n \in 1..(nextNonce - 1)
        <5>1. PICK q \in Payments : exec[q].nonce # 0 /\ exec[q].nonce = n
          BY <2>1, <4>2
        <5>2. q # p
          BY <2>4, <5>1
        <5> QED
          BY <2>4, <5>1, <5>2
      <4> QED
        BY <2>0, <2>4, <3>2, <4>1, <4>2
    <3>3. ASSUME NEW q \in Payments, NEW r \in Payments,
                 exec'[q].nonce # 0, exec'[q].nonce = exec'[r].nonce
          PROVE  q = r
      <4>1. CASE q # p /\ r # p
        BY <2>1, <2>4, <3>3, <4>1
      <4>2. \A s \in Payments : exec[s].nonce # nextNonce
        BY <2>0, <2>1
      <4> QED
        BY <2>4, <3>3, <4>1, <4>2
    <3> QED
      BY <3>1, <3>2, <3>3
  <2>5. CASE UNCHANGED vars
    BY <2>1, <2>5, ZenonT(40) DEF vars, dbVars
  <2>6. CASE Next
    BY <2>3, <2>4, <2>6, ExecEffect
  <2> QED
    BY <2>5, <2>6
<1> QED
  BY <1>1, <1>2, AlwaysTypeInv, PTL DEF Spec

-----------------------------------------------------------------------------
\* Whatever executors, sweeps and crashes do, a testnet payment's status only
\* moves NONE, ROUTED, PROCESSING, SUBMITTED, terminal, or from PROCESSING to
\* FAILED: every UPDATE names the status it moves from.
THEOREM ImplementsLifecycle == Spec => RefinesLifecycle
<1>1. Init => Lifecycle!Init
  BY DEF Init, Lifecycle!Init
<1>2. TypeOK /\ [Next]_vars => [Lifecycle!Next]_status
  <2> SUFFICES ASSUME TypeOK, [Next]_vars
               PROVE  Lifecycle!Next \/ UNCHANGED status
    OBVIOUS
  <2>1. ASSUME NEW p \in Payments, NEW from, NEW to, status[p] = from,
               status' = [status EXCEPT ![p] = to],
               <<from, to>> \in {<<"NONE", "ROUTED">>, <<"ROUTED", "PROCESSING">>,
                                 <<"PROCESSING", "FAILED">>, <<"PROCESSING", "SUBMITTED">>,
                                 <<"SUBMITTED", "COMPLETED">>, <<"SUBMITTED", "FAILED">>}
        PROVE  Lifecycle!Next
    <3>1. Lifecycle!Move(p, from, to)
      BY <2>1 DEF Lifecycle!Move
    <3>2. \/ Lifecycle!Create(p) \/ Lifecycle!Claim(p) \/ Lifecycle!RejectUnexecuted(p)
          \/ Lifecycle!Submit(p) \/ Lifecycle!Settle(p)
      BY <2>1, <3>1 DEF Lifecycle!Create, Lifecycle!Claim, Lifecycle!RejectUnexecuted,
                        Lifecycle!Submit, Lifecycle!Settle, Lifecycle!Terminal
    <3> QED
      BY <3>2 DEF Lifecycle!Next
  <2>2. CASE UNCHANGED vars
    BY <2>2 DEF vars, dbVars
  <2> QED
    BY <2>1, <2>2, StatusEffect
<1> QED
  BY <1>1, <1>2, TypeCorrect, PTL DEF Spec, RefinesLifecycle, Lifecycle!Spec

=============================================================================
