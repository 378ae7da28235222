-------------------------- MODULE TestnetChainProofs ---------------------------
(***************************************************************************)
(* Proofs about TestnetExecution: what the origin chain has seen of a      *)
(* payment and what the rows say of it.                                    *)
(*                                                                         *)
(* Most of it is about a single worker whose handlers give up before the   *)
(* reconciler takes their rows for abandoned: any number of payments,      *)
(* handlers, signings and faults, one reconciler.  The argument is one of  *)
(* ownership.  Until a payment's transaction is marked broadcast at most   *)
(* one goroutine works on the payment, so what it has read of the row is   *)
(* still true when it acts; from then on the row's signature is fixed and  *)
(* only the status and the outcome move.  That no payment is paid twice    *)
(* comes last and holds for any number of workers.                         *)
(***************************************************************************)
EXTENDS TestnetExecutionProofs

\* A leaf may wait for its turn: the limits are above the default ones.
USE SMTT(20), ZenonT(20)

\* The next number, and the signed versions of a transaction: facts of
\* arithmetic that the nonces and the version counters below need.
LEMMA Counting ==
  \A m, n \in Nat : /\ ~(n < n) /\ n < n + 1 /\ (m < n => m < n + 1)
                    /\ n + 1 \in Nat /\ 1 + (n + 1) = (1 + n) + 1
OBVIOUS

\* A recorded version that is not zero is the number of a signed transaction.
LEMMA SignedVersion == \A v \in 0..MaxSigns : v # 0 => v \in Versions
BY BoundsAssumption DEF Versions

\* The recorded versions, zero for none.
LEMMA VersionRange == 0 \in 0..MaxSigns /\ \A u \in Versions : u # 0
BY BoundsAssumption DEF Versions

\* A goroutine that works on no payment.
LEMMA IdlePc == Idle.pc = "idle"
BY DEF Idle

\* What a sweep holds is read back.
LEMMA SweepFields ==
  ASSUME NEW s, NEW a, NEW b, s = [phase |-> a, ids |-> b]
  PROVE  s.phase = a /\ s.ids = b
OBVIOUS

\* A row that InsertExecution has not written.
LEMMA NoExecFields == NoExec.nonce = 0 /\ NoExec.signed = 0 /\ NoExec.broadcast = FALSE
BY DEF NoExec

\* The deployment: cmd/worker starts one reconciler, and
\* TESTNET_HANDLE_TIMEOUT is below RECONCILE_STALENESS.
OneWorker == HandlersTimeOut /\ \A r, s \in Reconcilers : r = s

\* Where a goroutine's payment is not yet marked broadcast.
PrePcs == {"start", "rejecting", "checked", "resume", "unsigned", "signed", "sent"}

\* What the rows, the status and the chain agree on, for one payment: the
\* network knows the recorded transaction only; a payment is SUBMITTED or
\* COMPLETED only once it is broadcast; it fails unsigned only for a reason
\* that persists, and signed only when the chain says so.
RowInv(p) ==
  /\ HasExec(p) => status[p] \notin {"NONE", "ROUTED"}
  /\ exec[p].signed # 0 /\ ~exec[p].broadcast => status[p] = "PROCESSING"
  /\ ~exec[p].broadcast => status[p] \notin {"SUBMITTED", "COMPLETED"}
  /\ status[p] = "FAILED" /\ HasExec(p) /\ exec[p].signed = 0 => MustReject(p)
  /\ exec[p].broadcast /\ exec[p].ext = "pending" => status[p] \in {"PROCESSING", "SUBMITTED"}
  /\ \A v \in Versions : net[p][v] # "unknown" => exec[p].signed = v
  /\ status[p] = "COMPLETED" => net[p][exec[p].signed] = "filled"
  /\ status[p] = "FAILED" /\ exec[p].signed # 0 =>
       net[p][exec[p].signed] \in {"reverted", "refunded"}

\* What a goroutine at pc, with version v in memory and outcome res, may rely
\* on about its payment p.
Relies(pc, p, v, res) ==
  /\ pc # "idle" => status[p] \notin {"NONE", "ROUTED"}
  /\ pc \in {"start", "checked"} => status[p] = "PROCESSING" /\ ~HasExec(p)
  /\ pc = "rejecting" => exec[p].signed = 0 /\ (HasExec(p) => MustReject(p))
  /\ pc \in {"resume", "unsigned"} => HasExec(p) /\ exec[p].signed = 0
  /\ pc = "unsigned" => status[p] = "PROCESSING"
  /\ pc \in {"signed", "sent"} => exec[p].signed = v /\ v # 0 /\ ~exec[p].broadcast
  /\ pc \notin PrePcs \cup {"idle"} => exec[p].broadcast
  /\ pc \in {"repair", "observe", "record", "settle"} => exec[p].signed = v
  /\ pc \in {"repair", "observe", "record"} => exec[p].ext = "pending"
  /\ pc \in {"observe", "record", "settle"} => status[p] = "SUBMITTED"
  /\ pc \in {"record", "settle"} => res # "pending" /\ Outcome(p, v) = res
  /\ pc = "settle" => exec[p].ext # "pending"

JobInv(a) == Relies(job[a].pc, job[a].pay, job[a].ver, job[a].res)

\* Until its payment is marked broadcast, a goroutine has it to itself.
Exclusive ==
  \A a, b \in Actors :
    a # b /\ job[a].pc \in PrePcs /\ job[b].pc # "idle" => job[a].pay # job[b].pay

\* The rows a sweep has still to visit are nobody's, and as the query saw them.
SweepInv(r) ==
  /\ sweep[r].phase = "rest" => sweep[r].ids = {}
  /\ \A p \in sweep[r].ids :
       /\ \A a \in Actors : job[a].pc # "idle" => job[a].pay # p
       /\ sweep[r].phase = "recover" => status[p] = "PROCESSING" /\ ~HasExec(p)

\* The inductive invariant.
WorkerInv ==
  /\ OneWorker
  /\ TypeInv
  /\ \A p \in Payments : RowInv(p)
  /\ \A a \in Actors : JobInv(a)
  /\ Exclusive
  /\ \A r \in Reconcilers : SweepInv(r)

-----------------------------------------------------------------------------
\* A step leaves what is known of payment q as it was; its quote may expire.
SameRow(q) ==
  /\ status'[q] = status[q] /\ exec'[q] = exec[q] /\ net'[q] = net[q]
  /\ q \in expired => q \in expired'

\* A payment a step does not touch keeps its invariant.
LEMMA RowFrame ==
  ASSUME NEW q \in Payments, RowInv(q), SameRow(q)
  PROVE  RowInv(q)'
BY ZenonT(40) DEF RowInv, SameRow, HasExec, MustReject, Versions

\* So does a goroutine that does not move, on such a payment.
LEMMA JobFrame ==
  ASSUME NEW b \in Actors, JobInv(b), job'[b] = job[b], SameRow(job[b].pay)
  PROVE  JobInv(b)'
<1>1. PICK j : j = job[b]
  OBVIOUS
<1>2. Relies(j.pc, j.pay, j.ver, j.res) /\ SameRow(j.pay) /\ job'[b] = j
  BY <1>1, ZenonT(40) DEF JobInv
<1>3. Outcome(j.pay, j.ver)' = Outcome(j.pay, j.ver)
  BY <1>2, ZenonT(40) DEF SameRow, Outcome
<1>4. Relies(j.pc, j.pay, j.ver, j.res)'
  BY <1>2, <1>3, ZenonT(40) DEF Relies, SameRow, HasExec, MustReject
<1> QED
  BY <1>2, <1>4, ZenonT(40) DEF JobInv, Relies

\* An idle goroutine relies on nothing.
LEMMA IdleJob ==
  ASSUME NEW b \in Actors, job'[b].pc = "idle"
  PROVE  JobInv(b)'
BY DEF JobInv, Relies, PrePcs

\* No sweep has the payment of a goroutine still to visit.
LEMMA NotSwept ==
  ASSUME WorkerInv, NEW a \in Actors, job[a].pc # "idle", NEW r \in Reconcilers
  PROVE  job[a].pay \notin sweep[r].ids
BY DEF WorkerInv, SweepInv

\* What a goroutine on a payment not yet marked broadcast knows of the row.
LEMMA PreRow ==
  ASSUME WorkerInv, NEW a \in Actors, job[a].pc \in PrePcs
  PROVE  ~exec[job[a].pay].broadcast
<1>1. JobInv(a) /\ job[a].pay \in Payments /\ TypeInv
  BY ActiveJob DEF WorkerInv, TypeInv, PrePcs
<1>2. PICK p \in Payments : p = job[a].pay
  BY <1>1
<1>3. CASE job[a].pc \in {"signed", "sent"}
  BY <1>1, <1>3, ZenonT(40) DEF JobInv, Relies
<1>4. CASE job[a].pc \notin {"signed", "sent"}
  <2>1. exec[p].signed = 0 \/ ~HasExec(p)
    BY <1>1, <1>2, <1>4, ZenonT(40) DEF JobInv, Relies, PrePcs
  <2>2. exec[p].signed = 0
    BY <1>1, <2>1 DEF TypeInv, RowsTyped
  <2> QED
    BY <1>1, <1>2, <2>2 DEF TypeInv, RowsTyped
<1> QED
  BY <1>3, <1>4

-----------------------------------------------------------------------------
\* Goroutine a takes a step on its payment p, and on no other, and goes idle or
\* on with p; once it is past the broadcast it does not go back.
OwnStep(a, p) ==
  /\ job[a].pc # "idle" /\ job[a].pay = p
  /\ OnlyMoves(a) /\ UNCHANGED sweep
  /\ \A q \in Payments \ {p} : SameRow(q)
  /\ \/ job'[a].pc = "idle"
     \/ job'[a].pay = p /\ (job'[a].pc \in PrePcs => job[a].pc \in PrePcs)

\* Another goroutine that is at work on payment p.
Companion(b, a, p) == b \in Actors \ {a} /\ job[b].pc # "idle" /\ job[b].pay = p

\* A goroutine's step preserves the invariant when it does so for its payment,
\* for itself and for the goroutines that share the payment.
LEMMA OwnPreserves ==
  ASSUME WorkerInv, TypeInv', NEW a \in Actors, NEW p \in Payments, OwnStep(a, p),
         RowInv(p)', JobInv(a)',
         \A b \in Actors : Companion(b, a, p) => JobInv(b)'
  PROVE  WorkerInv'
<1>1. OneWorker'
  BY DEF WorkerInv, OneWorker
<1>2. \A q \in Payments : RowInv(q)'
  BY RowFrame DEF OwnStep, WorkerInv
<1>3. ASSUME NEW b \in Actors \ {a}
      PROVE  JobInv(b)'
  <2>1. job'[b] = job[b] /\ JobInv(b)
    BY DEF OwnStep, OnlyMoves, WorkerInv
  <2>2. CASE job[b].pc = "idle"
    BY <2>1, <2>2, IdleJob
  <2>3. CASE job[b].pc # "idle" /\ job[b].pay = p
    BY <2>3 DEF Companion
  <2>4. CASE job[b].pc # "idle" /\ job[b].pay # p
    <3>1. job[b].pay \in Payments
      BY <2>4, ActiveJob DEF WorkerInv, TypeInv
    <3> QED
      BY <2>1, <2>4, <3>1, JobFrame DEF OwnStep
  <2> QED
    BY <2>2, <2>3, <2>4
<1>4. Exclusive'
  <2> SUFFICES ASSUME NEW b \in Actors, NEW c \in Actors, b # c,
                      job'[b].pc \in PrePcs, job'[c].pc # "idle"
               PROVE  job'[b].pay # job'[c].pay
    BY DEF Exclusive
  <2>0. \A d \in Actors \ {a} : job'[d] = job[d]
    BY DEF OwnStep, OnlyMoves
  <2>1. job[b].pc \in PrePcs /\ job[b].pay = job'[b].pay
    BY <2>0 DEF OwnStep, PrePcs
  <2>2. job[c].pc # "idle" /\ job[c].pay = job'[c].pay
    BY <2>0 DEF OwnStep
  <2> QED
    BY <2>1, <2>2 DEF WorkerInv, Exclusive
<1>5. ASSUME NEW r \in Reconcilers
      PROVE  SweepInv(r)'
  <2>1. SweepInv(r) /\ sweep' = sweep
    BY DEF WorkerInv, OwnStep
  <2>2. sweep[r].ids \subseteq Payments
    BY DEF WorkerInv, TypeInv, TypeOK
  <2>3. p \notin sweep[r].ids
    BY NotSwept DEF OwnStep
  <2>4. ASSUME NEW q \in sweep[r].ids
        PROVE  /\ \A b \in Actors : job'[b].pc # "idle" => job'[b].pay # q
               /\ sweep[r].phase = "recover" => status'[q] = "PROCESSING" /\ exec'[q].nonce = 0
    <3>1. q \in Payments /\ q # p
      BY <2>2, <2>3
    <3>2. SameRow(q)
      BY <3>1, ZenonT(40) DEF OwnStep
    <3>3. \A b \in Actors : job'[b].pc # "idle" => job'[b].pay # q
      BY <2>1, <3>1 DEF OwnStep, OnlyMoves, SweepInv
    <3> QED
      BY <2>1, <3>2, <3>3 DEF SameRow, SweepInv, HasExec
  <2> QED
    BY <2>1, <2>4 DEF SweepInv, HasExec
<1> QED
  BY <1>1, <1>2, <1>3, <1>4, <1>5 DEF WorkerInv

\* Nobody shares a payment that is not yet marked broadcast.
LEMMA NoCompanion ==
  ASSUME WorkerInv, NEW a \in Actors, job[a].pc \in PrePcs
  PROVE  \A b \in Actors : ~Companion(b, a, job[a].pay)
BY DEF WorkerInv, Exclusive, Companion

\* After that, the others have marked or are observing the payment; only one
\* of the goroutines on it is a reconciler.
LEMMA Companions ==
  ASSUME WorkerInv, NEW a \in Actors, job[a].pc # "idle", NEW b \in Actors,
         Companion(b, a, job[a].pay)
  PROVE  /\ job[b].pc = "marked" \/ (job[b].pc \in {"repair", "observe", "record", "settle"}
                                     /\ job[a].pc = "marked")
         /\ exec[job[a].pay].broadcast
<1>1. job[a].pc \notin PrePcs /\ job[b].pc \notin PrePcs /\ job[b].pc # "idle" /\ a # b
  BY DEF WorkerInv, Exclusive, Companion
<1>2. job[a] \in Jobs /\ job[b] \in Jobs
  BY <1>1, ActiveJob DEF WorkerInv, TypeInv
<1>3. /\ job[a].pc \in {"marked", "repair", "observe", "record", "settle"}
      /\ job[b].pc \in {"marked", "repair", "observe", "record", "settle"}
  BY <1>1, <1>2 DEF Jobs, PrePcs, ExecutorPcs, ReconcilerPcs
<1>4. a \in Handlers \/ b \in Handlers
  BY <1>1 DEF WorkerInv, OneWorker, Actors
<1>5. /\ a \in Handlers => job[a].pc \notin ReconcilerPcs
      /\ b \in Handlers => job[b].pc \notin ReconcilerPcs
  BY ZenonT(40) DEF WorkerInv, TypeInv, TypeOK
<1>6. exec[job[a].pay].broadcast
  BY <1>1, ZenonT(40) DEF WorkerInv, JobInv, Relies
<1> QED
  BY <1>3, <1>4, <1>5, <1>6 DEF ReconcilerPcs

-----------------------------------------------------------------------------
\* Only the row of payment p changes.
OnlyRow(p) == \A q \in Payments \ {p} : SameRow(q)

\* A conditional UPDATE of the status touches one payment.
LEMMA TransitionRow ==
  ASSUME TypeInv, NEW p \in Payments, NEW from, NEW to, Transition(p, from, to),
         UNCHANGED <<net, expired>>
  PROVE  /\ OnlyRow(p)
         /\ status'[p] = IF status[p] = from THEN to ELSE status[p]
         /\ exec' = exec
BY ZenonT(40) DEF Transition, OnlyRow, SameRow, TypeInv, TypeOK

\* An UPDATE of the execution row touches one field of one row.
LEMMA ExecRow ==
  ASSUME TypeInv, NEW p \in Payments, NEW v, NEW ext, UNCHANGED <<net, expired>>
  PROVE  /\ PersistSignedExecution(p, v) =>
              /\ OnlyRow(p) /\ status' = status
              /\ exec'[p].signed = v /\ exec'[p].nonce = exec[p].nonce
              /\ exec'[p].broadcast = exec[p].broadcast /\ exec'[p].ext = exec[p].ext
         /\ MarkExecutionBroadcast(p) =>
              /\ OnlyRow(p) /\ status' = status
              /\ exec'[p].signed = exec[p].signed /\ exec'[p].nonce = exec[p].nonce
              /\ exec'[p].broadcast /\ exec'[p].ext = exec[p].ext
         /\ UpdateExecutionExternalStatus(p, ext) =>
              /\ OnlyRow(p) /\ status' = status
              /\ exec'[p].signed = exec[p].signed /\ exec'[p].nonce = exec[p].nonce
              /\ exec'[p].broadcast = exec[p].broadcast /\ exec'[p].ext = ext
<1>1. ASSUME PersistSignedExecution(p, v)
      PROVE  /\ OnlyRow(p) /\ status' = status
             /\ exec'[p].signed = v /\ exec'[p].nonce = exec[p].nonce
             /\ exec'[p].broadcast = exec[p].broadcast /\ exec'[p].ext = exec[p].ext
  BY <1>1 DEF PersistSignedExecution, OnlyRow, SameRow, TypeInv, TypeOK
<1>2. ASSUME MarkExecutionBroadcast(p)
      PROVE  /\ OnlyRow(p) /\ status' = status
             /\ exec'[p].signed = exec[p].signed /\ exec'[p].nonce = exec[p].nonce
             /\ exec'[p].broadcast /\ exec'[p].ext = exec[p].ext
  BY <1>2 DEF MarkExecutionBroadcast, OnlyRow, SameRow, TypeInv, TypeOK
<1>3. ASSUME UpdateExecutionExternalStatus(p, ext)
      PROVE  /\ OnlyRow(p) /\ status' = status
             /\ exec'[p].signed = exec[p].signed /\ exec'[p].nonce = exec[p].nonce
             /\ exec'[p].broadcast = exec[p].broadcast /\ exec'[p].ext = ext
  BY <1>3 DEF UpdateExecutionExternalStatus, OnlyRow, SameRow, TypeInv, TypeOK
<1> QED
  BY <1>1, <1>2, <1>3

\* A new execution row is unsigned.
LEMMA CreateRow ==
  ASSUME TypeInv, NEW p \in Payments, ~HasExec(p), TryCreateExecution(p),
         UNCHANGED <<net, expired>>
  PROVE  /\ OnlyRow(p) /\ status' = status
         /\ exec'[p].nonce # 0 /\ exec'[p].signed = 0 /\ ~exec'[p].broadcast
BY DEF TryCreateExecution, NoExec, OnlyRow, SameRow, TypeInv, TypeOK

\* A statement of the executor before the payment is marked broadcast.
LEMMA PreStatement ==
  ASSUME WorkerInv, NEW a \in Actors, job[a].pc \in PrePcs, Statement(a), UNCHANGED <<net, expired>>,
         NEW p \in Payments, p = job[a].pay
  PROVE  OnlyRow(p) /\ RowInv(p)'
<1>1. TypeInv /\ JobInv(a) /\ RowInv(p)
  BY DEF WorkerInv
<1>2. ~exec[p].broadcast /\ exec[p].signed \in 0..MaxSigns /\ MaxSigns \in Nat
      /\ signs[p] \in 0..MaxSigns /\ exec[p].nonce \in Nat /\ status[p] \in Statuses
  BY <1>1, PreRow, BoundsAssumption, ZenonT(40) DEF TypeInv, TypeOK
<1>3. CASE job[a].pc = "rejecting"
  <2>1. exec[p].signed = 0 /\ (HasExec(p) => MustReject(p)) /\ status[p] \notin {"NONE", "ROUTED"}
    BY <1>1, <1>3, ZenonT(40) DEF JobInv, Relies
  <2>2. /\ OnlyRow(p) /\ exec' = exec
        /\ status'[p] = IF status[p] = "PROCESSING" THEN "FAILED" ELSE status[p]
    BY <1>1, <1>3, TransitionRow, ZenonT(40) DEF Statement, MarkProcessingFailed
  <2> QED
    BY <1>1, <1>2, <2>1, <2>2, ZenonT(40) DEF RowInv, HasExec, MustReject, Versions
<1>4. CASE job[a].pc = "checked"
  <2>1. status[p] = "PROCESSING" /\ ~HasExec(p)
    BY <1>1, <1>4, ZenonT(40) DEF JobInv, Relies
  <2>2. exec[p].signed = 0
    BY <1>1, <2>1, ZenonT(40) DEF TypeInv, RowsTyped
  <2>3. /\ OnlyRow(p) /\ status' = status
        /\ exec'[p].nonce # 0 /\ exec'[p].signed = 0 /\ ~exec'[p].broadcast
    BY <1>1, <1>4, <2>1, CreateRow, ZenonT(40) DEF Statement
  <2> QED
    BY <1>1, <2>1, <2>2, <2>3, ZenonT(40) DEF RowInv, HasExec, Versions
<1>5. CASE job[a].pc = "unsigned"
  <2>1. status[p] = "PROCESSING" /\ HasExec(p) /\ exec[p].signed = 0
    BY <1>1, <1>5, ZenonT(40) DEF JobInv, Relies
  <2>2. PICK v : v = signs[p] + 1
    BY ZenonT(40)
  <2>3. PersistSignedExecution(p, v)
    BY <1>1, <1>5, <2>2, ZenonT(40) DEF Statement
  <2>4. /\ OnlyRow(p) /\ status' = status
        /\ exec'[p].signed = v /\ exec'[p].nonce = exec[p].nonce
        /\ exec'[p].broadcast = exec[p].broadcast
    BY <1>1, <2>3, ExecRow, ZenonT(40)
  <2>5. \A u \in Versions : net[p][u] = "unknown"
    <3>1. \A u \in Versions : net[p][u] # "unknown" => exec[p].signed = u
      BY <1>1, <1>2, ZenonT(40) DEF RowInv
    <3>2. \A u \in Versions : u # 0
      BY VersionRange, ZenonT(40)
    <3> QED
      BY <2>1, <3>1, <3>2, ZenonT(40)
  <2> QED
    BY <1>2, <2>1, <2>4, <2>5, ZenonT(40) DEF RowInv, HasExec
<1>6. CASE job[a].pc = "sent"
  <2>1. exec[p].signed # 0
    BY <1>1, <1>6, ZenonT(40) DEF JobInv, Relies
  <2>2. status[p] = "PROCESSING"
    BY <1>1, <1>2, <2>1, ZenonT(40) DEF RowInv
  <2>3. /\ OnlyRow(p) /\ status' = status
        /\ exec'[p].signed = exec[p].signed /\ exec'[p].nonce = exec[p].nonce
    BY <1>1, <1>6, ExecRow, ZenonT(40) DEF Statement
  <2> QED
    BY <1>1, <2>2, <2>3, ZenonT(40) DEF RowInv, HasExec
<1> QED
  BY <1>3, <1>4, <1>5, <1>6 DEF Statement, PrePcs

\* A statement after it: MarkSubmitted, or the recording of the outcome.
LEMMA PostStatement ==
  ASSUME WorkerInv, NEW a \in Actors, job[a].pc \notin PrePcs, Statement(a),
         UNCHANGED <<net, expired>>, NEW p \in Payments, p = job[a].pay
  PROVE  /\ OnlyRow(p) /\ RowInv(p)'
         /\ status'[p] \notin {"NONE", "ROUTED"} /\ exec'[p].broadcast
         /\ job[a].pc = "marked" => exec' = exec /\ (status[p] = "SUBMITTED" => status'[p] = "SUBMITTED")
<1>1. TypeInv /\ JobInv(a) /\ RowInv(p)
  BY ZenonT(40) DEF WorkerInv
<1>2. /\ job[a].pc \in {"marked", "repair", "record", "settle"}
      /\ exec[p].broadcast /\ status[p] \notin {"NONE", "ROUTED"}
  <2>1. job[a].pc \in {"marked", "repair", "record", "settle"}
    BY ZenonT(40) DEF Statement, PrePcs
  <2> QED
    BY <1>1, <2>1, ZenonT(40) DEF JobInv, Relies, PrePcs
<1>3. exec[p].signed # 0 /\ exec[p].signed \in Versions
  BY <1>1, <1>2, BoundsAssumption DEF TypeInv, TypeOK, RowsTyped, Versions
<1>4. CASE job[a].pc \in {"marked", "repair"}
  <2>1. /\ OnlyRow(p) /\ exec' = exec
        /\ status'[p] = IF status[p] = "PROCESSING" THEN "SUBMITTED" ELSE status[p]
    BY <1>1, <1>4, TransitionRow, ZenonT(40) DEF Statement, MarkSubmitted
  <2> QED
    BY <1>1, <1>2, <1>3, <2>1, ZenonT(40) DEF RowInv, HasExec, MustReject
<1>5. CASE job[a].pc = "record"
  <2>1. status[p] = "SUBMITTED"
    BY <1>1, <1>5, ZenonT(40) DEF JobInv, Relies
  <2>2. PICK ext : ext = job[a].res
    BY ZenonT(40)
  <2>3. UpdateExecutionExternalStatus(p, ext)
    BY <1>5, <2>2, ZenonT(40) DEF Statement
  <2>4. /\ OnlyRow(p) /\ status' = status
        /\ exec'[p].signed = exec[p].signed /\ exec'[p].nonce = exec[p].nonce
        /\ exec'[p].broadcast = exec[p].broadcast /\ exec'[p].ext = ext
    BY <1>1, <2>3, ExecRow, ZenonT(40)
  <2> QED
    BY <1>1, <1>2, <1>5, <2>1, <2>4, ZenonT(40) DEF RowInv, HasExec
<1>6. CASE job[a].pc = "settle"
  <2>1. /\ status[p] = "SUBMITTED" /\ exec[p].ext # "pending" /\ exec[p].signed = job[a].ver
        /\ job[a].res # "pending" /\ Outcome(p, job[a].ver) = job[a].res
    BY <1>1, <1>6, ZenonT(40) DEF JobInv, Relies
  <2>2. PICK to : to = IF job[a].res = "filled" THEN "COMPLETED" ELSE "FAILED"
    BY ZenonT(40)
  <2>3. OnlyRow(p) /\ exec' = exec /\ status'[p] = to
    BY <1>1, <1>6, <2>1, <2>2, TransitionRow, ZenonT(40) DEF Statement, CompleteSubmittedPayment
  <2>4. /\ to = "COMPLETED" => net[p][exec[p].signed] = "filled"
        /\ to = "FAILED" => net[p][exec[p].signed] \in {"reverted", "refunded"}
        /\ to \in {"COMPLETED", "FAILED"}
    BY <2>1, <2>2, ZenonT(40) DEF Outcome
  <2> QED
    BY <1>1, <1>2, <1>3, <1>6, <2>1, <2>3, <2>4, ZenonT(40) DEF RowInv, HasExec
<1> QED
  BY <1>2, <1>4, <1>5, <1>6, ZenonT(40)

-----------------------------------------------------------------------------
\* Goroutine a goes idle or on with its payment, and no other one moves.
MovesOn(a) ==
  /\ job[a].pc # "idle" /\ OnlyMoves(a) /\ UNCHANGED sweep
  /\ \/ job'[a].pc = "idle"
     \/ job'[a].pay = job[a].pay /\ (job'[a].pc \in PrePcs => job[a].pc \in PrePcs)

\* A statement leaves the goroutines that share the payment what they rely on.
LEMMA StatementCompanions ==
  ASSUME WorkerInv, NEW a \in Actors, job[a].pc \notin PrePcs, Statement(a), OnlyMoves(a),
         UNCHANGED <<net, expired>>, NEW p \in Payments, p = job[a].pay,
         NEW b \in Actors, Companion(b, a, p)
  PROVE  JobInv(b)'
<1>1. job'[b] = job[b] /\ job[b].pay = p /\ JobInv(b)
  BY ZenonT(40) DEF Companion, OnlyMoves, WorkerInv
<1>2. job[a].pc # "idle"
  BY ZenonT(40) DEF Statement
<1>3. /\ status'[p] \notin {"NONE", "ROUTED"} /\ exec'[p].broadcast
      /\ job[a].pc = "marked" => exec' = exec /\ (status[p] = "SUBMITTED" => status'[p] = "SUBMITTED")
  BY PostStatement, ZenonT(40)
<1>4. CASE job[b].pc = "marked"
  BY <1>1, <1>3, <1>4, ZenonT(40) DEF JobInv, Relies, PrePcs
<1>5. CASE job[b].pc \in {"repair", "observe", "record", "settle"} /\ job[a].pc = "marked"
  <2>1. Outcome(job[b].pay, job[b].ver)' = Outcome(job[b].pay, job[b].ver)
    BY <1>1 DEF Outcome
  <2> QED
    BY <1>1, <1>3, <1>5, <2>1, ZenonT(40) DEF JobInv, Relies, PrePcs
<1> QED
  BY <1>2, <1>4, <1>5, Companions, ZenonT(40)

\* A statement preserves the invariant if its goroutine may rely on what it
\* does next.
LEMMA StatementPreserves ==
  ASSUME WorkerInv, TypeInv', NEW a \in Actors, Statement(a), MovesOn(a), JobInv(a)',
         UNCHANGED <<net, expired>>
  PROVE  WorkerInv'
<1>1. job[a].pay \in Payments
  BY ActiveJob DEF MovesOn, WorkerInv, TypeInv
<1>2. PICK p \in Payments : p = job[a].pay
  BY <1>1
<1>3. OnlyMoves(a)
  BY DEF MovesOn
<1>4. OnlyRow(p) /\ RowInv(p)'
  BY <1>2, PreStatement, PostStatement
<1>5. OwnStep(a, p)
  BY <1>2, <1>4, ZenonT(40) DEF MovesOn, OwnStep, OnlyRow
<1>6. ASSUME NEW b \in Actors, Companion(b, a, p)
      PROVE  JobInv(b)'
  <2>1. job[a].pc \notin PrePcs
    BY <1>2, <1>6, NoCompanion
  <2> QED
    BY <1>2, <1>3, <1>6, <2>1, StatementCompanions
<1> QED
  BY <1>4, <1>5, <1>6, OwnPreserves

\* So does a step that changes no row and sends nothing.
LEMMA QuietPreserves ==
  ASSUME WorkerInv, TypeInv', NEW a \in Actors, MovesOn(a), JobInv(a)',
         UNCHANGED <<status, exec, net, expired>>
  PROVE  WorkerInv'
<1>1. job[a].pay \in Payments
  BY ActiveJob DEF MovesOn, WorkerInv, TypeInv
<1>2. PICK p \in Payments : p = job[a].pay
  BY <1>1
<1>3. \A q \in Payments : SameRow(q)
  BY DEF SameRow
<1>4. RowInv(p)'
  BY <1>3, RowFrame DEF WorkerInv
<1>5. OwnStep(a, p)
  BY <1>2, <1>3 DEF MovesOn, OwnStep
<1>6. ASSUME NEW b \in Actors, Companion(b, a, p)
      PROVE  JobInv(b)'
  BY <1>3, <1>6, JobFrame, ZenonT(40) DEF Companion, MovesOn, OnlyMoves, WorkerInv
<1> QED
  BY <1>4, <1>5, <1>6, OwnPreserves

\* So does the sending of the recorded transaction.
LEMMA SendPreserves ==
  ASSUME WorkerInv, TypeInv', NEW a \in Actors, job[a].pc = "signed", MovesOn(a), JobInv(a)',
         Accept(job[a].pay, job[a].ver), UNCHANGED <<status, exec, expired>>
  PROVE  WorkerInv'
<1>1. job[a].pay \in Payments
  BY ActiveJob, ZenonT(40) DEF MovesOn, WorkerInv, TypeInv
<1>2. PICK p \in Payments : p = job[a].pay
  BY <1>1
<1>3. PICK v : v = job[a].ver
  BY ZenonT(40)
<1>4. /\ net' = [net EXCEPT ![p] = [u \in Versions |->
              IF u = v THEN "pool" ELSE IF net[p][u] = "pool" THEN "unknown" ELSE net[p][u]]]
      /\ net \in [Payments -> [Versions -> {"unknown", "pool"} \cup OnChain]]
  <2>1. net \in [Payments -> [Versions -> {"unknown", "pool"} \cup OnChain]]
    BY ZenonT(40) DEF WorkerInv, TypeInv, TypeOK
  <2>2. net' = [net EXCEPT ![p] = [u \in Versions |->
              IF u = v THEN "pool" ELSE IF net[p][u] = "pool" THEN "unknown" ELSE net[p][u]]]
    BY <1>2, <1>3, ZenonT(40) DEF Accept
  <2> QED
    BY <2>1, <2>2, ZenonT(40)
<1>5. \A q \in Payments \ {p} : SameRow(q)
  BY <1>4, ZenonT(40) DEF SameRow
<1>6. \A u \in Versions : net'[p][u] # "unknown" => u = v \/ net[p][u] # "unknown"
  BY <1>4, ZenonT(40)
<1>7. exec[p].signed = v /\ v # 0 /\ ~exec[p].broadcast /\ RowInv(p)
  BY <1>2, <1>3, ZenonT(40) DEF WorkerInv, JobInv, Relies
<1>8. status[p] = "PROCESSING"
  BY <1>7, ZenonT(40) DEF RowInv
<1>9. RowInv(p)'
  BY <1>6, <1>7, <1>8, ZenonT(40) DEF RowInv, HasExec
<1>10. OwnStep(a, p)
  BY <1>2, <1>5, ZenonT(40) DEF MovesOn, OwnStep
<1>11. \A b \in Actors : ~Companion(b, a, p)
  BY <1>2, NoCompanion, ZenonT(40) DEF PrePcs
<1> QED
  BY <1>9, <1>10, <1>11, OwnPreserves, ZenonT(40)

-----------------------------------------------------------------------------
\* A goroutine that is done.
LEMMA DoneMoves ==
  ASSUME WorkerInv, NEW a \in Actors, job[a].pc # "idle", Done(a), UNCHANGED sweep
  PROVE  MovesOn(a) /\ JobInv(a)'
<1>1. OnlyMoves(a)
  BY DoneJob, ZenonT(40) DEF WorkerInv
<1>2. job'[a].pc = "idle"
  BY DEF Done, Idle, WorkerInv, TypeInv, TypeOK
<1> QED
  BY <1>1, <1>2, IdleJob, ZenonT(40) DEF MovesOn

\* A goroutine that goes on keeps its payment, its version and its outcome.
LEMMA GotoMoves ==
  ASSUME WorkerInv, NEW a \in Actors, job[a].pc # "idle",
         NEW pc \in ExecutorPcs \cup ReconcilerPcs, Goto(a, pc), UNCHANGED sweep,
         pc \in PrePcs => job[a].pc \in PrePcs
  PROVE  /\ MovesOn(a)
         /\ job'[a].pc = pc /\ job'[a].pay = job[a].pay /\ job'[a].ver = job[a].ver
         /\ job'[a].res = job[a].res
<1>1. OnlyMoves(a) /\ job'[a].pc = pc /\ job'[a].pay = job[a].pay
  BY GotoJob DEF WorkerInv
<1>2. job[a] \in Jobs /\ job \in [Actors -> Jobs \cup {Idle}]
  BY ActiveJob DEF WorkerInv, TypeInv, TypeOK
<1>3. job'[a] = [job[a] EXCEPT !.pc = pc]
  BY <1>2 DEF Goto
<1>4. job'[a].ver = job[a].ver /\ job'[a].res = job[a].res
  BY <1>2, <1>3 DEF Jobs
<1> QED
  BY <1>1, <1>4 DEF MovesOn

\* The steps of the executor.
LEMMA ExecutorPreserves ==
  ASSUME WorkerInv, TypeInv', NEW a \in Actors, ExecutorStep(a)
  PROVE  WorkerInv'
<1>1. CASE PreflightReject(a)
  <2>1. job[a].pc = "start" /\ Goto(a, "rejecting") /\ UNCHANGED <<status, exec, net, expired, sweep>>
    BY <1>1 DEF PreflightReject, dbVars
  <2>2. /\ MovesOn(a) /\ job'[a].pc = "rejecting" /\ job'[a].pay = job[a].pay
    BY <2>1, GotoMoves, ZenonT(40) DEF ExecutorPcs, PrePcs
  <2>3. status[job[a].pay] = "PROCESSING" /\ ~HasExec(job[a].pay)
    BY <2>1, ZenonT(40) DEF WorkerInv, JobInv, Relies
  <2>4. exec[job[a].pay].signed = 0
    BY <2>1, <2>3, ActiveJob, ZenonT(40) DEF WorkerInv, TypeInv, RowsTyped
  <2>5. JobInv(a)'
    BY <2>1, <2>2, <2>3, <2>4, ZenonT(40) DEF JobInv, Relies, PrePcs, HasExec
  <2> QED
    BY <2>1, <2>2, <2>5, QuietPreserves
<1>2. CASE PreflightPass(a)
  <2>1. job[a].pc = "start" /\ Goto(a, "checked") /\ UNCHANGED <<status, exec, net, expired, sweep>>
    BY <1>2 DEF PreflightPass, dbVars
  <2>2. /\ MovesOn(a) /\ job'[a].pc = "checked" /\ job'[a].pay = job[a].pay
    BY <2>1, GotoMoves, ZenonT(40) DEF ExecutorPcs, PrePcs
  <2>3. status[job[a].pay] = "PROCESSING" /\ ~HasExec(job[a].pay)
    BY <2>1, ZenonT(40) DEF WorkerInv, JobInv, Relies
  <2>4. JobInv(a)'
    BY <2>1, <2>2, <2>3, ZenonT(40) DEF JobInv, Relies, PrePcs, HasExec
  <2> QED
    BY <2>1, <2>2, <2>4, QuietPreserves
<1>3. CASE Reject(a) \/ Submit(a)
  <2>1. Statement(a) /\ Done(a) /\ job[a].pc # "idle" /\ UNCHANGED <<net, expired, sweep>>
    BY <1>3, ZenonT(40) DEF Reject, Submit, Statement
  <2> QED
    BY <2>1, DoneMoves, StatementPreserves, ZenonT(40)
<1>4. CASE CreateExecution(a)
  <2>1. job[a].pc = "checked" /\ Statement(a) /\ UNCHANGED <<net, expired, sweep>>
    BY <1>4, ZenonT(40) DEF CreateExecution, Statement
  <2>2. status[job[a].pay] = "PROCESSING" /\ ~HasExec(job[a].pay) /\ job[a].pay \in Payments
    BY <2>1, ActiveJob, ZenonT(40) DEF WorkerInv, JobInv, Relies, TypeInv
  <2>3. Goto(a, "unsigned") /\ TryCreateExecution(job[a].pay)
    BY <1>4, <2>2, ZenonT(40) DEF CreateExecution
  <2>4. /\ MovesOn(a) /\ job'[a].pc = "unsigned" /\ job'[a].pay = job[a].pay
    BY <2>1, <2>3, GotoMoves DEF ExecutorPcs, PrePcs
  <2>5. /\ status' = status /\ exec'[job[a].pay].nonce # 0 /\ exec'[job[a].pay].signed = 0
    BY <2>1, <2>2, <2>3, CreateRow, ZenonT(40) DEF WorkerInv
  <2>6. JobInv(a)'
    BY <2>2, <2>4, <2>5, ZenonT(40) DEF JobInv, Relies, PrePcs, HasExec
  <2> QED
    BY <2>1, <2>4, <2>6, StatementPreserves, ZenonT(40)
<1>5. CASE SignAndPersist(a)
  <2>1. job[a].pc = "unsigned" /\ Statement(a) /\ UNCHANGED <<net, expired, sweep>>
    BY <1>5, ZenonT(40) DEF SignAndPersist, Statement
  <2>2. /\ status[job[a].pay] = "PROCESSING" /\ job[a].pay \in Payments /\ job[a] \in Jobs
        /\ exec[job[a].pay].signed = 0
    BY <2>1, ActiveJob, ZenonT(40) DEF WorkerInv, JobInv, Relies, TypeInv
  <2>3. PICK p \in Payments, v \in Nat : p = job[a].pay /\ v = signs[p] + 1
    BY <2>2 DEF WorkerInv, TypeInv, TypeOK
  <2>4. v # 0
    BY <2>3 DEF WorkerInv, TypeInv, TypeOK
  <2>5. PersistSignedExecution(p, v) /\ job' = [job EXCEPT ![a] = [job[a] EXCEPT !.pc = "signed", !.ver = v]]
    BY <1>5, <2>3, ZenonT(40) DEF SignAndPersist
  <2>6. job'[a] = [pc |-> "signed", pay |-> p, ver |-> v, res |-> job[a].res]
    BY <2>2, <2>3, <2>5, ZenonT(40) DEF Jobs, WorkerInv, TypeInv, TypeOK
  <2>7. \A b \in Actors \ {a} : job'[b] = job[b]
    BY <2>5, ZenonT(40) DEF WorkerInv, TypeInv, TypeOK
  <2>8. MovesOn(a)
    <3>1. job'[a].pay = job[a].pay
      BY <2>3, <2>6
    <3> QED
      BY <2>1, <2>7, <3>1, ZenonT(40) DEF MovesOn, OnlyMoves, PrePcs, TypeInv, TypeOK
  <2>9. status' = status /\ exec'[p].signed = v /\ exec'[p].broadcast = exec[p].broadcast
    BY <2>1, <2>5, ExecRow DEF WorkerInv
  <2>10. ~exec[p].broadcast
    BY <2>1, <2>3, PreRow, ZenonT(40) DEF PrePcs
  <2>11. JobInv(a)'
    <3>1. job'[a].pc = "signed" /\ job'[a].pay = p /\ job'[a].ver = v
      BY <2>6
    <3>2. status[p] \notin {"NONE", "ROUTED"}
      BY <2>2, <2>3, ZenonT(40)
    <3> QED
      BY <2>4, <2>9, <2>10, <3>1, <3>2, ZenonT(40) DEF JobInv, Relies, PrePcs
  <2> QED
    BY <2>1, <2>8, <2>11, StatementPreserves
<1>6. CASE AlreadyKnown(a) \/ SendTransaction(a)
  <2>1. /\ job[a].pc = "signed" /\ Goto(a, "sent") /\ UNCHANGED <<status, exec, expired, sweep>>
        /\ UNCHANGED net \/ Accept(job[a].pay, job[a].ver)
    BY <1>6, ZenonT(40) DEF AlreadyKnown, SendTransaction, dbVars
  <2>2. /\ MovesOn(a) /\ job'[a].pc = "sent" /\ job'[a].pay = job[a].pay
        /\ job'[a].ver = job[a].ver
    BY <2>1, GotoMoves, ZenonT(40) DEF ExecutorPcs, PrePcs
  <2>3. JobInv(a)'
    BY <2>1, <2>2, ZenonT(40) DEF WorkerInv, JobInv, Relies, PrePcs
  <2> QED
    BY <2>1, <2>2, <2>3, QuietPreserves, SendPreserves, ZenonT(40)
<1>7. CASE SendRefused(a)
  <2>1. job[a].pc # "idle" /\ Done(a) /\ UNCHANGED <<status, exec, net, expired, sweep>>
    BY <1>7, ZenonT(40) DEF SendRefused, dbVars
  <2> QED
    BY <2>1, DoneMoves, QuietPreserves, ZenonT(40)
<1>8. CASE RecordBroadcast(a)
  <2>1. job[a].pc = "sent" /\ Statement(a) /\ UNCHANGED <<net, expired, sweep>> /\ Goto(a, "marked")
        /\ MarkExecutionBroadcast(job[a].pay)
    BY <1>8, ZenonT(40) DEF RecordBroadcast, Statement
  <2>2. /\ MovesOn(a) /\ job'[a].pc = "marked" /\ job'[a].pay = job[a].pay
    BY <2>1, GotoMoves, ZenonT(40) DEF ExecutorPcs, PrePcs
  <2>3. status' = status /\ exec'[job[a].pay].broadcast
    BY <2>1, ExecRow, ActiveJob, ZenonT(40) DEF WorkerInv, TypeInv
  <2>4. JobInv(a)'
    BY <2>1, <2>2, <2>3, ZenonT(40) DEF WorkerInv, JobInv, Relies, PrePcs
  <2> QED
    BY <2>1, <2>2, <2>4, StatementPreserves, ZenonT(40)
<1> QED
  BY <1>1, <1>2, <1>3, <1>4, <1>5, <1>6, <1>7, <1>8 DEF ExecutorStep

\* The steps of checkAndUpdateOutcome and of the resume path.
LEMMA ReconcilerPreserves ==
  ASSUME WorkerInv, TypeInv', NEW r \in Reconcilers, ReconcilerStep(r)
  PROVE  WorkerInv'
<1>0. r \in Actors
  BY ZenonT(40) DEF Actors
<1>1. CASE ResumeReject(r)
  <2>1. /\ job[r].pc = "resume" /\ Goto(r, "rejecting") /\ MustReject(job[r].pay)
        /\ UNCHANGED <<status, exec, net, expired, sweep>>
    BY <1>1 DEF ResumeReject, dbVars
  <2>2. /\ MovesOn(r) /\ job'[r].pc = "rejecting" /\ job'[r].pay = job[r].pay
    BY <1>0, <2>1, GotoMoves DEF ExecutorPcs, PrePcs
  <2>3. JobInv(r)'
    BY <1>0, <2>1, <2>2, ZenonT(40) DEF WorkerInv, JobInv, Relies, PrePcs, MustReject
  <2> QED
    BY <1>0, <2>1, <2>2, <2>3, QuietPreserves, ZenonT(40)
<1>2. CASE ResumeLeave(r)
  <2>1. job[r].pc # "idle" /\ Done(r) /\ UNCHANGED <<status, exec, net, expired, sweep>>
    BY <1>2, ZenonT(40) DEF ResumeLeave, dbVars
  <2> QED
    BY <1>0, <2>1, DoneMoves, QuietPreserves
<1>3. CASE ResumePass(r)
  <2>1. /\ job[r].pc = "resume" /\ Goto(r, "unsigned") /\ ~MustReject(job[r].pay)
        /\ UNCHANGED <<status, exec, net, expired, sweep>>
    BY <1>3 DEF ResumePass, dbVars
  <2>2. /\ MovesOn(r) /\ job'[r].pc = "unsigned" /\ job'[r].pay = job[r].pay
    BY <1>0, <2>1, GotoMoves, ZenonT(40) DEF ExecutorPcs, PrePcs
  <2>3. /\ HasExec(job[r].pay) /\ exec[job[r].pay].signed = 0 /\ ~exec[job[r].pay].broadcast
        /\ job[r].pay \in Payments
    BY <1>0, <2>1, PreRow, ActiveJob, ZenonT(40) DEF WorkerInv, JobInv, Relies, PrePcs, TypeInv
  <2>4. status[job[r].pay] = "PROCESSING"
    <3>1. RowInv(job[r].pay) /\ status[job[r].pay] \in Statuses
      BY <2>3, ZenonT(40) DEF WorkerInv, TypeInv, TypeOK
    <3> QED
      BY <2>1, <2>3, <3>1, ZenonT(40) DEF RowInv, Statuses
  <2>5. JobInv(r)'
    BY <2>1, <2>2, <2>3, <2>4, ZenonT(40) DEF JobInv, Relies, PrePcs, HasExec
  <2> QED
    BY <1>0, <2>1, <2>2, <2>5, QuietPreserves, ZenonT(40)
<1>4. CASE RepairSubmitted(r)
  <2>1. /\ job[r].pc = "repair" /\ Statement(r) /\ Goto(r, "observe") /\ MarkSubmitted(job[r].pay)
        /\ UNCHANGED <<net, expired, sweep>>
    BY <1>4, ZenonT(40) DEF RepairSubmitted, Statement
  <2>2. /\ MovesOn(r) /\ job'[r].pc = "observe" /\ job'[r].pay = job[r].pay
        /\ job'[r].ver = job[r].ver
    BY <1>0, <2>1, GotoMoves, ZenonT(40) DEF ReconcilerPcs, PrePcs
  <2>3. /\ exec[job[r].pay].signed = job[r].ver /\ exec[job[r].pay].broadcast
        /\ exec[job[r].pay].ext = "pending" /\ job[r].pay \in Payments
    BY <1>0, <2>1, ActiveJob, ZenonT(40) DEF WorkerInv, JobInv, Relies, PrePcs, TypeInv
  <2>4. status[job[r].pay] \in {"PROCESSING", "SUBMITTED"}
    BY <2>3, ZenonT(40) DEF WorkerInv, RowInv
  <2>5. status'[job[r].pay] = "SUBMITTED" /\ exec' = exec
    <3>1. TypeInv /\ Transition(job[r].pay, "PROCESSING", "SUBMITTED") /\ UNCHANGED <<net, expired>>
      BY <2>1, ZenonT(40) DEF WorkerInv, MarkSubmitted
    <3>2. /\ status'[job[r].pay] =
               IF status[job[r].pay] = "PROCESSING" THEN "SUBMITTED" ELSE status[job[r].pay]
          /\ exec' = exec
      BY <2>3, <3>1, TransitionRow, ZenonT(40)
    <3> QED
      BY <2>4, <3>2, ZenonT(40)
  <2>6. JobInv(r)'
    BY <2>2, <2>3, <2>5, ZenonT(40) DEF JobInv, Relies, PrePcs
  <2> QED
    BY <1>0, <2>1, <2>2, <2>6, StatementPreserves, ZenonT(40)
<1>5. CASE ObserveOutcome(r)
  <2>1. /\ job[r].pc = "observe" /\ UNCHANGED <<status, exec, net, expired, sweep>>
    BY <1>5, ZenonT(40) DEF ObserveOutcome, dbVars
  <2>2. CASE Done(r)
    BY <1>0, <2>1, <2>2, DoneMoves, QuietPreserves, ZenonT(40)
  <2>3. CASE ~Done(r)
    <3>1. PICK p, v, res : p \in Payments /\ p = job[r].pay /\ v = job[r].ver /\ res = Outcome(p, v)
      BY <1>0, <2>1, ActiveJob, ZenonT(40) DEF WorkerInv, TypeInv
    <3>2. res # "pending" /\ job' = [job EXCEPT ![r] = [job[r] EXCEPT !.pc = "record", !.res = res]]
      BY <1>5, <2>3, <3>1, ZenonT(40) DEF ObserveOutcome
    <3>3. job[r] \in Jobs
      BY <1>0, <2>1, ActiveJob, ZenonT(40) DEF WorkerInv, TypeInv
    <3>4. job'[r] = [pc |-> "record", pay |-> p, ver |-> v, res |-> res]
      BY <1>0, <3>1, <3>2, <3>3, ZenonT(40) DEF Jobs, WorkerInv, TypeInv, TypeOK
    <3>5. \A b \in Actors \ {r} : job'[b] = job[b]
      BY <3>2, ZenonT(40) DEF WorkerInv, TypeInv, TypeOK
    <3>6. MovesOn(r)
      <4>1. job'[r].pay = job[r].pay /\ job'[r].pc = "record"
        BY <3>1, <3>4
      <4> QED
        BY <2>1, <3>5, <4>1, ZenonT(40) DEF MovesOn, OnlyMoves, PrePcs, TypeInv, TypeOK
    <3>7. /\ exec[p].signed = v /\ exec[p].broadcast /\ exec[p].ext = "pending"
          /\ status[p] = "SUBMITTED"
      BY <1>0, <2>1, <3>1, ZenonT(40) DEF WorkerInv, JobInv, Relies, PrePcs
    <3>8. job'[r].pc = "record" /\ job'[r].pay = p /\ job'[r].ver = v /\ job'[r].res = res
      BY <3>4
    <3>9. Outcome(job[r].pay, job[r].ver)' = job'[r].res
      BY <2>1, <3>1, <3>8, ZenonT(40) DEF Outcome
    <3>10. JobInv(r)'
      BY <2>1, <3>2, <3>7, <3>8, <3>9, ZenonT(40) DEF JobInv, Relies, PrePcs
    <3> QED
      BY <1>0, <2>1, <3>6, <3>10, QuietPreserves, ZenonT(40)
  <2> QED
    BY <2>2, <2>3
<1>6. CASE RecordOutcome(r)
  <2>1. /\ job[r].pc = "record" /\ Statement(r) /\ Goto(r, "settle") /\ UNCHANGED <<net, expired, sweep>>
        /\ UpdateExecutionExternalStatus(job[r].pay, job[r].res)
    BY <1>6, ZenonT(40) DEF RecordOutcome, Statement
  <2>2. /\ MovesOn(r) /\ job'[r].pc = "settle" /\ job'[r].pay = job[r].pay
        /\ job'[r].ver = job[r].ver /\ job'[r].res = job[r].res
    BY <1>0, <2>1, GotoMoves, ZenonT(40) DEF ReconcilerPcs, PrePcs
  <2>3. PICK p, v, res : p \in Payments /\ p = job[r].pay /\ v = job[r].ver /\ res = job[r].res
    BY <1>0, <2>1, ActiveJob, ZenonT(40) DEF WorkerInv, TypeInv
  <2>4. /\ exec[p].signed = v /\ exec[p].broadcast /\ status[p] = "SUBMITTED"
        /\ res # "pending" /\ Outcome(p, v) = res
    BY <1>0, <2>1, <2>3, ZenonT(40) DEF WorkerInv, JobInv, Relies, PrePcs
  <2>5. /\ exec'[p].signed = exec[p].signed /\ exec'[p].broadcast = exec[p].broadcast
        /\ exec'[p].ext = res /\ status' = status
    BY <2>1, <2>3, ExecRow, ZenonT(40) DEF WorkerInv
  <2>6. Outcome(job[r].pay, job[r].ver)' = res
    BY <2>1, <2>2, <2>3, <2>4, ZenonT(40) DEF Outcome
  <2>7. JobInv(r)'
    BY <2>2, <2>3, <2>4, <2>5, <2>6, ZenonT(40) DEF JobInv, Relies, PrePcs
  <2> QED
    BY <1>0, <2>1, <2>2, <2>7, StatementPreserves, ZenonT(40)
<1>7. CASE SettlePayment(r)
  <2>1. Statement(r) /\ Done(r) /\ job[r].pc # "idle" /\ UNCHANGED <<net, expired, sweep>>
    BY <1>7, ZenonT(40) DEF SettlePayment, Statement
  <2> QED
    BY <1>0, <2>1, DoneMoves, StatementPreserves, ZenonT(40)
<1> QED
  BY <1>1, <1>2, <1>3, <1>4, <1>5, <1>6, <1>7 DEF ReconcilerStep

\* A call that fails ends the goroutine's work, its effect done or not.
LEMMA FaultPreserves ==
  ASSUME WorkerInv, TypeInv', NEW a \in Actors, ActorFault(a)
  PROVE  WorkerInv'
<1>1. CASE StatementErrsApplied(a)
  <2>1. Statement(a) /\ Done(a) /\ job[a].pc # "idle" /\ UNCHANGED <<net, expired, sweep>>
    BY <1>1, ZenonT(40) DEF StatementErrsApplied, Statement
  <2> QED
    BY <2>1, DoneMoves, StatementPreserves
<1>2. CASE StatementErrsLost(a) \/ QuoteErrs(a)
  <2>1. job[a].pc # "idle" /\ Done(a) /\ UNCHANGED <<status, exec, net, expired, sweep>>
    BY <1>2, ZenonT(40) DEF StatementErrsLost, QuoteErrs, dbVars
  <2> QED
    BY <2>1, DoneMoves, QuietPreserves
<1>3. CASE NodeErrs(a)
  <2>1. /\ job[a].pc # "idle" /\ Done(a) /\ UNCHANGED <<status, exec, expired, sweep>>
        /\ UNCHANGED net \/ (job[a].pc = "signed" /\ Accept(job[a].pay, job[a].ver))
    BY <1>3, ZenonT(40) DEF NodeErrs, dbVars
  <2> QED
    BY <2>1, DoneMoves, QuietPreserves, SendPreserves, ZenonT(40)
<1> QED
  BY <1>1, <1>2, <1>3 DEF ActorFault

-----------------------------------------------------------------------------
\* Goroutine a takes up payment p: nobody else is on it or, when it is marked
\* broadcast, nobody before that; no sweep has p still to visit afterwards.
TakesUp(a, p) ==
  /\ job[a].pc = "idle" /\ OnlyMoves(a)
  /\ job'[a].pc = "idle" \/ job'[a].pay = p
  /\ OnlyRow(p)
  /\ \A b \in Actors : Companion(b, a, p) => /\ SameRow(p)
                                             /\ job'[a].pc \notin PrePcs /\ job[b].pc \notin PrePcs
  /\ \A r \in Reconcilers : /\ sweep'[r].ids \subseteq sweep[r].ids \ {p}
                            /\ sweep'[r].ids # {} => sweep'[r].phase = sweep[r].phase

\* Taking up a payment preserves the invariant if the goroutine may rely on
\* what it does first.
LEMMA StartPreserves ==
  ASSUME WorkerInv, TypeInv', NEW a \in Actors, NEW p \in Payments, TakesUp(a, p),
         RowInv(p)', JobInv(a)'
  PROVE  WorkerInv'
<1>1. OneWorker'
  BY ZenonT(40) DEF WorkerInv, OneWorker
<1>2. \A q \in Payments : RowInv(q)'
  BY RowFrame, ZenonT(40) DEF TakesUp, OnlyRow, WorkerInv
<1>3. ASSUME NEW b \in Actors \ {a}
      PROVE  JobInv(b)'
  <2>1. job'[b] = job[b] /\ JobInv(b)
    BY ZenonT(40) DEF TakesUp, OnlyMoves, WorkerInv
  <2>2. CASE job[b].pc = "idle"
    BY <2>1, <2>2, IdleJob, ZenonT(40)
  <2>3. CASE job[b].pc # "idle"
    <3>1. job[b].pay \in Payments
      BY <2>3, ActiveJob, ZenonT(40) DEF WorkerInv, TypeInv
    <3>2. SameRow(job[b].pay)
      BY <2>3, <3>1, ZenonT(40) DEF TakesUp, OnlyRow, Companion
    <3> QED
      BY <2>1, <3>2, JobFrame, ZenonT(40)
  <2> QED
    BY <2>2, <2>3, ZenonT(40)
<1>4. Exclusive'
  <2> SUFFICES ASSUME NEW b \in Actors, NEW c \in Actors, b # c,
                      job'[b].pc \in PrePcs, job'[c].pc # "idle"
               PROVE  job'[b].pay # job'[c].pay
    BY ZenonT(40) DEF Exclusive
  <2>0. \A d \in Actors \ {a} : job'[d] = job[d]
    BY ZenonT(40) DEF TakesUp, OnlyMoves
  <2>1. CASE b # a /\ c # a
    BY <2>0, <2>1, ZenonT(40) DEF WorkerInv, Exclusive
  <2>2. CASE b = a
    <3>1. job'[c] = job[c] /\ job'[a].pay = p
      BY <2>0, <2>2, ZenonT(40) DEF TakesUp, PrePcs
    <3> QED
      BY <2>2, <3>1, ZenonT(40) DEF TakesUp, Companion
  <2>3. CASE c = a
    <3>1. job'[b] = job[b] /\ job'[a].pay = p /\ job[b].pc # "idle"
      BY <2>0, <2>3, ZenonT(40) DEF TakesUp, PrePcs
    <3> QED
      BY <2>3, <3>1, ZenonT(40) DEF TakesUp, Companion
  <2> QED
    BY <2>1, <2>2, <2>3, ZenonT(40)
<1>5. ASSUME NEW r \in Reconcilers
      PROVE  SweepInv(r)'
  <2>1. /\ SweepInv(r) /\ sweep'[r].ids \subseteq sweep[r].ids \ {p}
        /\ sweep'[r].ids # {} => sweep'[r].phase = sweep[r].phase
    BY ZenonT(40) DEF WorkerInv, TakesUp
  <2>2. sweep[r].ids \subseteq Payments
    BY ZenonT(40) DEF WorkerInv, TypeInv, TypeOK
  <2>3. ASSUME NEW q \in sweep'[r].ids
        PROVE  /\ \A b \in Actors : job'[b].pc # "idle" => job'[b].pay # q
               /\ sweep'[r].phase = "recover" => status'[q] = "PROCESSING" /\ exec'[q].nonce = 0
    <3>1. q \in Payments /\ q # p /\ q \in sweep[r].ids
      BY <2>1, <2>2, ZenonT(40)
    <3>2. SameRow(q)
      BY <3>1, ZenonT(40) DEF TakesUp, OnlyRow
    <3>3. \A b \in Actors : job'[b].pc # "idle" => job'[b].pay # q
      BY <2>1, <3>1, ZenonT(40) DEF TakesUp, OnlyMoves, SweepInv
    <3>4. sweep'[r].phase = sweep[r].phase
      BY <2>1, ZenonT(40)
    <3> QED
      BY <2>1, <3>1, <3>2, <3>3, <3>4, ZenonT(40) DEF SameRow, SweepInv, HasExec
  <2>4. sweep'[r].phase = "rest" => sweep'[r].ids = {}
    BY <2>1, ZenonT(40) DEF SweepInv
  <2> QED
    BY <2>3, <2>4, ZenonT(40) DEF SweepInv, HasExec
<1> QED
  BY <1>1, <1>2, <1>3, <1>4, <1>5 DEF WorkerInv

\* A payment that is not claimed has no execution, nobody works on it and no
\* sweep has it to visit.
LEMMA Unclaimed ==
  ASSUME WorkerInv, NEW p \in Payments, status[p] \in {"NONE", "ROUTED"}
  PROVE  /\ ~HasExec(p) /\ exec[p].signed = 0 /\ ~exec[p].broadcast
         /\ \A a \in Actors : job[a].pc # "idle" => job[a].pay # p
         /\ \A r \in Reconcilers : p \notin sweep[r].ids
<1>1. ~HasExec(p) /\ exec[p].signed = 0 /\ ~exec[p].broadcast
  BY ZenonT(40) DEF WorkerInv, RowInv, TypeInv, RowsTyped
<1>2. \A a \in Actors : job[a].pc # "idle" => job[a].pay # p
  BY ZenonT(40) DEF WorkerInv, JobInv, Relies
<1>3. ASSUME NEW r \in Reconcilers, p \in sweep[r].ids
      PROVE  FALSE
  <2>1. sweep[r].phase \in {"rest", "recover", "drive"} /\ SweepInv(r)
    BY ZenonT(40) DEF WorkerInv, TypeInv, TypeOK
  <2>2. CASE sweep[r].phase = "rest"
    BY <1>3, <2>1, <2>2, ZenonT(40) DEF SweepInv
  <2>3. CASE sweep[r].phase = "recover"
    BY <1>3, <2>1, <2>3, ZenonT(40) DEF SweepInv
  <2>4. CASE sweep[r].phase = "drive"
    BY <1>1, <1>3, <2>4, ZenonT(40) DEF WorkerInv, TypeInv, SweepOK
  <2> QED
    BY <2>1, <2>2, <2>3, <2>4
<1> QED
  BY <1>1, <1>2, <1>3, ZenonT(40)

\* The claim of a routed payment.
LEMMA ClaimPreserves ==
  ASSUME WorkerInv, TypeInv', NEW h \in Handlers, NEW p \in Payments, Claim(h, p)
  PROVE  WorkerInv'
<1>0. h \in Actors /\ TypeInv /\ 0 \in 0..MaxSigns
  BY BoundsAssumption DEF Actors, WorkerInv
<1>1. /\ job[h] = Idle /\ status[p] = "ROUTED" /\ Transition(p, "ROUTED", "PROCESSING")
      /\ Begin(h, "start", p, 0) /\ UNCHANGED <<net, expired, sweep>>
  BY ZenonT(40) DEF Claim
<1>2. OnlyMoves(h) /\ job'[h].pc = "start" /\ job'[h].pay = p
  BY <1>0, <1>1, BeginJob, ZenonT(40) DEF ExecutorPcs
<1>3. /\ ~HasExec(p) /\ exec[p].signed = 0 /\ ~exec[p].broadcast
      /\ \A a \in Actors : job[a].pc # "idle" => job[a].pay # p
      /\ \A r \in Reconcilers : p \notin sweep[r].ids
  BY <1>1, Unclaimed, ZenonT(40)
<1>4. OnlyRow(p) /\ status'[p] = "PROCESSING" /\ exec' = exec
  BY <1>0, <1>1, TransitionRow, ZenonT(40)
<1>5. RowInv(p)'
  BY <1>1, <1>3, <1>4, ZenonT(40) DEF WorkerInv, RowInv, HasExec
<1>6. JobInv(h)'
  BY <1>2, <1>3, <1>4, ZenonT(40) DEF JobInv, Relies, PrePcs, HasExec
<1>7. TakesUp(h, p)
  <2>1. job[h].pc = "idle"
    BY <1>1, IdlePc, ZenonT(40)
  <2>2. \A r \in Reconcilers : sweep'[r].ids \subseteq sweep[r].ids \ {p} /\ sweep'[r].phase = sweep[r].phase
    BY <1>1, <1>3, ZenonT(40)
  <2> QED
    BY <1>2, <1>3, <1>4, <2>1, <2>2, ZenonT(40) DEF TakesUp, Companion
<1> QED
  BY <1>0, <1>5, <1>6, <1>7, StartPreserves

\* The sweep takes up a payment without an execution, or resumes one.
LEMMA VisitPreserves ==
  ASSUME WorkerInv, TypeInv', NEW r \in Reconcilers, NEW p \in Payments,
         RecoverNext(r, p) \/ DriveNext(r, p)
  PROVE  WorkerInv'
<1>0. r \in Actors /\ TypeInv /\ 0 \in 0..MaxSigns /\ exec[p].signed \in 0..MaxSigns
  <2>1. exec[p].signed \in 0..MaxSigns
    BY ZenonT(40) DEF WorkerInv, TypeInv, TypeOK
  <2> QED
    BY <2>1, VersionRange, ZenonT(40) DEF Actors, WorkerInv
<1>1. /\ job[r].pc = "idle" /\ p \in sweep[r].ids
      /\ sweep' = [sweep EXCEPT ![r].ids = @ \ {p}]
      /\ UNCHANGED <<status, exec, net, expired>>
  BY DEF RecoverNext, DriveNext, Idle, dbVars
<1>2. \A q \in Payments : SameRow(q)
  BY <1>1 DEF SameRow
<1>3. RowInv(p)'
  BY <1>2, RowFrame DEF WorkerInv
<1>4. /\ \A a \in Actors : job[a].pc # "idle" => job[a].pay # p
      /\ sweep[r].phase = "recover" => status[p] = "PROCESSING" /\ ~HasExec(p)
  BY <1>1, ZenonT(40) DEF WorkerInv, SweepInv
<1>5. \A s \in Reconcilers : /\ sweep'[s].ids \subseteq sweep[s].ids \ {p}
                             /\ sweep'[s].ids # {} => sweep'[s].phase = sweep[s].phase
  <2>1. \A s \in Reconcilers : s = r
    BY ZenonT(40) DEF WorkerInv, OneWorker
  <2>2. sweep'[r].ids = sweep[r].ids \ {p} /\ sweep'[r].phase = sweep[r].phase
    BY <1>0, <1>1 DEF TypeInv, TypeOK
  <2> QED
    BY <2>1, <2>2, ZenonT(40)
<1>6. ASSUME OnlyMoves(r), JobInv(r)', job'[r].pc = "idle" \/ job'[r].pay = p
      PROVE  WorkerInv'
  <2>1. TakesUp(r, p)
    BY <1>1, <1>2, <1>4, <1>5, <1>6 DEF TakesUp, OnlyRow, Companion
  <2> QED
    BY <1>0, <1>3, <1>6, <2>1, StartPreserves, ZenonT(40)
<1>7. CASE RecoverNext(r, p)
  <2>1. Begin(r, "start", p, 0) /\ sweep[r].phase = "recover"
    BY <1>7, ZenonT(40) DEF RecoverNext
  <2>2. OnlyMoves(r) /\ job'[r].pc = "start" /\ job'[r].pay = p
    BY <1>0, <2>1, BeginJob, ZenonT(40) DEF ExecutorPcs
  <2>3. JobInv(r)'
    BY <1>1, <1>4, <2>1, <2>2, ZenonT(40) DEF JobInv, Relies, PrePcs, HasExec
  <2> QED
    BY <1>6, <2>2, <2>3
<1>8. CASE DriveNext(r, p)
  <2>1. HasExec(p)
    BY <1>1, <1>8, ZenonT(40) DEF DriveNext, WorkerInv, TypeInv, SweepOK
  <2>2. status[p] \notin {"NONE", "ROUTED"}
    BY <2>1, ZenonT(40) DEF WorkerInv, RowInv
  <2>3. CASE exec[p].broadcast
    <3>1. Done(r)
      BY <1>8, <2>3 DEF DriveNext
    <3>2. OnlyMoves(r) /\ job'[r].pc = "idle"
      BY <1>0, <3>1, DoneJob, ZenonT(40) DEF Done, Idle, TypeInv, TypeOK
    <3> QED
      BY <1>0, <1>6, <3>2, IdleJob, ZenonT(40)
  <2>4. CASE ~exec[p].broadcast /\ exec[p].signed # 0
    <3>1. Begin(r, "signed", p, exec[p].signed)
      BY <1>8, <2>4 DEF DriveNext
    <3>2. OnlyMoves(r) /\ job'[r].pc = "signed" /\ job'[r].pay = p
      BY <1>0, <3>1, BeginJob, ZenonT(40) DEF ExecutorPcs
    <3>3. job'[r].ver = exec[p].signed
      BY <1>0, <3>1, ZenonT(40) DEF Begin, TypeInv, TypeOK
    <3>4. JobInv(r)'
      BY <1>1, <2>2, <2>4, <3>2, <3>3, ZenonT(40) DEF JobInv, Relies, PrePcs
    <3> QED
      BY <1>6, <3>2, <3>4
  <2>5. CASE ~exec[p].broadcast /\ exec[p].signed = 0
    <3>1. Begin(r, "resume", p, 0)
      BY <1>8, <2>5 DEF DriveNext
    <3>2. OnlyMoves(r) /\ job'[r].pc = "resume" /\ job'[r].pay = p
      BY <1>0, <3>1, BeginJob, ZenonT(40) DEF ReconcilerPcs
    <3>3. JobInv(r)'
      BY <1>1, <2>1, <2>2, <2>5, <3>2 DEF JobInv, Relies, PrePcs, HasExec
    <3> QED
      BY <1>6, <3>2, <3>3, ZenonT(40)
  <2> QED
    BY <2>3, <2>4, <2>5, ZenonT(40)
<1> QED
  BY <1>7, <1>8, ZenonT(40)

\* Steps of the sweep that only move the sweep.
LEMMA SweepPreserves ==
  ASSUME WorkerInv, TypeInv', UNCHANGED <<status, exec, net, expired, job>>,
         \A r \in Reconcilers : SweepInv(r)'
  PROVE  WorkerInv'
<1>1. \A q \in Payments : RowInv(q)'
  BY RowFrame, ZenonT(40) DEF SameRow, WorkerInv
<1>2. \A a \in Actors : JobInv(a)'
  BY JobFrame, ZenonT(40) DEF SameRow, WorkerInv
<1>3. OneWorker' /\ Exclusive'
  BY ZenonT(40) DEF WorkerInv, OneWorker, Exclusive
<1> QED
  BY <1>1, <1>2, <1>3 DEF WorkerInv

\* The query of a phase returns rows nobody works on; a failed one drops some.
LEMMA QueryPreserves ==
  ASSUME WorkerInv, TypeInv', NEW r \in Reconcilers,
         (\E stale \in SUBSET Payments : SweepRecover(r, stale) \/ SweepDrive(r, stale))
         \/ SweepQueryErrs(r)
  PROVE  WorkerInv'
<1>0. r \in Actors /\ TypeInv /\ SweepInv(r) /\ HandlersTimeOut /\ \A s \in Reconcilers : s = r
  BY ZenonT(40) DEF Actors, WorkerInv, OneWorker
<1>1. job[r].pc = "idle" /\ UNCHANGED <<status, exec, net, expired, job>>
  <2>1. job[r] = Idle /\ UNCHANGED <<status, exec, net, expired, job>>
    BY ZenonT(40) DEF SweepRecover, SweepDrive, SweepQueryErrs, Resting, dbVars
  <2> QED
    BY <2>1, IdlePc, ZenonT(40)
<1>2. SUFFICES SweepInv(r)'
  BY <1>0, <1>1, SweepPreserves, ZenonT(40)
<1>3. ASSUME NEW phase, NEW ids, Enter(r, phase, ids)
      PROVE  sweep'[r].phase = phase /\ sweep'[r].ids = ids
  BY <1>0, <1>3, ZenonT(40) DEF Enter, TypeInv, TypeOK
<1>4. ASSUME NEW p, MayBeStale(p)
      PROVE  \A a \in Actors : job[a].pc # "idle" => job[a].pay # p
  BY <1>0, <1>1, <1>4, ZenonT(40) DEF MayBeStale, Actors
<1>5. ASSUME NEW stale \in SUBSET Payments, SweepRecover(r, stale)
      PROVE  SweepInv(r)'
  <2>1. sweep'[r].phase = "recover" /\ sweep'[r].ids = stale
    BY <1>3, <1>5, ZenonT(40) DEF SweepRecover
  <2>2. \A p \in stale : MayBeStale(p) /\ status[p] = "PROCESSING" /\ ~HasExec(p)
    BY <1>5, ZenonT(40) DEF SweepRecover, StaleTestnetProcessingWithoutExecutionIDs
  <2> QED
    BY <1>1, <1>4, <2>1, <2>2, ZenonT(40) DEF SweepInv, HasExec
<1>6. ASSUME NEW stale \in SUBSET Payments, SweepDrive(r, stale)
      PROVE  SweepInv(r)'
  <2>1. sweep'[r].phase = "drive" /\ sweep'[r].ids = stale
    BY <1>3, <1>6, ZenonT(40) DEF SweepDrive
  <2>2. \A p \in stale : MayBeStale(p)
    BY <1>6, ZenonT(40) DEF SweepDrive, StaleNotYetBroadcast
  <2> QED
    BY <1>1, <1>4, <2>1, <2>2, ZenonT(40) DEF SweepInv
<1>7. CASE SweepQueryErrs(r)
  <2>1. \/ sweep'[r].phase = "rest" /\ sweep'[r].ids = {}
        \/ sweep'[r].phase = "drive" /\ sweep'[r].ids \subseteq sweep[r].ids
    <3>1. \/ Enter(r, "rest", {})
          \/ \E p \in sweep[r].ids : Enter(r, "drive", sweep[r].ids \ {p})
      BY <1>7, ZenonT(40) DEF SweepQueryErrs
    <3>2. CASE Enter(r, "rest", {})
      BY <1>3, <3>2, ZenonT(40)
    <3>3. ASSUME NEW p \in sweep[r].ids, Enter(r, "drive", sweep[r].ids \ {p})
          PROVE  sweep'[r].phase = "drive" /\ sweep'[r].ids \subseteq sweep[r].ids
      <4>1. PICK ids : ids = sweep[r].ids \ {p}
        BY ZenonT(40)
      <4> QED
        BY <1>3, <3>3, <4>1
    <3> QED
      BY <3>1, <3>2, <3>3, ZenonT(40)
  <2> QED
    BY <1>0, <1>1, <2>1, ZenonT(40) DEF SweepInv
<1> QED
  BY <1>5, <1>6, <1>7

\* checkBroadcastOutcomes takes up the broadcast payment of the lowest nonce.
LEMMA CheckPreserves ==
  ASSUME WorkerInv, TypeInv', NEW r \in Reconcilers, SweepCheck(r)
  PROVE  WorkerInv'
<1>0. r \in Actors /\ TypeInv /\ \A s \in Reconcilers : s = r
  BY ZenonT(40) DEF Actors, WorkerInv, OneWorker
<1>1. job[r] = Idle /\ Enter(r, "rest", {}) /\ UNCHANGED <<status, exec, net, expired>>
  BY ZenonT(40) DEF SweepCheck, Resting, dbVars
<1>2. sweep'[r].phase = "rest" /\ sweep'[r].ids = {}
  BY <1>0, <1>1, ZenonT(40) DEF Enter, TypeInv, TypeOK
<1>3. \A q \in Payments : SameRow(q)
  BY <1>1, ZenonT(40) DEF SameRow
<1>4. CASE Done(r)
  <2>1. UNCHANGED job
    BY <1>0, <1>1, <1>4, ZenonT(40) DEF Done, TypeInv, TypeOK
  <2>2. \A s \in Reconcilers : SweepInv(s)'
    BY <1>0, <1>2 DEF SweepInv
  <2> QED
    BY <1>1, <2>1, <2>2, SweepPreserves, ZenonT(40)
<1>5. ASSUME NEW p \in BroadcastUnconfirmed, Begin(r, "repair", p, exec[p].signed)
      PROVE  WorkerInv'
  <2>1. p \in Payments /\ exec[p].signed \in 0..MaxSigns /\ exec[p].broadcast /\ exec[p].ext = "pending"
    BY <1>0, ZenonT(40) DEF BroadcastUnconfirmed, TypeInv, TypeOK
  <2>2. OnlyMoves(r) /\ job'[r].pc = "repair" /\ job'[r].pay = p
    BY <1>0, <1>5, <2>1, BeginJob, ZenonT(40) DEF ReconcilerPcs
  <2>3. job'[r].ver = exec[p].signed
    BY <1>0, <1>5, ZenonT(40) DEF Begin, TypeInv, TypeOK
  <2>4. status[p] \in {"PROCESSING", "SUBMITTED"}
    BY <2>1, ZenonT(40) DEF WorkerInv, RowInv
  <2>5. JobInv(r)'
    BY <1>1, <2>1, <2>2, <2>3, <2>4, ZenonT(40) DEF JobInv, Relies, PrePcs
  <2>6. RowInv(p)'
    BY <1>3, <2>1, RowFrame, ZenonT(40) DEF WorkerInv
  <2>7. \A b \in Actors : Companion(b, r, p) => job[b].pc \notin PrePcs
    BY <2>1, PreRow, ZenonT(40) DEF Companion
  <2>8. TakesUp(r, p)
    <3>1. job[r].pc = "idle" /\ job'[r].pc \notin PrePcs
      BY <1>1, <2>2 DEF Idle, PrePcs
    <3>2. OnlyRow(p) /\ SameRow(p)
      BY <1>3, <2>1, ZenonT(40) DEF OnlyRow
    <3>3. ASSUME NEW s \in Reconcilers
          PROVE  /\ sweep'[s].ids \subseteq sweep[s].ids \ {p}
                 /\ sweep'[s].ids # {} => sweep'[s].phase = sweep[s].phase
      BY <1>0, <1>2
    <3> QED
      BY <2>2, <2>7, <3>1, <3>2, <3>3, ZenonT(40) DEF TakesUp
  <2> QED
    BY <1>0, <2>1, <2>5, <2>6, <2>8, StartPreserves, ZenonT(40)
<1> QED
  BY <1>4, <1>5, ZenonT(40) DEF SweepCheck

-----------------------------------------------------------------------------
\* A step of the outside world on payment p preserves the invariant if it does
\* so for p and for whoever works on p.
LEMMA OutsidePreserves ==
  ASSUME WorkerInv, TypeInv', NEW p \in Payments, OnlyRow(p), UNCHANGED <<job, sweep>>,
         RowInv(p)',
         \A a \in Actors : job[a].pc # "idle" /\ job[a].pay = p => JobInv(a)',
         (\E r \in Reconcilers : p \in sweep[r].ids) => status'[p] = status[p] /\ exec'[p] = exec[p]
  PROVE  WorkerInv'
<1>1. \A q \in Payments : RowInv(q)'
  BY RowFrame, ZenonT(40) DEF OnlyRow, WorkerInv
<1>2. ASSUME NEW a \in Actors
      PROVE  JobInv(a)'
  <2>1. CASE job[a].pc = "idle"
    BY <2>1, IdleJob, ZenonT(40)
  <2>2. CASE job[a].pc # "idle" /\ job[a].pay # p
    BY <2>2, ActiveJob, JobFrame, ZenonT(40) DEF OnlyRow, WorkerInv, TypeInv
  <2> QED
    BY <2>1, <2>2
<1>3. OneWorker' /\ Exclusive'
  BY ZenonT(40) DEF WorkerInv, OneWorker, Exclusive
<1>4. ASSUME NEW r \in Reconcilers
      PROVE  SweepInv(r)'
  <2>1. SweepInv(r) /\ sweep[r].ids \subseteq Payments
    BY ZenonT(40) DEF WorkerInv, TypeInv, TypeOK
  <2>2. \A q \in sweep[r].ids : status'[q] = status[q] /\ exec'[q] = exec[q]
    BY <2>1, ZenonT(40) DEF OnlyRow, SameRow
  <2> QED
    BY <2>1, <2>2, ZenonT(40) DEF SweepInv, HasExec
<1> QED
  BY <1>1, <1>2, <1>3, <1>4, ZenonT(40) DEF WorkerInv

\* Creation, a claim by a worker without an executor, and expiry.
LEMMA LifePreserves ==
  ASSUME WorkerInv, TypeInv', NEW p \in Payments,
         Create(p) \/ ClaimUnequipped(p) \/ QuoteExpires(p)
  PROVE  WorkerInv'
<1>0. TypeInv /\ RowInv(p) /\ status \in [Payments -> Statuses]
  BY ZenonT(40) DEF WorkerInv, TypeInv, TypeOK
<1>1. CASE Create(p) \/ ClaimUnequipped(p)
  <2>1. /\ status[p] \in {"NONE", "ROUTED"} /\ UNCHANGED <<exec, net, expired, job, sweep>>
        /\ \E to \in {"ROUTED", "PROCESSING"} : status' = [status EXCEPT ![p] = to]
    BY <1>0, <1>1, ZenonT(40) DEF Create, ClaimUnequipped, Transition
  <2>2. /\ ~HasExec(p) /\ exec[p].signed = 0 /\ ~exec[p].broadcast
        /\ \A a \in Actors : job[a].pc # "idle" => job[a].pay # p
        /\ \A r \in Reconcilers : p \notin sweep[r].ids
    BY <2>1, Unclaimed, ZenonT(40)
  <2>3. OnlyRow(p) /\ status'[p] \in {"ROUTED", "PROCESSING"}
    BY <1>0, <2>1, ZenonT(40) DEF OnlyRow, SameRow
  <2>4. RowInv(p)'
    BY <1>0, <2>1, <2>2, <2>3, ZenonT(40) DEF RowInv, HasExec
  <2> QED
    BY <2>1, <2>2, <2>3, <2>4, OutsidePreserves, ZenonT(40)
<1>2. CASE QuoteExpires(p)
  <2>1. UNCHANGED <<status, exec, net, job, sweep>> /\ expired' = expired \cup {p}
    BY <1>2, ZenonT(40) DEF QuoteExpires, dbVars
  <2>2. \A q \in Payments : SameRow(q)
    BY <2>1, ZenonT(40) DEF SameRow
  <2>3. RowInv(p)'
    BY <1>0, <2>2, RowFrame
  <2>4. \A a \in Actors : job[a].pc # "idle" /\ job[a].pay = p => JobInv(a)'
    BY <2>1, <2>2, JobFrame, ZenonT(40) DEF WorkerInv
  <2> QED
    BY <2>1, <2>2, <2>3, <2>4, OutsidePreserves, ZenonT(40) DEF OnlyRow
<1> QED
  BY <1>1, <1>2, ZenonT(40)

\* The chain and the bridge: a transaction whose outcome is open moves on.
LEMMA NetPreserves ==
  ASSUME WorkerInv, TypeInv', NEW p \in Payments, NEW v \in Versions,
         net[p][v] \in {"pool", "mined"}, NEW out, net' = [net EXCEPT ![p][v] = out],
         UNCHANGED <<status, exec, expired, job, sweep>>
  PROVE  WorkerInv'
<1>0. /\ RowInv(p)
      /\ net \in [Payments -> [Versions -> {"unknown", "pool"} \cup OnChain]]
  BY ZenonT(40) DEF WorkerInv, TypeInv, TypeOK
<1>1. exec[p].signed = v
  BY <1>0, ZenonT(40) DEF RowInv
<1>2. OnlyRow(p) /\ \A u \in Versions \ {v} : net'[p][u] = net[p][u]
  BY <1>0, ZenonT(40) DEF OnlyRow, SameRow
<1>3. status[p] # "COMPLETED" /\ (status[p] = "FAILED" => exec[p].signed = 0)
  BY <1>0, <1>1, ZenonT(40) DEF RowInv
<1>4. RowInv(p)'
  BY <1>0, <1>1, <1>2, <1>3, ZenonT(40) DEF RowInv, HasExec, MustReject
<1>5. ASSUME NEW a \in Actors, job[a].pc # "idle", job[a].pay = p
      PROVE  JobInv(a)'
  <2>1. JobInv(a)
    BY ZenonT(40) DEF WorkerInv
  <2>2. job[a].pc \notin {"record", "settle"}
    <3>1. Outcome(p, v) = "pending"
      BY DEF Outcome
    <3> QED
      BY <1>1, <1>5, <2>1, <3>1, ZenonT(40) DEF JobInv, Relies
  <2> QED
    BY <1>5, <2>1, <2>2, ZenonT(40) DEF JobInv, Relies, HasExec, MustReject
<1> QED
  BY <1>2, <1>4, <1>5, OutsidePreserves, ZenonT(40)

\* A crash loses only what is in memory.
LEMMA CrashPreserves ==
  ASSUME WorkerInv, TypeInv', WorkerCrash
  PROVE  WorkerInv'
<1>1. /\ \A a \in Actors : job'[a].pc = "idle"
      /\ \A r \in Reconcilers : sweep'[r] = [phase |-> "rest", ids |-> {}]
      /\ UNCHANGED <<status, exec, net, expired>>
  BY ZenonT(40) DEF WorkerCrash, Idle, dbVars
<1>2. \A q \in Payments : RowInv(q)'
  BY <1>1, RowFrame, ZenonT(40) DEF SameRow, WorkerInv
<1>3. \A a \in Actors : JobInv(a)'
  BY <1>1, IdleJob, ZenonT(40)
<1>4. OneWorker' /\ Exclusive'
  BY <1>1, ZenonT(40) DEF WorkerInv, OneWorker, Exclusive
<1>5. \A r \in Reconcilers : SweepInv(r)'
  <2>1. \A r \in Reconcilers : sweep'[r].ids = {}
    BY <1>1, SweepFields, ZenonT(40)
  <2> QED
    BY <2>1, ZenonT(40) DEF SweepInv
<1> QED
  BY <1>2, <1>3, <1>4, <1>5 DEF WorkerInv

-----------------------------------------------------------------------------
\* Every step preserves the invariant.
LEMMA NextWorkerInv == WorkerInv /\ [Next]_vars => WorkerInv'
<1> SUFFICES ASSUME WorkerInv, [Next]_vars
             PROVE  WorkerInv'
  OBVIOUS
<1>0. TypeInv'
  BY NextTypeInv DEF WorkerInv
<1>1. CASE UNCHANGED vars
  <2>1. UNCHANGED <<status, exec, net, expired, job, sweep>>
    BY <1>1, ZenonT(40) DEF vars, dbVars
  <2>2. \A r \in Reconcilers : SweepInv(r)'
    BY <2>1, ZenonT(40) DEF WorkerInv, SweepInv, HasExec
  <2> QED
    BY <1>0, <2>1, <2>2, SweepPreserves
<1>2. CASE \E p \in Payments : Create(p) \/ QuoteExpires(p) \/ ClaimUnequipped(p)
  BY <1>0, <1>2, LifePreserves
<1>3. CASE \E p \in Payments, v \in Versions : Mine(p, v) \/ BridgeSettles(p, v) \/ Evict(p, v)
  <2>1. PICK p \in Payments, v \in Versions : Mine(p, v) \/ BridgeSettles(p, v) \/ Evict(p, v)
    BY <1>3, ZenonT(40)
  <2>2. net[p][v] \in {"pool", "mined"} /\ UNCHANGED <<status, exec, expired, job, sweep>>
    BY <2>1, ZenonT(40) DEF Mine, BridgeSettles, Evict, dbVars
  <2>3. PICK out : net' = [net EXCEPT ![p][v] = out]
    BY <2>1 DEF Mine, BridgeSettles, Evict
  <2> QED
    BY <1>0, <2>2, <2>3, NetPreserves, ZenonT(40)
<1>4. CASE \E h \in Handlers, p \in Payments : Claim(h, p)
  BY <1>0, <1>4, ClaimPreserves
<1>5. CASE \E a \in Actors : ExecutorStep(a) \/ ActorFault(a)
  BY <1>0, <1>5, ExecutorPreserves, FaultPreserves
<1>6. CASE \E r \in Reconcilers : ReconcilerStep(r)
  BY <1>0, <1>6, ReconcilerPreserves, ZenonT(40)
<1>7. CASE \E r \in Reconcilers : SweepStep(r) \/ SweepQueryErrs(r)
  BY <1>0, <1>7, QueryPreserves, VisitPreserves, CheckPreserves, ZenonT(40) DEF SweepStep
<1>8. CASE WorkerCrash
  BY <1>0, <1>8, CrashPreserves
<1> QED
  BY <1>1, <1>2, <1>3, <1>4, <1>5, <1>6, <1>7, <1>8, ZenonT(40) DEF Next, ChainStep

\* With one worker, a goroutine has a payment to itself until its transaction
\* is marked broadcast, what it has read of the row still holds when it acts,
\* and rows, statuses and chain agree, whatever fails and whenever it crashes.
THEOREM AlwaysWorkerInv == OneWorker /\ Spec => []WorkerInv
<1>1. OneWorker /\ Init => WorkerInv
  <2> SUFFICES ASSUME OneWorker, Init
               PROVE  WorkerInv
    OBVIOUS
  <2>1. TypeInv
    BY InitTypeInv
  <2>2. /\ \A a \in Actors : job[a] = Idle
        /\ \A r \in Reconcilers : sweep[r] = [phase |-> "rest", ids |-> {}]
        /\ \A p \in Payments : /\ status[p] = "NONE" /\ exec[p] = NoExec
                               /\ \A v \in Versions : net[p][v] = "unknown"
    BY ZenonT(40) DEF Init
  <2>3. \A p \in Payments : RowInv(p)
    <3> SUFFICES ASSUME NEW p \in Payments
                 PROVE  RowInv(p)
      BY ZenonT(40)
    <3>1. exec[p].nonce = 0 /\ exec[p].signed = 0 /\ ~exec[p].broadcast
      BY <2>2, NoExecFields, ZenonT(40)
    <3>2. status[p] = "NONE" /\ \A v \in Versions : net[p][v] = "unknown"
      BY <2>2, ZenonT(40)
    <3> QED
      BY <3>1, <3>2, ZenonT(40) DEF RowInv, HasExec
  <2>4. \A a \in Actors : JobInv(a)
    <3> SUFFICES ASSUME NEW a \in Actors
                 PROVE  JobInv(a)
      BY ZenonT(40)
    <3>1. job[a].pc = "idle"
      BY <2>2 DEF Idle
    <3> QED
      BY <3>1, ZenonT(40) DEF JobInv, Relies, PrePcs
  <2>5. Exclusive /\ \A r \in Reconcilers : SweepInv(r)
    BY <2>2 DEF Exclusive, SweepInv, Idle
  <2> QED
    BY <2>1, <2>3, <2>4, <2>5 DEF WorkerInv
<1> QED
  BY <1>1, NextWorkerInv, PTL DEF Spec

\* With one worker, a transaction the network has seen is the one the execution
\* row records: signAndBroadcastFresh persists before it sends, and the resume
\* path never signs a row whose transaction may be out.
THEOREM AlwaysRecordedIsSent == OneWorker /\ Spec => []RecordedIsSent
<1>1. WorkerInv => RecordedIsSent
  BY ZenonT(40) DEF WorkerInv, RowInv, RecordedIsSent
<1> QED
  BY <1>1, AlwaysWorkerInv, PTL

\* With one worker, a COMPLETED payment was filled by the bridge, and no
\* transaction of a FAILED one is pending, deposited or filled.
THEOREM AlwaysOutcomeMatchesChain == OneWorker /\ Spec => []OutcomeMatchesChain
<1>1. WorkerInv => OutcomeMatchesChain
  <2> SUFFICES ASSUME WorkerInv, NEW p \in Payments
               PROVE  /\ status[p] = "COMPLETED" => \E v \in Versions : net[p][v] = "filled"
                      /\ status[p] = "FAILED" =>
                           \A v \in Versions : net[p][v] \notin {"pool", "mined", "filled"}
    BY DEF OutcomeMatchesChain
  <2>1. RowInv(p) /\ exec[p].signed \in 0..MaxSigns /\ (exec[p].broadcast => exec[p].signed # 0)
    BY DEF WorkerInv, TypeInv, RowsTyped
  <2>2. ASSUME status[p] = "COMPLETED"
        PROVE  \E v \in Versions : net[p][v] = "filled"
    <3>1. exec[p].signed \in Versions /\ net[p][exec[p].signed] = "filled"
      <4>1. exec[p].signed # 0
        BY <2>1, <2>2, ZenonT(40) DEF RowInv
      <4> QED
        BY <2>1, <2>2, <4>1, SignedVersion, ZenonT(40) DEF RowInv
    <3> QED
      BY <3>1, ZenonT(40)
  <2>3. ASSUME status[p] = "FAILED", NEW v \in Versions, net[p][v] # "unknown"
        PROVE  net[p][v] \in {"reverted", "refunded"}
    BY <2>1, <2>3, BoundsAssumption DEF RowInv, Versions
  <2> QED
    BY <2>2, <2>3, ZenonT(40)
<1> QED
  BY <1>1, AlwaysWorkerInv, PTL

\* With one worker, CompleteSubmittedPayment always finds the payment SUBMITTED:
\* the repair comes first, and nobody moves the payment in between.
THEOREM AlwaysObservationApplies == OneWorker /\ Spec => []ObservationApplies
<1>1. WorkerInv => ObservationApplies
  BY ZenonT(40) DEF WorkerInv, JobInv, Relies, ObservationApplies, Actors
<1> QED
  BY <1>1, AlwaysWorkerInv, PTL

-----------------------------------------------------------------------------
(***************************************************************************)
(* No payment is paid twice.                                               *)
(***************************************************************************)
\* What is left counts the transactions on the chain.
INSTANCE FiniteSetTheorems

\* A payment on the chain used up its nonce.
NonceUsed ==
  \A p \in Payments, v \in Versions :
    net[p][v] \in OnChain => HasExec(p) /\ exec[p].nonce < ChainNonce

\* The chain's nonce is a positive number, and one more transaction on the
\* chain raises it by one.
LEMMA ChainNonceCounts ==
  /\ IsFiniteSet(OnChainTxs) /\ Cardinality(OnChainTxs) \in Nat
  /\ ChainNonce = 1 + Cardinality(OnChainTxs)
<1>1. IsFiniteSet(Payments) /\ IsFiniteSet(Versions)
  BY PaymentsAssumption, BoundsAssumption, FS_Interval DEF Versions
<1>2. IsFiniteSet(Payments \X Versions)
  BY <1>1, FS_Product, ZenonT(40)
<1>3. OnChainTxs \in SUBSET (Payments \X Versions)
  BY DEF OnChainTxs
<1>4. IsFiniteSet(OnChainTxs)
  BY <1>2, <1>3, FS_Subset, ZenonT(40)
<1> QED
  BY <1>4, FS_CardinalityType, ZenonT(40) DEF ChainNonce, OnChainTxs

\* A step that leaves the chain alone keeps both invariants of the chain.
LEMMA SameChain ==
  ASSUME NonceUsed, PaidOnce, SameOnChain, \A p \in Payments : RowKept(p)
  PROVE  NonceUsed' /\ PaidOnce'
<1>1. OnChainTxs' = OnChainTxs
  BY ZenonT(40) DEF SameOnChain, OnChainTxs
<1>2. ChainNonce' = ChainNonce
  BY <1>1, ZenonT(40) DEF ChainNonce, OnChainTxs
<1>3. PaidOnce'
  BY ZenonT(40) DEF PaidOnce, SameOnChain
<1>4. ASSUME NEW p \in Payments, NEW v \in Versions, net'[p][v] \in OnChain
      PROVE  exec'[p].nonce # 0 /\ exec'[p].nonce < ChainNonce
  <2>1. HasExec(p) /\ exec[p].nonce < ChainNonce
    BY <1>4, ZenonT(40) DEF NonceUsed, SameOnChain
  <2>2. exec'[p].nonce = exec[p].nonce
    BY <2>1, ZenonT(40) DEF RowKept
  <2> QED
    BY <2>1, <2>2, ZenonT(40) DEF HasExec
<1> QED
  BY <1>2, <1>3, <1>4, ZenonT(40) DEF NonceUsed, HasExec

\* Mining a transaction keeps both: its payment's nonce was still unused, so no
\* other transaction of the payment is on the chain.
LEMMA MineChain ==
  ASSUME TypeOK, NonceUsed, PaidOnce, NEW p \in Payments, NEW v \in Versions,
         NEW out \in OnChain, net[p][v] = "pool", exec[p].nonce = ChainNonce,
         UNCHANGED exec, net' = [net EXCEPT ![p][v] = out]
  PROVE  NonceUsed' /\ PaidOnce'
<1>0. net \in NetStates /\ \A q \in Payments : exec[q].nonce \in Nat
  BY ZenonT(40) DEF TypeOK, NetStates
<1>1. \A q \in Payments, w \in Versions :
        net'[q][w] = IF q = p /\ w = v THEN out ELSE net[q][w]
  BY <1>0, ZenonT(40) DEF NetStates
<1>2. \A q \in Payments, w \in Versions :
        net'[q][w] \in OnChain <=> net[q][w] \in OnChain \/ (q = p /\ w = v)
  BY <1>1
<1>3. net[p][v] \notin OnChain
  BY ZenonT(40) DEF OnChain
<1>4. OnChainTxs' = OnChainTxs \cup {<<p, v>>}
  <2>1. \A t \in Payments \X Versions :
          net'[t[1]][t[2]] \in OnChain <=> net[t[1]][t[2]] \in OnChain \/ t = <<p, v>>
    BY <1>2
  <2> QED
    BY <2>1 DEF OnChainTxs
<1>5. <<p, v>> \notin OnChainTxs
  BY <1>3, ZenonT(40) DEF OnChainTxs
<1>6. ChainNonce' = ChainNonce + 1
  <2>1. PICK S : S = OnChainTxs
    BY ZenonT(40)
  <2>2. IsFiniteSet(S) /\ Cardinality(S) \in Nat /\ ChainNonce = 1 + Cardinality(S)
    BY <2>1, ChainNonceCounts
  <2>3. Cardinality(S \cup {<<p, v>>}) = Cardinality(S) + 1
    BY <1>5, <2>1, <2>2, FS_AddElement, ZenonT(40)
  <2>4. ChainNonce' = 1 + Cardinality(S \cup {<<p, v>>})
    BY <1>4, <2>1, ZenonT(40) DEF ChainNonce, OnChainTxs
  <2> QED
    BY <2>2, <2>3, <2>4, Counting, ZenonT(40)
<1>7. ChainNonce \in Nat \ {0}
  BY ChainNonceCounts
<1>8. \A w \in Versions : net[p][w] \notin OnChain
  BY <1>0, Counting, ZenonT(40) DEF NonceUsed
<1>9. PaidOnce'
  BY <1>2, <1>8, ZenonT(40) DEF PaidOnce
<1>10. ASSUME NEW q \in Payments, NEW w \in Versions, net'[q][w] \in OnChain
       PROVE  exec'[q].nonce # 0 /\ exec'[q].nonce < ChainNonce'
  <2>1. PICK n \in Nat \ {0} : n = ChainNonce
    BY <1>7, ZenonT(40)
  <2>2. CASE q = p
    <3>1. exec'[q].nonce = n /\ ChainNonce' = n + 1
      BY <1>6, <2>1, <2>2, ZenonT(40)
    <3>2. n \in Nat /\ n # 0
      BY <2>1, ZenonT(40)
    <3> QED
      BY <3>1, <3>2, Counting, ZenonT(40)
  <2>3. CASE q # p
    <3>1. net[q][w] \in OnChain
      BY <1>2, <1>10, <2>3, ZenonT(40)
    <3>2. exec[q].nonce # 0 /\ exec[q].nonce < n
      BY <2>1, <3>1 DEF NonceUsed, HasExec
    <3>3. n \in Nat /\ exec[q].nonce \in Nat /\ ChainNonce' = n + 1 /\ exec'[q] = exec[q]
      BY <1>0, <1>6, <2>1, ZenonT(40)
    <3> QED
      BY <3>2, <3>3, Counting, ZenonT(40)
  <2> QED
    BY <2>2, <2>3, ZenonT(40)
<1> QED
  BY <1>9, <1>10, ZenonT(40) DEF NonceUsed, HasExec

\* No payment is paid twice, with any number of workers that resume, sign and
\* send it concurrently and with any faults: all signings of a payment carry the
\* nonce of its one execution row, and the chain takes a nonce once.
THEOREM AlwaysPaidOnce == Spec => []PaidOnce
<1>1. Init => NonceUsed /\ PaidOnce
  <2> SUFFICES ASSUME Init
               PROVE  NonceUsed /\ PaidOnce
    BY ZenonT(40)
  <2>1. \A p \in Payments, v \in Versions : net[p][v] \notin OnChain
    BY ZenonT(40) DEF Init, OnChain
  <2> QED
    BY <2>1, ZenonT(40) DEF NonceUsed, PaidOnce
<1>2. NonceUsed /\ PaidOnce /\ TypeInv /\ [Next]_vars => NonceUsed' /\ PaidOnce'
  <2> SUFFICES ASSUME NonceUsed, PaidOnce, TypeInv, [Next]_vars
               PROVE  NonceUsed' /\ PaidOnce'
    OBVIOUS
  <2>1. CASE UNCHANGED vars
    <3>1. SameOnChain /\ \A p \in Payments : RowKept(p)
      BY <2>1, ZenonT(40) DEF vars, dbVars, SameOnChain, RowKept
    <3> QED
      BY <3>1, SameChain, ZenonT(40)
  <2>2. CASE Next
    <3>1. TypeOK /\ \A p \in Payments : RowKept(p)
      BY <2>2, ExecEffect, ZenonT(40) DEF TypeInv
    <3>2. CASE SameOnChain
      BY <3>1, <3>2, SameChain
    <3>3. ASSUME NEW p \in Payments, NEW v \in Versions,
                 net[p][v] = "pool", exec[p].nonce = ChainNonce, UNCHANGED exec,
                 \E out \in {"mined", "reverted"} : net' = [net EXCEPT ![p][v] = out]
          PROVE  NonceUsed' /\ PaidOnce'
      <4>1. PICK out \in OnChain : net' = [net EXCEPT ![p][v] = out]
        BY <3>3, ZenonT(40) DEF OnChain
      <4> QED
        BY <3>1, <3>3, <4>1, MineChain, ZenonT(40)
    <3> QED
      BY <2>2, <3>1, <3>2, <3>3, NetEffect, ZenonT(40)
  <2> QED
    BY <2>1, <2>2
<1> QED
  BY <1>1, <1>2, AlwaysTypeInv, PTL DEF Spec

=============================================================================
