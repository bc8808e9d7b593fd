-------------------------- MODULE SettlementProofs --------------------------
(***************************************************************************)
(* Theorems about Settlement, for any sets of requests, gateways, workers  *)
(* and receipts and any bounds.                                            *)
(***************************************************************************)
EXTENDS Settlement, FiniteSetTheorems, TLAPS

RowsType == row \in [Requests -> RequestRow]
SlotsType == slot \in [Slots -> SlotJob]

-----------------------------------------------------------------------------
(* What the row operators yield.  The enumerations stay folded while a       *)
(* record is rebuilt, so that no prover splits on them.                      *)

LEMMA Members ==
  /\ "none" \in Statuses /\ "processing" \in Statuses
  /\ "settled" \in Statuses /\ "retry_wait" \in Statuses
  /\ "dead" \in Statuses /\ "released" \in Statuses
  /\ "authorized" \in Statuses /\ "in_flight" \in Statuses
  /\ "settlement_pending" \in Statuses
  /\ "none" \in Leases /\ "live" \in Leases /\ "expired" \in Leases
  /\ "none" \in FailureClasses /\ "claim_expired" \in FailureClasses
  /\ "defect" \in FailureClasses /\ "transient" \in FailureClasses
  /\ "none" \in FailureCodes /\ "expired_before_dispatch" \in FailureCodes
  /\ "gateway_crash" \in FailureCodes /\ "reported" \in FailureCodes
BY DEF Statuses, Leases, FailureClasses, FailureCodes

LEMMA NewRowType == NewRow \in RequestRow
BY Members DEF NewRow, RequestRow

LEMMA ClaimedRowType ==
  ASSUME NEW q \in RequestRow, NEW o \in Owners
  PROVE  /\ ClaimedRow(q, o) \in RequestRow
         /\ ClaimedRow(q, o).claimOwner = o
         /\ ClaimedRow(q, o).revision = q.revision + 1
         /\ ClaimedRow(q, o).claimToken = q.revision + 1
         /\ ClaimedRow(q, o).status = "processing"
         /\ ClaimedRow(q, o).receipt = q.receipt
<1> DEFINE next == q.revision + 1
           again == q.attempts + 1
<1>1. next \in Nat /\ again \in Nat
  BY DEF RequestRow
<1>2. PICK u : u = [q EXCEPT !.status = "processing", !.revision = next, !.attempts = again]
  OBVIOUS
<1>3. PICK v : v = [u EXCEPT !.claimOwner = o, !.claimToken = next,
                             !.claimLease = "live", !.failureClass = "none"]
  OBVIOUS
<1>4. ClaimedRow(q, o) = v
  BY <1>2, <1>3 DEF ClaimedRow
<1> HIDE DEF next, again
<1>5. /\ u \in RequestRow /\ u.status = "processing" /\ u.revision = next
      /\ u.receipt = q.receipt
  <2>1. "processing" \in Statuses
    BY Members
  <2>2. QED
    BY <1>1, <1>2, <2>1 DEF RequestRow
<1>6. /\ v \in RequestRow /\ v.status = u.status /\ v.revision = u.revision
      /\ v.receipt = u.receipt /\ v.claimOwner = o /\ v.claimToken = next
  <2>1. "live" \in Leases /\ "none" \in FailureClasses
    BY Members
  <2>2. QED
    BY <1>1, <1>3, <1>5, <2>1 DEF RequestRow
<1>7. QED
  BY <1>4, <1>5, <1>6 DEF next

LEMMA SettledRowType ==
  ASSUME NEW q \in RequestRow
  PROVE  /\ SettledRow(q) \in RequestRow
         /\ SettledRow(q).status = "settled"
         /\ SettledRow(q).revision = q.revision + 1
         /\ SettledRow(q).receipt = q.receipt
<1> DEFINE next == q.revision + 1
<1>1. next \in Nat
  BY DEF RequestRow
<1>2. PICK u : u = [q EXCEPT !.status = "settled", !.revision = next]
  OBVIOUS
<1>3. PICK v : v = [u EXCEPT !.claimOwner = None, !.claimToken = None,
                             !.claimLease = "none"]
  OBVIOUS
<1>4. SettledRow(q) = v
  BY <1>2, <1>3 DEF SettledRow
<1> HIDE DEF next
<1>5. /\ u \in RequestRow /\ u.status = "settled" /\ u.revision = next
      /\ u.receipt = q.receipt
  <2>1. "settled" \in Statuses
    BY Members
  <2>2. QED
    BY <1>1, <1>2, <2>1 DEF RequestRow
<1>6. /\ v \in RequestRow /\ v.status = u.status /\ v.revision = u.revision
      /\ v.receipt = u.receipt
  <2>1. "none" \in Leases
    BY Members
  <2>2. QED
    BY <1>3, <1>5, <2>1 DEF RequestRow
<1>7. QED
  BY <1>4, <1>5, <1>6 DEF next

LEMMA RequeuedRowType ==
  ASSUME NEW q \in RequestRow
  PROVE  /\ RequeuedRow(q) \in RequestRow
         /\ RequeuedRow(q).status = "retry_wait"
         /\ RequeuedRow(q).revision = q.revision + 1
         /\ RequeuedRow(q).receipt = q.receipt
<1> DEFINE next == q.revision + 1
<1>1. next \in Nat
  BY DEF RequestRow
<1>2. PICK u : u = [q EXCEPT !.status = "retry_wait", !.revision = next]
  OBVIOUS
<1>3. PICK v : v = [u EXCEPT !.claimOwner = None, !.claimToken = None,
                             !.claimLease = "none", !.failureClass = "claim_expired"]
  OBVIOUS
<1>4. RequeuedRow(q) = v
  BY <1>2, <1>3 DEF RequeuedRow
<1> HIDE DEF next
<1>5. /\ u \in RequestRow /\ u.status = "retry_wait" /\ u.revision = next
      /\ u.receipt = q.receipt
  <2>1. "retry_wait" \in Statuses
    BY Members
  <2>2. QED
    BY <1>1, <1>2, <2>1 DEF RequestRow
<1>6. /\ v \in RequestRow /\ v.status = u.status /\ v.revision = u.revision
      /\ v.receipt = u.receipt
  <2>1. "none" \in Leases /\ "claim_expired" \in FailureClasses
    BY Members
  <2>2. QED
    BY <1>3, <1>5, <2>1 DEF RequestRow
<1>7. QED
  BY <1>4, <1>5, <1>6 DEF next

LEMMA FailedRowType ==
  ASSUME NEW q \in RequestRow, NEW dead \in BOOLEAN,
         NEW e \in FailureClasses
  PROVE  /\ FailedRow(q, dead, e) \in RequestRow
         /\ FailedRow(q, dead, e).status \in {"dead", "retry_wait"}
         /\ FailedRow(q, dead, e).status = "dead" => dead
         /\ FailedRow(q, dead, e).revision = q.revision + 1
         /\ FailedRow(q, dead, e).receipt = q.receipt
<1> DEFINE next == q.revision + 1
           status == IF dead THEN "dead" ELSE "retry_wait"
<1>1. next \in Nat
  BY DEF RequestRow
<1>2. PICK u : u = [q EXCEPT !.status = status, !.revision = next]
  OBVIOUS
<1>3. PICK v : v = [u EXCEPT !.claimOwner = None, !.claimToken = None,
                             !.claimLease = "none", !.failureClass = e]
  OBVIOUS
<1>4. FailedRow(q, dead, e) = v
  BY <1>2, <1>3 DEF FailedRow
<1>5. status \in Statuses /\ status \in {"dead", "retry_wait"} /\ (status = "dead" => dead)
  BY Members
<1> HIDE DEF next, status
<1>6. /\ u \in RequestRow /\ u.status = status /\ u.revision = next
      /\ u.receipt = q.receipt
  BY <1>1, <1>2, <1>5 DEF RequestRow
<1>7. /\ v \in RequestRow /\ v.status = u.status /\ v.revision = u.revision
      /\ v.receipt = u.receipt
  <2>1. "none" \in Leases
    BY Members
  <2>2. QED
    BY <1>3, <1>6, <2>1 DEF RequestRow
<1>8. QED
  BY <1>4, <1>5, <1>6, <1>7 DEF next

\* The attempt a claim carries never is a number (claimPending).
LEMMA ClaimAttemptIsNaN ==
  ASSUME NEW q
  PROVE  ClaimAttempt(q) = NaN
BY DEF ClaimAttempt, NumberOf, ReturnedRow

LEMMA ClaimOfType ==
  ASSUME NEW r \in Requests, NEW q \in RequestRow, q.claimOwner \in Owners,
         q.claimToken \in Nat
  PROVE  ClaimOf(r, q) \in Claim
BY ClaimAttemptIsNaN DEF ClaimOf, Claim, RequestRow

LEMMA ClaimsOnType ==
  ASSUME RowsType, NEW R \in SUBSET Requests, NEW o \in Owners
  PROVE  ClaimsOn(R, o) \subseteq Claim
<1>1. ASSUME NEW r \in R
      PROVE  ClaimOf(r, ClaimedRow(row[r], o)) \in Claim
  <2>1. row[r] \in RequestRow /\ row[r].revision + 1 \in Nat
    BY <1>1 DEF RowsType, RequestRow
  <2>2. QED
    BY <1>1, <2>1, ClaimedRowType, ClaimOfType
<1>2. QED
  BY <1>1 DEF ClaimsOn

LEMMA UpdateType ==
  ASSUME RowsType, NEW r \in Requests, NEW q \in RequestRow, Update(r, q)
  PROVE  RowsType'
BY DEF RowsType, Update

LEMMA ClaimRowsType ==
  ASSUME RowsType, NEW R \in SUBSET Requests, NEW o \in Owners, ClaimRows(R, o)
  PROVE  RowsType'
BY ClaimedRowType DEF RowsType, ClaimRows

LEMMA GotoType ==
  ASSUME SlotsType, NEW s \in Slots, NEW job \in SlotJob, Goto(s, job)
  PROVE  SlotsType'
BY DEF SlotsType, Goto

LEMMA IdleJobType == IdleJob \in SlotJob
BY DEF IdleJob, SlotJob, Phases

-----------------------------------------------------------------------------
(* Type correctness *)

\* The conjuncts of TypeOK for the variables with no structure of their own.
RestType ==
  /\ reservation \in [Requests -> {"none", "active", "settled", "released"}]
  /\ charges \in [Requests -> Nat]
  /\ usage \subseteq Requests
  /\ outbox \subseteq (Requests \X (Nat \cup {NaN}))
  /\ sig \in [Gateways -> Signalling]
  /\ accepted \subseteq (Requests \X Receipts)
  /\ expired \subseteq (Requests \X Open)
  /\ ops \in [OperationIds -> Command \cup {NoCommand}]
  /\ faults \in Nat

TypeInv == RowsType /\ SlotsType /\ RestType

LEMMA TypeParts == TypeInv <=> TypeOK
BY DEF TypeInv, TypeOK, RowsType, SlotsType, RestType

\* A gateway, the recovery job or an administrator rewrites these columns of a
\* row; revision is the only one it computes.
LEMMA SignalledRowType ==
  ASSUME NEW q \in RequestRow, NEW status \in Statuses, NEW lease \in Leases,
         NEW owner \in Gateways \cup {None}, NEW started \in BOOLEAN,
         NEW receipt \in Receipts \cup {None}, NEW code \in FailureCodes,
         NEW attempts \in Nat
  PROVE  /\ [q EXCEPT !.status = status, !.lease = lease] \in RequestRow
         /\ [q EXCEPT !.lease = lease] \in RequestRow
         /\ [q EXCEPT !.claimLease = lease] \in RequestRow
         /\ [q EXCEPT !.lease = lease, !.revision = @ + 1] \in RequestRow
         /\ [q EXCEPT !.status = status, !.revision = @ + 1] \in RequestRow
         /\ [q EXCEPT !.status = status, !.leaseOwner = owner,
                      !.lease = lease, !.upstreamStarted = started,
                      !.revision = @ + 1] \in RequestRow
         /\ [q EXCEPT !.status = status, !.receipt = receipt,
                      !.lease = lease, !.revision = @ + 1] \in RequestRow
         /\ [q EXCEPT !.status = status, !.lease = lease,
                      !.failureCode = code, !.revision = @ + 1] \in RequestRow
         /\ [q EXCEPT !.status = status, !.attempts = attempts,
                      !.failureCode = code, !.revision = @ + 1] \in RequestRow
<1> DEFINE next == q.revision + 1
<1>1. next \in Nat
  BY DEF RequestRow
<1> HIDE DEF next
<1>2. /\ [q EXCEPT !.status = status, !.lease = lease] \in RequestRow
      /\ [q EXCEPT !.lease = lease] \in RequestRow
      /\ [q EXCEPT !.claimLease = lease] \in RequestRow
  BY DEF RequestRow
<1>3. /\ [q EXCEPT !.lease = lease, !.revision = next] \in RequestRow
      /\ [q EXCEPT !.status = status, !.revision = next] \in RequestRow
  BY <1>1 DEF RequestRow
<1>4. [q EXCEPT !.status = status, !.leaseOwner = owner, !.lease = lease,
                !.upstreamStarted = started, !.revision = next] \in RequestRow
  BY <1>1 DEF RequestRow
<1>5. [q EXCEPT !.status = status, !.receipt = receipt, !.lease = lease,
                !.revision = next] \in RequestRow
  BY <1>1 DEF RequestRow
<1>6. [q EXCEPT !.status = status, !.lease = lease, !.failureCode = code,
                !.revision = next] \in RequestRow
  BY <1>1 DEF RequestRow
<1>7. [q EXCEPT !.status = status, !.attempts = attempts,
                !.failureCode = code, !.revision = next] \in RequestRow
  BY <1>1 DEF RequestRow
<1>8. QED
  BY <1>2, <1>3, <1>4, <1>5, <1>6, <1>7, Zenon DEF next

\* A gateway inside the handler has a request and a receipt.
LEMMA SignalType ==
  ASSUME TypeInv, NEW g \in Gateways, sig[g].phase # "idle"
  PROVE  sig[g].request \in Requests /\ sig[g].receipt \in Receipts
<1>1. sig[g] \in [phase : {"read", "lost"}, request : Requests,
                  receipt : Receipts]
  BY DEF TypeInv, RestType, Signalling, NoSignal
<1>2. QED
  BY <1>1

\* The gateway's actions.
LEMMA GatewayType ==
  ASSUME TypeInv, Gateway
  PROVE  TypeInv'
<1> USE DEF TypeInv
<1>1. ASSUME NEW r \in Requests, Authorize(r)
      PROVE  TypeInv'
  <2>1. RowsType'
    BY <1>1, Members, SignalledRowType, UpdateType DEF Authorize, RowsType
  <2>2. QED
    BY <1>1, <2>1 DEF Authorize, SlotsType, RestType, gatewayState
<1>2. ASSUME NEW r \in Requests, RequestFailed(r)
      PROVE  TypeInv'
  <2>1. RowsType'
    BY <1>2, Members, SignalledRowType, UpdateType DEF RequestFailed, RowsType
  <2>2. QED
    BY <1>2, <2>1 DEF RequestFailed, ReleaseAll, SlotsType, RestType, gatewayState
<1>3. ASSUME NEW r \in Requests, LeaseExpires(r)
      PROVE  TypeInv'
  <2>1. RowsType'
    BY <1>3, Members, SignalledRowType, UpdateType DEF LeaseExpires, RowsType
  <2>2. QED
    BY <1>3, <2>1 DEF LeaseExpires, SlotsType, RestType, money,
                      gatewayState
<1>4. ASSUME NEW g \in Gateways, NEW r \in Requests, UpstreamStarted(g, r)
      PROVE  TypeInv'
  <2>1. RowsType'
    BY <1>4, Members, SignalledRowType, UpdateType
    DEF UpstreamStarted, RowsType
  <2>2. QED
    BY <1>4, <2>1 DEF UpstreamStarted, SlotsType, RestType, money, gatewayState
<1>5. ASSUME NEW g \in Gateways, NEW r \in Requests, LeaseRenewed(g, r)
      PROVE  TypeInv'
  <2>1. RowsType'
    BY <1>5, Members, SignalledRowType, UpdateType DEF LeaseRenewed, RowsType
  <2>2. QED
    BY <1>5, <2>1 DEF LeaseRenewed, SlotsType, RestType, money,
                      gatewayState
<1>6. ASSUME NEW g \in Gateways, NEW r \in Requests, NEW x \in Receipts,
             SucceededRead(g, r, x)
      PROVE  TypeInv'
  <2>1. accepted' \subseteq (Requests \X Receipts)
    BY <1>6 DEF SucceededRead, Accept, RestType
  <2>2. sig' \in [Gateways -> Signalling]
    BY <1>6 DEF SucceededRead, RestType, Signalling
  <2>3. QED
    BY <1>6, <2>1, <2>2 DEF SucceededRead, RowsType, SlotsType, RestType,
                            money
<1>7. ASSUME NEW g \in Gateways, SucceededCas(g)
      PROVE  TypeInv'
  <2>1. sig' \in [Gateways -> Signalling]
    BY <1>7 DEF SucceededCas, RestType, Signalling, NoSignal
  <2>2. CASE SucceedsFrom(sig[g].request)
    <3> DEFINE r == sig[g].request
               x == sig[g].receipt
    <3>1. r \in Requests /\ x \in Receipts
      BY <1>7, SignalType DEF SucceededCas
    <3>2. RowsType'
      BY <1>7, <2>2, <3>1, Members, SignalledRowType, UpdateType
      DEF SucceededCas, RowsType
    <3>3. QED
      BY <1>7, <2>1, <2>2, <3>1, <3>2
      DEF SucceededCas, Accept, SlotsType, RestType, money
  <2>3. CASE ~SucceedsFrom(sig[g].request)
    BY <1>7, <2>1, <2>3 DEF SucceededCas, RowsType, SlotsType, RestType,
                            money
  <2>4. QED
    BY <2>2, <2>3
<1>8. ASSUME NEW g \in Gateways, SucceededReread(g)
      PROVE  TypeInv'
  <2>1. accepted' \subseteq (Requests \X Receipts)
    BY <1>8, SignalType DEF SucceededReread, Accept, RestType
  <2>2. sig' \in [Gateways -> Signalling]
    BY <1>8 DEF SucceededReread, RestType, Signalling
  <2>3. QED
    BY <1>8, <2>1, <2>2 DEF SucceededReread, RowsType, SlotsType, RestType,
                            money
<1>9. QED
  BY <1>1, <1>2, <1>3, <1>4, <1>5, <1>6, <1>7, <1>8 DEF Gateway

\* A job's new phase, claims and error.
LEMMA JobType ==
  ASSUME NEW job \in SlotJob, NEW phase \in Phases,
         NEW claims \in SUBSET Claim, NEW found \in SUBSET Claim,
         NEW e \in {"none", "defect", "transient"}
  PROVE  /\ [job EXCEPT !.phase = phase, !.claims = claims] \in SlotJob
         /\ [job EXCEPT !.phase = phase, !.found = found] \in SlotJob
         /\ [job EXCEPT !.phase = phase, !.found = found, !.claims = claims]
              \in SlotJob
         /\ [job EXCEPT !.phase = phase, !.found = found, !.error = e]
              \in SlotJob
BY DEF SlotJob

LEMMA PhaseMembers ==
  /\ "claimed" \in Phases /\ "batch" \in Phases /\ "batch_tx" \in Phases
  /\ "single" \in Phases /\ "single_tx" \in Phases /\ "failing" \in Phases
BY DEF Phases

\* The steps of a settlement job.
LEMMA JobStepType ==
  ASSUME TypeInv, NEW s \in Slots, JobStep(s)
  PROVE  TypeInv'
<1> USE DEF TypeInv
<1> DEFINE job == slot[s]
<1>0. job \in SlotJob /\ job.claims \subseteq Claim /\ job.found \subseteq Claim
  BY DEF SlotsType, SlotJob
<1>1. CASE ClaimExtras(s)
  <2>1. PICK R \in SUBSET {r \in Requests : Claimable(r)} :
          /\ ClaimRows(R, SlotOwner[s])
          /\ Goto(s, [job EXCEPT
                        !.phase = IF R = {} THEN "single" ELSE "batch",
                        !.claims = @ \cup ClaimsOn(R, SlotOwner[s])])
    BY <1>1 DEF ClaimExtras
  <2>2. R \in SUBSET Requests /\ SlotOwner[s] \in Owners
    BY OwnersAssumption
  <2>3. job.claims \cup ClaimsOn(R, SlotOwner[s]) \in SUBSET Claim
    BY <1>0, <2>2, ClaimsOnType
  <2>4. (IF R = {} THEN "single" ELSE "batch") \in Phases
    BY PhaseMembers
  <2>5. RowsType' /\ SlotsType'
    BY <1>0, <2>1, <2>2, <2>3, <2>4, ClaimRowsType, GotoType, JobType
  <2>6. QED
    BY <1>1, <2>5 DEF ClaimExtras, RestType, money, gatewayState
<1>2. CASE SettleRead(s)
  <2>1. {c \in job.claims : Fence(c)} \in SUBSET Claim
    BY <1>0
  <2>2. (IF job.phase = "batch" THEN "batch_tx" ELSE "single_tx") \in Phases
    BY PhaseMembers
  <2>3. SlotsType'
    BY <1>0, <1>2, <2>1, <2>2, GotoType, JobType DEF SettleRead
  <2>4. QED
    BY <1>2, <2>3 DEF SettleRead, RowsType, RestType, money,
                      gatewayState
<1>3. CASE SettleCommit(s)
  <2> DEFINE R == {c.request : c \in job.found}
  <2>1. R \in SUBSET Requests
    BY <1>0 DEF Claim
  <2>2. SettleRequests(R) /\ SlotsType'
    BY <1>3, IdleJobType, GotoType DEF SettleCommit
  <2> HIDE DEF R
  <2>3. RowsType'
    BY <2>1, <2>2, SettledRowType DEF SettleRequests, RowsType
  <2>4. /\ reservation' \in
             [Requests -> {"none", "active", "settled", "released"}]
        /\ charges' \in [Requests -> Nat]
        /\ usage' \subseteq Requests
    BY <2>1, <2>2 DEF SettleRequests, RestType
  <2>5. QED
    BY <1>3, <2>2, <2>3, <2>4 DEF SettleCommit, RestType,
                                  gatewayState
<1>4. CASE FinishFailure(s)
  <2>1. PICK c \in job.claims :
          LET dead == GivesUp(job.error, c.attempt) IN
          /\ row' = IF Fence(c)
                    THEN [row EXCEPT ![c.request] =
                            FailedRow(@, dead, job.error)]
                    ELSE row
          /\ outbox' = IF Announces(c, dead)
                       THEN outbox \cup DeathNotice(c)
                       ELSE outbox
    BY <1>4 DEF FinishFailure
  <2>2. c.request \in Requests /\ c.attempt \in Nat \cup {NaN}
    BY <1>0 DEF Claim
  <2>3. job.error \in FailureClasses
    BY <1>0 DEF SlotJob, FailureClasses
  <2>4. GivesUp(job.error, c.attempt) \in BOOLEAN
    BY DEF GivesUp
  <2>5. RowsType'
    BY <2>1, <2>2, <2>3, <2>4, FailedRowType DEF RowsType
  <2>6. outbox' \subseteq (Requests \X (Nat \cup {NaN}))
    BY <2>1, <2>2 DEF RestType, DeathNotice
  <2>7. SlotsType'
    BY <1>4, IdleJobType, GotoType DEF FinishFailure
  <2>8. QED
    BY <1>4, <2>5, <2>6, <2>7 DEF FinishFailure, RestType, money, gatewayState
<1>5. ASSUME NEW e \in {"defect", "transient"}, SettleThrow(s, e)
      PROVE  TypeInv'
  <2>1. {c \in job.claims : c.request = job.notified} \in SUBSET Claim
    BY <1>0
  <2>2. CASE job.phase = "batch_tx"
    BY <1>0, <1>5, <2>1, <2>2, PhaseMembers, JobType, GotoType
    DEF SettleThrow, RowsType, RestType, money, gatewayState
  <2>3. CASE job.phase = "single_tx"
    BY <1>0, <1>5, <2>3, PhaseMembers, JobType, GotoType
    DEF SettleThrow, RowsType, RestType, money, gatewayState
  <2>4. QED
    BY <1>5, <2>2, <2>3 DEF SettleThrow
<1>6. QED
  BY <1>1, <1>2, <1>3, <1>4, <1>5 DEF JobStep

LEMMA RequeueType ==
  ASSUME RowsType, NEW R \in SUBSET Requests, Requeue(R)
  PROVE  RowsType'
BY RequeuedRowType DEF RowsType, Requeue

\* The other steps of the workers.
LEMMA WorkerType ==
  ASSUME TypeInv, Worker
  PROVE  TypeInv'
<1> USE DEF TypeInv
<1>1. ASSUME NEW s \in Slots, NEW r \in Requests, ClaimNotified(s, r)
      PROVE  TypeInv'
  <2>1. {r} \in SUBSET Requests /\ SlotOwner[s] \in Owners
    BY OwnersAssumption
  <2>2. ClaimsOn({r}, SlotOwner[s]) \in SUBSET Claim
    BY <2>1, ClaimsOnType
  <2>3. [phase |-> "claimed", notified |-> r,
         claims |-> ClaimsOn({r}, SlotOwner[s]),
         found |-> {}, error |-> "none"] \in SlotJob
    BY <2>2, PhaseMembers DEF SlotJob
  <2>4. RowsType' /\ SlotsType'
    BY <1>1, <2>1, <2>3, ClaimRowsType, GotoType DEF ClaimNotified
  <2>5. QED
    BY <1>1, <2>4 DEF ClaimNotified, RestType, money, gatewayState
<1>2. ASSUME NEW s \in Slots, Crash(s)
      PROVE  TypeInv'
  <2>1. SlotsType'
    BY <1>2, IdleJobType, GotoType DEF Crash
  <2>2. QED
    BY <1>2, <2>1 DEF Crash, Fault, RowsType, RestType, money,
                      gatewayState
<1>3. ASSUME NEW o \in Owners, AbandonOwnedClaims(o)
      PROVE  TypeInv'
  <2>1. RowsType'
    BY <1>3, RequeueType DEF AbandonOwnedClaims
  <2>2. QED
    BY <1>3, <2>1 DEF AbandonOwnedClaims, Fault, SlotsType, RestType, money, gatewayState
<1>4. ASSUME NEW r \in Requests, ClaimExpires(r)
      PROVE  TypeInv'
  <2>1. RowsType'
    BY <1>4, Members, SignalledRowType, UpdateType DEF ClaimExpires, RowsType
  <2>2. (IF Holders(r) = {} THEN 0 ELSE 1) \in Nat
    OBVIOUS
  <2>3. faults' \in Nat
    BY <1>4, <2>2 DEF ClaimExpires, Fault, RestType
  <2>4. QED
    BY <1>4, <2>1, <2>3 DEF ClaimExpires, SlotsType, RestType, money, gatewayState
<1>5. QED
  BY <1>1, <1>2, <1>3, <1>4, JobStepType DEF Worker

LEMMA RecoveryType ==
  ASSUME TypeInv, Recovery
  PROVE  TypeInv'
<1> USE DEF TypeInv
<1>1. CASE RequeueExpiredClaims
  <2>1. RowsType'
    BY <1>1, RequeueType DEF RequeueExpiredClaims
  <2>2. QED
    BY <1>1, <2>1 DEF RequeueExpiredClaims, SlotsType, RestType, money, gatewayState
<1>2. ASSUME NEW st \in Open, ListExpired(st)
      PROVE  TypeInv'
  BY <1>2 DEF ListExpired, RowsType, SlotsType, RestType, money,
              gatewayState
<1>3. ASSUME NEW st \in Open, NEW r \in Requests, RecoverRelease(r, st)
      PROVE  TypeInv'
  <2> DEFINE code == IF st = "authorized" THEN "expired_before_dispatch"
                                          ELSE "gateway_crash"
  <2>1. code \in FailureCodes
    BY Members
  <2>2. \/ Update(r, [row[r] EXCEPT !.status = "released", !.lease = "none",
                                   !.failureCode = code, !.revision = @ + 1])
        \/ UNCHANGED row
    BY <1>3 DEF RecoverRelease
  <2> HIDE DEF code
  <2>3. RowsType'
    BY <2>1, <2>2, Members, SignalledRowType, UpdateType DEF RowsType
  <2>4. QED
    BY <1>3, <2>3 DEF RecoverRelease, ReleaseAll, SlotsType, RestType, gatewayState
<1>4. QED
  BY <1>1, <1>2, <1>3 DEF Recovery

LEMMA ReviewType ==
  ASSUME TypeInv, Review
  PROVE  TypeInv'
<1> USE DEF TypeInv
<1>1. PICK o \in OperationIds, r \in Requests :
        \E seen \in 0..row[r].revision :
          RetryDead(o, r, seen) \/ AbandonDead(o, r, seen)
  BY DEF Review
<1>2. PICK seen \in 0..row[r].revision :
        RetryDead(o, r, seen) \/ AbandonDead(o, r, seen)
  BY <1>1
<1>3. row[r] \in RequestRow /\ seen \in Nat /\ 0 \in Nat
  BY DEF RowsType, RequestRow
<1>4. CASE RetryDead(o, r, seen)
  <2>1. RowsType'
    BY <1>3, <1>4, Members, SignalledRowType, UpdateType DEF RetryDead
  <2>2. ops' \in [OperationIds -> Command \cup {NoCommand}]
    BY <1>3, <1>4 DEF RetryDead, RestType, Command
  <2>3. QED
    BY <1>4, <2>1, <2>2 DEF RetryDead, SlotsType, RestType, money, gatewayState
<1>5. CASE AbandonDead(o, r, seen)
  <2>1. RowsType'
    BY <1>3, <1>5, Members, SignalledRowType, UpdateType DEF AbandonDead
  <2>2. ops' \in [OperationIds -> Command \cup {NoCommand}]
    BY <1>3, <1>5 DEF AbandonDead, RestType, Command
  <2>3. QED
    BY <1>5, <2>1, <2>2 DEF AbandonDead, ReleaseAll, SlotsType, RestType, gatewayState
<1>6. QED
  BY <1>2, <1>4, <1>5

LEMMA StutterType ==
  ASSUME TypeInv, UNCHANGED vars
  PROVE  TypeInv'
BY DEF TypeInv, RowsType, SlotsType, RestType, vars

LEMMA TypeStep ==
  ASSUME TypeInv, [Next]_vars
  PROVE  TypeInv'
BY GatewayType, WorkerType, RecoveryType, ReviewType, StutterType DEF Next

LEMMA InitType == Init => TypeInv
<1>1. NewRow \in RequestRow /\ IdleJob \in SlotJob
  BY NewRowType, IdleJobType
<1>2. QED
  BY <1>1 DEF Init, TypeInv, RowsType, SlotsType, RestType, Signalling

\* Every variable has its type, in every state, for any constants.
THEOREM TypeCorrect == Spec => []TypeOK
<1>1. QED
  BY InitType, TypeStep, TypeParts, PTL DEF Spec

-----------------------------------------------------------------------------
(* The transition table: what one step of the system can do to one request.  *)
(* The safety theorems are read off this table, not off the 21 actions.      *)

ReceiptKept(r) == row'[r].receipt = row[r].receipt

CapturesKept(r) == charges'[r] = charges[r] /\ (r \in usage' <=> r \in usage)

MoneyKept(r) == reservation'[r] = reservation[r] /\ CapturesKept(r)

HoldBack(r) ==
  /\ reservation[r] = "active" /\ reservation'[r] = "released"
  /\ CapturesKept(r)

Rests(r) == row'[r].status = Status(r) /\ ReceiptKept(r) /\ MoneyKept(r)

IsHeld(r) ==
  /\ Status(r) = "none" /\ row'[r].status = "authorized" /\ ReceiptKept(r)
  /\ reservation'[r] = "active" /\ CapturesKept(r)

Dispatched(r) ==
  /\ Status(r) \in Open /\ row'[r].status = "in_flight"
  /\ ReceiptKept(r) /\ MoneyKept(r)

IsOwed(r) ==
  /\ Status(r) \in Open /\ row'[r].status = "settlement_pending"
  /\ row'[r].receipt \in Receipts /\ MoneyKept(r)

IsReturned(r) ==
  /\ Status(r) \in Open /\ row'[r].status = "released"
  /\ ReceiptKept(r) /\ HoldBack(r)

Noticed(r) == \E k \in outbox : k[1] = r
Reviewed(r) == \E o \in OperationIds : ops[o].request = r

Works(r) ==
  /\ \/ Claimable(r) /\ row'[r].status = "processing"
     \/ /\ Status(r) = "processing"
        /\ \/ row'[r].status = "retry_wait"
           \/ row'[r].status = "dead" /\ Noticed(r)'
     \/ Status(r) = "dead" /\ row'[r].status = "retry_wait" /\ Reviewed(r)'
  /\ ReceiptKept(r) /\ MoneyKept(r)

IsCharged(r) ==
  /\ Status(r) = "processing" /\ row'[r].status = "settled"
  /\ ReceiptKept(r)
  /\ reservation[r] = "active" /\ reservation'[r] = "settled"
  /\ charges'[r] = charges[r] + 1 /\ r \in usage'

IsForgiven(r) ==
  /\ Status(r) = "dead" /\ row'[r].status = "released"
  /\ ReceiptKept(r) /\ HoldBack(r) /\ Forgiven(r)'

Table(r) ==
  \/ Rests(r) \/ IsHeld(r) \/ Dispatched(r) \/ IsOwed(r) \/ IsReturned(r)
  \/ Works(r) \/ IsCharged(r) \/ IsForgiven(r)

\* No money and no receipt of r moves.
Quiet(r) == Rests(r) \/ Dispatched(r) \/ Works(r)

RevisionMoves(r) ==
  /\ row'[r].revision >= row[r].revision
  /\ Status(r) # "none" /\ row'[r].status # Status(r)
       => row'[r].revision > row[r].revision

\* Only a settlement transaction moves several requests at once.
FollowsTable ==
  /\ \A r \in Requests : Table(r) /\ RevisionMoves(r)
  /\ \/ \E r \in Requests : \A k \in Requests \ {r} : Quiet(k)
     \/ \A r \in Requests : Quiet(r) \/ IsCharged(r)

\* Steps that write neither rows nor money.
LEMMA UntouchedTable ==
  ASSUME TypeInv, row' = row, UNCHANGED money
  PROVE  FollowsTable
<1>1. \A r \in Requests : row[r].revision \in Nat
  BY DEF TypeInv, RowsType, RequestRow
<1>2. QED
  BY <1>1 DEF FollowsTable, Table, Quiet, Rests, RevisionMoves, ReceiptKept,
              MoneyKept, CapturesKept, money, Status

\* Steps that update one row.
LEMMA UpdateTable ==
  ASSUME TypeInv, NEW r \in Requests, NEW q, Update(r, q),
         \A k \in Requests \ {r} : MoneyKept(k),
         Table(r),
         \/ q.revision = row[r].revision + 1
         \/ /\ q.revision = row[r].revision
            /\ Status(r) = "none" \/ q.status = Status(r)
  PROVE  FollowsTable
<1>1. \A k \in Requests \ {r} : row'[k] = row[k]
  BY DEF Update, TypeInv, RowsType
<1>2. \A k \in Requests \ {r} : Rests(k)
  BY <1>1 DEF Rests, ReceiptKept, Status
<1>3. row'[r] = q
  BY DEF Update, TypeInv, RowsType
<1>4. \A k \in Requests : row[k].revision \in Nat
  BY DEF TypeInv, RowsType, RequestRow
<1>5. \A k \in Requests : RevisionMoves(k)
  BY <1>1, <1>3, <1>4 DEF RevisionMoves, Status
<1>6. \A k \in Requests \ {r} : Table(k) /\ Quiet(k)
  BY <1>2 DEF Table, Quiet
<1>7. QED
  BY <1>5, <1>6 DEF FollowsTable

LEMMA GatewayTable ==
  ASSUME TypeInv, Gateway
  PROVE  FollowsTable
<1>0. \A r \in Requests : row[r] \in RequestRow
  BY DEF TypeInv, RowsType
<1>1. ASSUME NEW r \in Requests, Authorize(r)
      PROVE  FollowsTable
  <2> DEFINE q == [row[r] EXCEPT !.status = "authorized", !.lease = "live"]
  <2>1. /\ q.status = "authorized" /\ q.receipt = row[r].receipt
        /\ q.revision = row[r].revision /\ row[r].revision \in Nat
    BY <1>0 DEF RequestRow
  <2>2. Update(r, q)
    BY <1>1 DEF Authorize
  <2>3. row'[r] = q
    BY <2>2 DEF Update, TypeInv, RowsType
  <2> HIDE DEF q
  <2>4. /\ reservation'[r] = "active"
        /\ \A k \in Requests \ {r} : reservation'[k] = reservation[k]
        /\ \A k \in Requests : CapturesKept(k)
    BY <1>1 DEF Authorize, CapturesKept, TypeInv, RestType
  <2>5. IsHeld(r) /\ Status(r) = "none"
    BY <1>1, <2>1, <2>3, <2>4 DEF Authorize, IsHeld, ReceiptKept
  <2>6. QED
    BY <2>1, <2>2, <2>4, <2>5, UpdateTable DEF Table, MoneyKept
<1>2. ASSUME NEW r \in Requests, RequestFailed(r)
      PROVE  FollowsTable
  <2> DEFINE q == [row[r] EXCEPT !.status = "released", !.lease = "none",
                                 !.failureCode = "reported",
                                 !.revision = @ + 1]
  <2>1. /\ q.status = "released" /\ q.receipt = row[r].receipt
        /\ q.revision = row[r].revision + 1 /\ row[r].revision \in Nat
    BY <1>0 DEF RequestRow
  <2>2. Update(r, q)
    BY <1>2 DEF RequestFailed
  <2>3. row'[r] = q
    BY <2>2 DEF Update, TypeInv, RowsType
  <2> HIDE DEF q
  <2>4. /\ HoldBack(r)
        /\ \A k \in Requests \ {r} : MoneyKept(k)
    BY <1>2 DEF RequestFailed, CanRelease, ReleaseAll, HoldBack, MoneyKept,
                CapturesKept, TypeInv, RestType
  <2>5. IsReturned(r)
    BY <1>2, <2>1, <2>3, <2>4 DEF RequestFailed, IsReturned, ReceiptKept
  <2>6. QED
    BY <2>1, <2>2, <2>4, <2>5, UpdateTable DEF Table
<1>3. ASSUME NEW r \in Requests, LeaseExpires(r)
      PROVE  FollowsTable
  <2> DEFINE q == [row[r] EXCEPT !.lease = "expired"]
  <2>1. /\ q.status = Status(r) /\ q.receipt = row[r].receipt
        /\ q.revision = row[r].revision /\ row[r].revision \in Nat
    BY <1>0 DEF RequestRow, Status
  <2>2. Update(r, q)
    BY <1>3 DEF LeaseExpires
  <2>3. row'[r] = q
    BY <2>2 DEF Update, TypeInv, RowsType
  <2> HIDE DEF q
  <2>4. \A k \in Requests : MoneyKept(k)
    BY <1>3 DEF LeaseExpires, money, MoneyKept, CapturesKept
  <2>5. Rests(r)
    BY <2>1, <2>3, <2>4 DEF Rests, ReceiptKept
  <2>6. QED
    BY <2>1, <2>2, <2>4, <2>5, UpdateTable DEF Table
<1>4. ASSUME NEW g \in Gateways, NEW r \in Requests, UpstreamStarted(g, r)
      PROVE  FollowsTable
  <2> DEFINE q == [row[r] EXCEPT !.status = "in_flight", !.leaseOwner = g,
                                 !.lease = "live", !.upstreamStarted = TRUE,
                                 !.revision = @ + 1]
  <2>1. /\ q.status = "in_flight" /\ q.receipt = row[r].receipt
        /\ q.revision = row[r].revision + 1 /\ row[r].revision \in Nat
    BY <1>0 DEF RequestRow
  <2>2. Update(r, q)
    BY <1>4 DEF UpstreamStarted
  <2>3. row'[r] = q
    BY <2>2 DEF Update, TypeInv, RowsType
  <2> HIDE DEF q
  <2>4. \A k \in Requests : MoneyKept(k)
    BY <1>4 DEF UpstreamStarted, money, MoneyKept, CapturesKept
  <2>5. Dispatched(r)
    BY <1>4, <2>1, <2>3, <2>4 DEF UpstreamStarted, Dispatched, ReceiptKept
  <2>6. QED
    BY <2>1, <2>2, <2>4, <2>5, UpdateTable DEF Table
<1>5. ASSUME NEW g \in Gateways, NEW r \in Requests, LeaseRenewed(g, r)
      PROVE  FollowsTable
  <2> DEFINE q == [row[r] EXCEPT !.lease = "live", !.revision = @ + 1]
  <2>1. /\ q.status = Status(r) /\ q.receipt = row[r].receipt
        /\ q.revision = row[r].revision + 1 /\ row[r].revision \in Nat
    BY <1>0 DEF RequestRow, Status
  <2>2. Update(r, q)
    BY <1>5 DEF LeaseRenewed
  <2>3. row'[r] = q
    BY <2>2 DEF Update, TypeInv, RowsType
  <2> HIDE DEF q
  <2>4. \A k \in Requests : MoneyKept(k)
    BY <1>5 DEF LeaseRenewed, money, MoneyKept, CapturesKept
  <2>5. Rests(r)
    BY <2>1, <2>3, <2>4 DEF Rests, ReceiptKept
  <2>6. QED
    BY <2>1, <2>2, <2>4, <2>5, UpdateTable DEF Table
<1>6. ASSUME NEW g \in Gateways, NEW r \in Requests, NEW x \in Receipts,
             SucceededRead(g, r, x)
      PROVE  FollowsTable
  BY <1>6, UntouchedTable DEF SucceededRead
<1>7. ASSUME NEW g \in Gateways, SucceededCas(g)
      PROVE  FollowsTable
  <2> DEFINE r == sig[g].request
             x == sig[g].receipt
             q == [row[r] EXCEPT !.status = "settlement_pending",
                                 !.receipt = x, !.lease = "none",
                                 !.revision = @ + 1]
  <2>0. r \in Requests /\ x \in Receipts
    BY <1>7, SignalType DEF SucceededCas
  <2>1. CASE SucceedsFrom(r)
    <3>1. /\ q.status = "settlement_pending" /\ q.receipt = x
          /\ q.revision = row[r].revision + 1 /\ row[r].revision \in Nat
      BY <1>0, <2>0 DEF RequestRow
    <3>2. Update(r, q)
      BY <1>7, <2>1 DEF SucceededCas
    <3>3. row'[r] = q
      BY <2>0, <3>2 DEF Update, TypeInv, RowsType
    <3>4. \A k \in Requests : MoneyKept(k)
      BY <1>7 DEF SucceededCas, money, MoneyKept, CapturesKept
    <3> HIDE DEF q, r, x
    <3>5. IsOwed(r)
      BY <2>0, <2>1, <3>1, <3>3, <3>4 DEF SucceedsFrom, IsOwed
    <3>6. QED
      BY <2>0, <3>1, <3>2, <3>4, <3>5, UpdateTable DEF Table
  <2>2. CASE ~SucceedsFrom(r)
    BY <1>7, <2>2, UntouchedTable DEF SucceededCas
  <2>3. QED
    BY <2>1, <2>2
<1>8. ASSUME NEW g \in Gateways, SucceededReread(g)
      PROVE  FollowsTable
  BY <1>8, UntouchedTable DEF SucceededReread
<1>9. QED
  BY <1>1, <1>2, <1>3, <1>4, <1>5, <1>6, <1>7, <1>8 DEF Gateway

\* A claim, and a requeueing, of the rows of R.
LEMMA ClaimRowsTable ==
  ASSUME TypeInv, NEW R \in SUBSET Requests, NEW o \in Owners, ClaimRows(R, o),
         \A r \in R : Claimable(r), UNCHANGED money
  PROVE  FollowsTable
<1>1. ASSUME NEW r \in Requests
      PROVE  Table(r) /\ Quiet(r) /\ RevisionMoves(r)
  <2>1. row[r] \in RequestRow /\ row[r].revision \in Nat
    BY DEF TypeInv, RowsType, RequestRow
  <2>2. MoneyKept(r)
    BY DEF money, MoneyKept, CapturesKept
  <2>3. CASE r \in R
    <3>1. row'[r] = ClaimedRow(row[r], o)
      BY <2>3 DEF ClaimRows
    <3>2. Works(r)
      BY <2>1, <2>2, <2>3, <3>1, ClaimedRowType DEF Works, ReceiptKept
    <3>3. QED
      BY <2>1, <3>1, <3>2, ClaimedRowType DEF Table, Quiet, RevisionMoves
  <2>4. CASE r \notin R
    BY <2>1, <2>2, <2>4 DEF ClaimRows, Table, Quiet, Rests, RevisionMoves,
                                ReceiptKept, Status
  <2>5. QED
    BY <2>3, <2>4
<1>2. QED
  BY <1>1 DEF FollowsTable

LEMMA RequeueTable ==
  ASSUME TypeInv, NEW R \in SUBSET Requests, Requeue(R),
         \A r \in R : Status(r) = "processing", UNCHANGED money
  PROVE  FollowsTable
<1>1. ASSUME NEW r \in Requests
      PROVE  Table(r) /\ Quiet(r) /\ RevisionMoves(r)
  <2>1. row[r] \in RequestRow /\ row[r].revision \in Nat
    BY DEF TypeInv, RowsType, RequestRow
  <2>2. MoneyKept(r)
    BY DEF money, MoneyKept, CapturesKept
  <2>3. CASE r \in R
    <3>1. row'[r] = RequeuedRow(row[r])
      BY <2>3 DEF Requeue
    <3>2. Works(r)
      BY <2>1, <2>2, <2>3, <3>1, RequeuedRowType DEF Works, ReceiptKept
    <3>3. QED
      BY <2>1, <3>1, <3>2, RequeuedRowType DEF Table, Quiet, RevisionMoves
  <2>4. CASE r \notin R
    BY <2>1, <2>2, <2>4 DEF Requeue, Table, Quiet, Rests, RevisionMoves,
                                ReceiptKept, Status
  <2>5. QED
    BY <2>3, <2>4
<1>2. QED
  BY <1>1 DEF FollowsTable

LEMMA JobStepTable ==
  ASSUME TypeInv, NEW s \in Slots, JobStep(s)
  PROVE  FollowsTable
<1> DEFINE job == slot[s]
<1>0. /\ job \in SlotJob /\ job.claims \subseteq Claim
      /\ job.found \subseteq Claim /\ SlotOwner[s] \in Owners
  BY OwnersAssumption DEF TypeInv, SlotsType, SlotJob
<1>1. CASE ClaimExtras(s)
  BY <1>0, <1>1, ClaimRowsTable DEF ClaimExtras
<1>2. CASE SettleRead(s)
  BY <1>2, UntouchedTable DEF SettleRead
<1>3. CASE SettleCommit(s)
  <2> DEFINE R == {c.request : c \in job.found}
  <2>1. SettleRequests(R)
    BY <1>3 DEF SettleCommit
  <2>2. ASSUME NEW r \in R
        PROVE  Status(r) = "processing" /\ reservation[r] = "active"
    BY <1>3 DEF SettleCommit, Settleable, FinalizeFence, Fence, FenceNoLease,
                Status
  <2> HIDE DEF R
  <2>3. ASSUME NEW r \in Requests
        PROVE  /\ Table(r) /\ RevisionMoves(r)
               /\ Quiet(r) \/ IsCharged(r)
    <3>1. row[r] \in RequestRow /\ row[r].revision \in Nat
      BY DEF TypeInv, RowsType, RequestRow
    <3>2. CASE r \in R
      <4>1. row'[r] = SettledRow(row[r])
        BY <2>1, <3>2 DEF SettleRequests
      <4>2. /\ reservation'[r] = "settled" /\ charges'[r] = charges[r] + 1
            /\ r \in usage'
        BY <2>1, <3>2 DEF SettleRequests
      <4>3. IsCharged(r)
        BY <2>2, <3>1, <3>2, <4>1, <4>2, SettledRowType
        DEF IsCharged, ReceiptKept
      <4>4. QED
        BY <3>1, <4>1, <4>3, SettledRowType DEF Table, RevisionMoves
    <3>3. CASE r \notin R
      BY <2>1, <3>1, <3>3 DEF SettleRequests, Table, Quiet, Rests, RevisionMoves,
                              ReceiptKept, MoneyKept, CapturesKept, Status
    <3>4. QED
      BY <3>2, <3>3
  <2>4. QED
    BY <2>3 DEF FollowsTable
<1>4. CASE FinishFailure(s)
  <2>1. UNCHANGED money
    BY <1>4 DEF FinishFailure
  <2>2. PICK c \in job.claims :
          /\ row' = IF Fence(c)
                    THEN [row EXCEPT ![c.request] =
                            FailedRow(@, GivesUp(job.error, c.attempt), job.error)]
                    ELSE row
          /\ Fence(c) /\ GivesUp(job.error, c.attempt)
               => outbox' = outbox \cup DeathNotice(c)
    BY <1>4 DEF FinishFailure, Announces
  <2>3. CASE ~Fence(c)
    BY <2>1, <2>2, <2>3, UntouchedTable
  <2>4. CASE Fence(c)
    <3> DEFINE r == c.request
               q == FailedRow(row[r], GivesUp(job.error, c.attempt), job.error)
    <3>1. r \in Requests /\ row[r] \in RequestRow /\ row[r].revision \in Nat
      BY <1>0 DEF Claim, TypeInv, RowsType, RequestRow
    <3>2. job.error \in FailureClasses
      BY <1>0 DEF SlotJob, FailureClasses
    <3>3. GivesUp(job.error, c.attempt) \in BOOLEAN
      BY DEF GivesUp
    <3>4. /\ q.status \in {"dead", "retry_wait"}
          /\ q.status = "dead" => GivesUp(job.error, c.attempt)
          /\ q.revision = row[r].revision + 1 /\ q.receipt = row[r].receipt
      BY <3>1, <3>2, <3>3, FailedRowType
    <3>5. Update(r, q)
      BY <2>2, <2>4 DEF Update
    <3>6. row'[r] = q
      BY <3>1, <3>5 DEF Update, TypeInv, RowsType
    <3>7. Status(r) = "processing"
      BY <2>4 DEF Fence, FenceNoLease, Status
    <3>8. \A k \in Requests : MoneyKept(k)
      BY <2>1 DEF money, MoneyKept, CapturesKept
    <3>9. GivesUp(job.error, c.attempt) => Noticed(r)'
      <4>1. GivesUp(job.error, c.attempt) => <<c.request, c.attempt>> \in outbox'
        BY <2>2, <2>4 DEF DeathNotice
      <4>2. <<c.request, c.attempt>>[1] = r
        OBVIOUS
      <4>3. QED
        BY <4>1, <4>2 DEF Noticed
    <3> HIDE DEF q, r
    <3>10. Works(r)
      BY <3>1, <3>4, <3>6, <3>7, <3>8, <3>9 DEF Works, ReceiptKept
    <3>11. QED
      BY <3>1, <3>4, <3>5, <3>8, <3>10, UpdateTable DEF Table
  <2>5. QED
    BY <2>3, <2>4
<1>5. ASSUME NEW e \in {"defect", "transient"}, SettleThrow(s, e)
      PROVE  FollowsTable
  BY <1>5, UntouchedTable DEF SettleThrow
<1>6. QED
  BY <1>1, <1>2, <1>3, <1>4, <1>5 DEF JobStep

LEMMA WorkerTable ==
  ASSUME TypeInv, Worker
  PROVE  FollowsTable
<1>1. ASSUME NEW s \in Slots, NEW r \in Requests, ClaimNotified(s, r)
      PROVE  FollowsTable
  <2>1. {r} \in SUBSET Requests /\ SlotOwner[s] \in Owners
    BY OwnersAssumption
  <2>2. QED
    BY <1>1, <2>1, ClaimRowsTable DEF ClaimNotified
<1>2. ASSUME NEW s \in Slots, Crash(s)
      PROVE  FollowsTable
  BY <1>2, UntouchedTable DEF Crash
<1>3. ASSUME NEW o \in Owners, AbandonOwnedClaims(o)
      PROVE  FollowsTable
  BY <1>3, RequeueTable DEF AbandonOwnedClaims
<1>4. ASSUME NEW r \in Requests, ClaimExpires(r)
      PROVE  FollowsTable
  <2> DEFINE q == [row[r] EXCEPT !.claimLease = "expired"]
  <2>1. row[r] \in RequestRow
    BY DEF TypeInv, RowsType
  <2>2. /\ q.status = Status(r) /\ q.receipt = row[r].receipt
        /\ q.revision = row[r].revision /\ row[r].revision \in Nat
    BY <2>1 DEF RequestRow, Status
  <2>3. Update(r, q)
    BY <1>4 DEF ClaimExpires
  <2>4. row'[r] = q
    BY <2>3 DEF Update, TypeInv, RowsType
  <2> HIDE DEF q
  <2>5. \A k \in Requests : MoneyKept(k)
    BY <1>4 DEF ClaimExpires, money, MoneyKept, CapturesKept
  <2>6. Rests(r)
    BY <2>2, <2>4, <2>5 DEF Rests, ReceiptKept
  <2>7. QED
    BY <2>2, <2>3, <2>5, <2>6, UpdateTable DEF Table
<1>5. QED
  BY <1>1, <1>2, <1>3, <1>4, JobStepTable DEF Worker

LEMMA RecoveryTable ==
  ASSUME TypeInv, Recovery
  PROVE  FollowsTable
<1>1. CASE RequeueExpiredClaims
  BY <1>1, RequeueTable DEF RequeueExpiredClaims
<1>2. ASSUME NEW st \in Open, ListExpired(st)
      PROVE  FollowsTable
  BY <1>2, UntouchedTable DEF ListExpired
<1>3. ASSUME NEW st \in Open, NEW r \in Requests, RecoverRelease(r, st)
      PROVE  FollowsTable
  <2>1. CASE StillExpired(r, st) /\ CanRelease(r)
    <3> DEFINE code == IF st = "authorized" THEN "expired_before_dispatch"
                                            ELSE "gateway_crash"
               q == [row[r] EXCEPT !.status = "released", !.lease = "none",
                                   !.failureCode = code, !.revision = @ + 1]
    <3>1. Update(r, q) /\ ReleaseAll(r)
      BY <1>3, <2>1 DEF RecoverRelease
    <3> HIDE DEF code
    <3>2. row[r] \in RequestRow
      BY DEF TypeInv, RowsType
    <3>3. /\ q.status = "released" /\ q.receipt = row[r].receipt
          /\ q.revision = row[r].revision + 1 /\ row[r].revision \in Nat
      BY <3>2 DEF RequestRow
    <3>4. row'[r] = q
      BY <3>1 DEF Update, TypeInv, RowsType
    <3> HIDE DEF q
    <3>5. /\ HoldBack(r)
          /\ \A k \in Requests \ {r} : MoneyKept(k)
      BY <1>3, <2>1, <3>1 DEF RecoverRelease, CanRelease, ReleaseAll, HoldBack,
                              MoneyKept, CapturesKept, TypeInv, RestType
    <3>6. IsReturned(r)
      BY <2>1, <3>3, <3>4, <3>5 DEF StillExpired, IsReturned, ReceiptKept
    <3>7. QED
      BY <3>1, <3>3, <3>5, <3>6, UpdateTable DEF Table
  <2>2. CASE ~(StillExpired(r, st) /\ CanRelease(r))
    BY <1>3, <2>2, UntouchedTable DEF RecoverRelease, money
  <2>3. QED
    BY <2>1, <2>2
<1>4. QED
  BY <1>1, <1>2, <1>3 DEF Recovery

LEMMA ReviewTable ==
  ASSUME TypeInv, Review
  PROVE  FollowsTable
<1>1. PICK o \in OperationIds, r \in Requests :
        \E seen \in 0..row[r].revision :
          RetryDead(o, r, seen) \/ AbandonDead(o, r, seen)
  BY DEF Review
<1>2. PICK seen \in 0..row[r].revision :
        RetryDead(o, r, seen) \/ AbandonDead(o, r, seen)
  BY <1>1
<1>3. row[r] \in RequestRow
  BY DEF TypeInv, RowsType
<1>4. CASE RetryDead(o, r, seen)
  <2> DEFINE zero == 0
             q == [row[r] EXCEPT !.status = "retry_wait", !.attempts = zero,
                                 !.failureCode = "none", !.revision = @ + 1]
  <2>1. Update(r, q)
    BY <1>4 DEF RetryDead
  <2> HIDE DEF zero
  <2>2. /\ q.status = "retry_wait" /\ q.receipt = row[r].receipt
        /\ q.revision = row[r].revision + 1 /\ row[r].revision \in Nat
    BY <1>3 DEF RequestRow
  <2>3. row'[r] = q
    BY <2>1 DEF Update, TypeInv, RowsType
  <2> HIDE DEF q
  <2>4. \A k \in Requests : MoneyKept(k)
    BY <1>4 DEF RetryDead, money, MoneyKept, CapturesKept
  <2>5. Reviewed(r)'
    BY <1>4 DEF RetryDead, Reviewed, TypeInv, RestType
  <2>6. Works(r)
    BY <1>4, <2>2, <2>3, <2>4, <2>5 DEF RetryDead, ReviewGuard, Works, ReceiptKept
  <2>7. QED
    BY <2>1, <2>2, <2>4, <2>6, UpdateTable DEF Table
<1>5. CASE AbandonDead(o, r, seen)
  <2> DEFINE q == [row[r] EXCEPT !.status = "released", !.revision = @ + 1]
  <2>1. Update(r, q)
    BY <1>5 DEF AbandonDead
  <2>2. /\ q.status = "released" /\ q.receipt = row[r].receipt
        /\ q.revision = row[r].revision + 1 /\ row[r].revision \in Nat
    BY <1>3 DEF RequestRow
  <2>3. row'[r] = q
    BY <2>1 DEF Update, TypeInv, RowsType
  <2> HIDE DEF q
  <2>4. /\ HoldBack(r)
        /\ \A k \in Requests \ {r} : MoneyKept(k)
    BY <1>5 DEF AbandonDead, CanRelease, ReleaseAll, HoldBack, MoneyKept,
                CapturesKept, TypeInv, RestType
  <2>5. Forgiven(r)'
    BY <1>5 DEF AbandonDead, Forgiven, TypeInv, RestType
  <2>6. IsForgiven(r)
    BY <1>5, <2>2, <2>3, <2>4, <2>5 DEF AbandonDead, ReviewGuard, IsForgiven,
                                        ReceiptKept
  <2>7. QED
    BY <2>1, <2>2, <2>4, <2>6, UpdateTable DEF Table
<1>6. QED
  BY <1>2, <1>4, <1>5

\* Every step of the system takes every request along the table.
LEMMA StepFollowsTable ==
  ASSUME TypeInv, [Next]_vars
  PROVE  FollowsTable
<1>1. CASE UNCHANGED vars
  BY <1>1, UntouchedTable DEF vars, money
<1>2. QED
  BY <1>1, GatewayTable, WorkerTable, RecoveryTable, ReviewTable DEF Next

-----------------------------------------------------------------------------
(* Money, revisions and claims *)

\* Whatever the interleaving, the money of a request agrees with its status:
\* captured and logged exactly once when settled, untouched when released,
\* still held in every other state.
THEOREM MoneySafe == Spec => []MoneyFollowsStatus
<1>1. Init => MoneyFollowsStatus
  BY DEF Init, MoneyFollowsStatus, MoneyAt, Status, NewRow
<1>2. TypeInv /\ MoneyFollowsStatus /\ [Next]_vars => MoneyFollowsStatus'
  <2> SUFFICES ASSUME TypeInv, MoneyFollowsStatus, [Next]_vars,
                      NEW r \in Requests
               PROVE  MoneyAt(r)'
    BY DEF MoneyFollowsStatus
  <2>1. Table(r)
    BY StepFollowsTable DEF FollowsTable
  <2>2. MoneyAt(r) /\ charges[r] \in Nat
    BY DEF MoneyFollowsStatus, TypeInv, RestType
  <2>3. CASE Rests(r)
    BY <2>2, <2>3 DEF MoneyAt, Rests, MoneyKept, CapturesKept, Status
  <2>4. CASE IsHeld(r)
    BY <2>2, <2>4 DEF MoneyAt, IsHeld, CapturesKept, Status
  <2>5. CASE Dispatched(r)
    BY <2>2, <2>5 DEF MoneyAt, Dispatched, MoneyKept, CapturesKept, Status,
                      Open
  <2>6. CASE IsOwed(r)
    BY <2>2, <2>6 DEF MoneyAt, IsOwed, MoneyKept, CapturesKept, Status, Open
  <2>7. CASE IsReturned(r)
    BY <2>2, <2>7 DEF MoneyAt, IsReturned, HoldBack, CapturesKept, Status, Open
  <2>8. CASE Works(r)
    BY <2>2, <2>8 DEF MoneyAt, Works, MoneyKept, CapturesKept, Status,
                      Claimable
  <2>9. CASE IsCharged(r)
    BY <2>2, <2>9 DEF MoneyAt, IsCharged, Status
  <2>10. CASE IsForgiven(r)
    BY <2>2, <2>10 DEF MoneyAt, IsForgiven, HoldBack, CapturesKept, Status
  <2>11. QED
    BY <2>1, <2>3, <2>4, <2>5, <2>6, <2>7, <2>8, <2>9, <2>10 DEF Table
<1>3. QED
  BY <1>1, <1>2, InitType, TypeStep, PTL DEF Spec

\* Revisions never go back, and a request that changes its status takes a
\* fresh one: what claims and review commands remember stays distinguishable.
THEOREM RevisionsMove == Spec => TransitionsTakeARevision
<1>1. TypeInv /\ [Next]_vars =>
        [\A r \in Requests :
           /\ row[r].revision' >= row[r].revision
           /\ Status(r) # "none" /\ Status(r)' # Status(r)
                => row[r].revision' > row[r].revision]_vars
  BY StepFollowsTable DEF FollowsTable, RevisionMoves, Status
<1>2. QED
  BY <1>1, InitType, TypeStep, PTL DEF Spec, TransitionsTakeARevision

\* A job's claims: what one step adds to them, or takes away.
ClaimsShrink == \A s \in Slots : slot'[s].claims \subseteq slot[s].claims

ClaimsGrow ==
  \E s \in Slots, R \in SUBSET Requests, o \in Owners :
    /\ ClaimRows(R, o)
    /\ slot'[s].claims \subseteq slot[s].claims \cup ClaimsOn(R, o)
    /\ \A t \in Slots \ {s} : slot'[t].claims \subseteq slot[t].claims

LEMMA GotoClaims ==
  ASSUME TypeInv, NEW s \in Slots, NEW job, Goto(s, job)
  PROVE  slot'[s] = job /\ \A t \in Slots \ {s} : slot'[t] = slot[t]
BY DEF Goto, TypeInv, SlotsType

LEMMA JobClaims ==
  ASSUME NEW job \in SlotJob, NEW phase, NEW claims, NEW found, NEW e
  PROVE  /\ [job EXCEPT !.phase = phase, !.found = found].claims = job.claims
         /\ [job EXCEPT !.phase = phase, !.found = found,
                        !.claims = claims].claims = claims
         /\ [job EXCEPT !.phase = phase, !.found = found,
                        !.error = e].claims = job.claims
BY DEF SlotJob

LEMMA JobStepClaims ==
  ASSUME TypeInv, NEW s \in Slots, JobStep(s)
  PROVE  ClaimsShrink \/ ClaimsGrow
<1>0. slot[s] \in SlotJob /\ SlotOwner[s] \in Owners
  BY OwnersAssumption DEF TypeInv, SlotsType
<1>1. CASE ClaimExtras(s)
  <2>1. PICK R \in SUBSET {r \in Requests : Claimable(r)} :
          /\ ClaimRows(R, SlotOwner[s])
          /\ Goto(s, [slot[s] EXCEPT
                        !.phase = IF R = {} THEN "single" ELSE "batch",
                        !.claims = @ \cup ClaimsOn(R, SlotOwner[s])])
    BY <1>1 DEF ClaimExtras
  <2>2. slot'[s] = [slot[s] EXCEPT
                      !.phase = IF R = {} THEN "single" ELSE "batch",
                      !.claims = @ \cup ClaimsOn(R, SlotOwner[s])]
        /\ \A t \in Slots \ {s} : slot'[t] = slot[t]
    BY <2>1, GotoClaims
  <2>3. slot'[s].claims = slot[s].claims \cup ClaimsOn(R, SlotOwner[s])
    BY <1>0, <2>2 DEF SlotJob
  <2>4. QED
    BY <1>0, <2>1, <2>2, <2>3 DEF ClaimsGrow
<1>2. CASE SettleRead(s)
  <2> DEFINE phase == IF slot[s].phase = "batch" THEN "batch_tx" ELSE "single_tx"
             found == {c \in slot[s].claims : Fence(c)}
  <2>1. Goto(s, [slot[s] EXCEPT !.phase = phase, !.found = found])
    BY <1>2 DEF SettleRead
  <2> HIDE DEF phase, found
  <2>2. /\ slot'[s] = [slot[s] EXCEPT !.phase = phase, !.found = found]
        /\ \A t \in Slots \ {s} : slot'[t] = slot[t]
    BY <2>1, GotoClaims
  <2>3. slot'[s].claims = slot[s].claims
    BY <1>0, <2>2, JobClaims
  <2>4. QED
    BY <2>2, <2>3 DEF ClaimsShrink
<1>3. CASE SettleCommit(s)
  BY <1>3, GotoClaims DEF SettleCommit, ClaimsShrink, IdleJob
<1>4. CASE FinishFailure(s)
  BY <1>4, GotoClaims DEF FinishFailure, ClaimsShrink, IdleJob
<1>5. ASSUME NEW e \in {"defect", "transient"}, SettleThrow(s, e)
      PROVE  ClaimsShrink
  <2> DEFINE mine == {c \in slot[s].claims : c.request = slot[s].notified}
  <2>1. mine \subseteq slot[s].claims
    OBVIOUS
  <2>2. \/ Goto(s, [slot[s] EXCEPT !.phase = "single", !.found = {},
                                   !.claims = mine])
        \/ Goto(s, [slot[s] EXCEPT !.phase = "failing", !.found = {},
                                   !.error = e])
    BY <1>5 DEF SettleThrow
  <2> HIDE DEF mine
  <2>3. /\ \/ slot'[s] = [slot[s] EXCEPT !.phase = "single", !.found = {},
                                       !.claims = mine]
           \/ slot'[s] = [slot[s] EXCEPT !.phase = "failing", !.found = {},
                                       !.error = e]
        /\ \A t \in Slots \ {s} : slot'[t] = slot[t]
    BY <2>2, GotoClaims
  <2>4. slot'[s].claims = mine \/ slot'[s].claims = slot[s].claims
    <3>1. [slot[s] EXCEPT !.phase = "single", !.found = {},
                          !.claims = mine].claims = mine
      BY <1>0, JobClaims
    <3>2. [slot[s] EXCEPT !.phase = "failing", !.found = {},
                          !.error = e].claims = slot[s].claims
      BY <1>0, JobClaims
    <3>3. QED
      BY <2>3, <3>1, <3>2
  <2>5. QED
    BY <2>1, <2>3, <2>4 DEF ClaimsShrink
<1>6. QED
  BY <1>1, <1>2, <1>3, <1>4, <1>5 DEF JobStep

LEMMA StepClaims ==
  ASSUME TypeInv, [Next]_vars
  PROVE  ClaimsShrink \/ ClaimsGrow
<1>1. ASSUME NEW s \in Slots, NEW r \in Requests, ClaimNotified(s, r)
      PROVE  ClaimsGrow
  <2>1. {r} \in SUBSET Requests /\ SlotOwner[s] \in Owners
    BY OwnersAssumption
  <2>2. slot'[s].claims = ClaimsOn({r}, SlotOwner[s])
        /\ \A t \in Slots \ {s} : slot'[t] = slot[t]
    BY <1>1, GotoClaims DEF ClaimNotified
  <2>3. QED
    BY <1>1, <2>1, <2>2 DEF ClaimNotified, ClaimsGrow
<1>2. ASSUME NEW s \in Slots, Crash(s)
      PROVE  ClaimsShrink
  BY <1>2, GotoClaims DEF Crash, ClaimsShrink, IdleJob
<1>3. CASE UNCHANGED slot
  BY <1>3 DEF ClaimsShrink
<1>4. CASE Worker
  BY <1>1, <1>2, <1>3, <1>4, JobStepClaims
  DEF Worker, AbandonOwnedClaims, ClaimExpires
<1>5. CASE Gateway
  BY <1>3, <1>5 DEF Gateway, Authorize, RequestFailed, LeaseExpires,
       UpstreamStarted, LeaseRenewed, SucceededRead, SucceededCas,
       SucceededReread
<1>6. CASE Recovery
  BY <1>3, <1>6 DEF Recovery, RequeueExpiredClaims, ListExpired, RecoverRelease
<1>7. CASE Review
  BY <1>3, <1>7 DEF Review, RetryDead, AbandonDead
<1>8. QED
  BY <1>3, <1>4, <1>5, <1>6, <1>7 DEF Next, vars

\* A claim carries the revision it was made at as its token, the row has not
\* gone back since, and nobody else holds that token.
ClaimsInv ==
  /\ \A s \in Slots : \A c \in slot[s].claims :
       c.token = c.revision /\ c.revision <= row[c.request].revision
  /\ \A s, t \in Slots : \A c \in slot[s].claims, d \in slot[t].claims :
       c.request = d.request /\ c.token = d.token => s = t /\ c = d

LEMMA ClaimsStep ==
  ASSUME TypeInv, ClaimsInv, [Next]_vars
  PROVE  ClaimsInv'
<1>0. \A r \in Requests : row[r] \in RequestRow /\ row[r].revision \in Nat
  BY DEF TypeInv, RowsType, RequestRow
<1>1. \A r \in Requests : row'[r].revision >= row[r].revision
  BY StepFollowsTable DEF FollowsTable, RevisionMoves
<1>2. \A s \in Slots : \A c \in slot[s].claims :
        c \in Claim /\ c.request \in Requests /\ c.revision \in Nat
  BY DEF TypeInv, SlotsType, SlotJob, Claim
<1>3. \A r \in Requests : row'[r].revision \in Nat
  <2>1. TypeInv'
    BY TypeStep
  <2>2. QED
    BY <2>1 DEF TypeInv, RowsType, RequestRow
<1>4. CASE ClaimsShrink
  <2>1. ASSUME NEW s \in Slots, NEW c \in slot'[s].claims
        PROVE  c.token = c.revision /\ c.revision <= row'[c.request].revision
    <3>1. c \in slot[s].claims
      BY <1>4 DEF ClaimsShrink
    <3>2. QED
      BY <1>0, <1>1, <1>2, <1>3, <3>1 DEF ClaimsInv
  <2>2. QED
    BY <1>4, <2>1 DEF ClaimsShrink, ClaimsInv
<1>5. CASE ClaimsGrow
  <2>1. PICK s \in Slots, R \in SUBSET Requests, o \in Owners :
          /\ ClaimRows(R, o)
          /\ slot'[s].claims \subseteq slot[s].claims \cup ClaimsOn(R, o)
          /\ \A t \in Slots \ {s} : slot'[t].claims \subseteq slot[t].claims
    BY <1>5 DEF ClaimsGrow
  <2>2. ASSUME NEW c \in ClaimsOn(R, o)
        PROVE  /\ c.request \in R
               /\ c.token = row[c.request].revision + 1
               /\ c.revision = row[c.request].revision + 1
               /\ c.revision = row'[c.request].revision
               /\ c = ClaimOf(c.request, ClaimedRow(row[c.request], o))
    <3>1. PICK r \in R : c = ClaimOf(r, ClaimedRow(row[r], o))
      BY DEF ClaimsOn
    <3>2. c.request = r
      BY <3>1 DEF ClaimOf
    <3>3. row'[r] = ClaimedRow(row[r], o)
      BY <2>1, <3>1 DEF ClaimRows
    <3>4. c.token = ClaimedRow(row[r], o).claimToken
          /\ c.revision = ClaimedRow(row[r], o).revision
      BY <3>1 DEF ClaimOf
    <3>5. QED
      BY <1>0, <3>1, <3>2, <3>3, <3>4, ClaimedRowType
  <2>3. ASSUME NEW t \in Slots, NEW c \in slot'[t].claims
        PROVE  c \in slot[t].claims \/ (t = s /\ c \in ClaimsOn(R, o))
    BY <2>1
  <2>4. ASSUME NEW t \in Slots, NEW c \in slot'[t].claims
        PROVE  c.token = c.revision /\ c.revision <= row'[c.request].revision
    <3>1. CASE c \in slot[t].claims
      BY <1>0, <1>1, <1>2, <1>3, <3>1 DEF ClaimsInv
    <3>2. CASE c \in ClaimsOn(R, o)
      BY <1>3, <2>2, <3>2
    <3>3. QED
      BY <2>3, <3>1, <3>2
  <2>5. ASSUME NEW t \in Slots, NEW u \in Slots,
               NEW c \in slot'[t].claims, NEW d \in slot'[u].claims,
               c.request = d.request, c.token = d.token
        PROVE  t = u /\ c = d
    <3>1. CASE c \in slot[t].claims /\ d \in slot[u].claims
      BY <2>5, <3>1 DEF ClaimsInv
    <3>2. CASE c \in ClaimsOn(R, o) /\ d \in ClaimsOn(R, o)
               /\ t = s /\ u = s
      BY <2>2, <2>5, <3>2
    <3>3. CASE c \in slot[t].claims /\ d \in ClaimsOn(R, o)
      BY <1>0, <1>2, <2>2, <2>5, <3>3 DEF ClaimsInv
    <3>4. CASE c \in ClaimsOn(R, o) /\ d \in slot[u].claims
      BY <1>0, <1>2, <2>2, <2>5, <3>4 DEF ClaimsInv
    <3>5. QED
      BY <2>3, <3>1, <3>2, <3>3, <3>4
  <2>6. QED
    BY <2>4, <2>5 DEF ClaimsInv
<1>6. QED
  BY <1>4, <1>5, StepClaims

\* However many jobs hold claims on a request, after expiry, crash, shutdown,
\* requeueing or a second claim, the fence of the settlement transaction lets
\* at most one of them through.
THEOREM ClaimsFenced == Spec => []OneLiveClaim
<1>1. Init => ClaimsInv
  BY DEF Init, ClaimsInv, IdleJob
<1>2. ClaimsInv => OneLiveClaim
  BY DEF ClaimsInv, OneLiveClaim, Fence, FenceNoLease
<1>3. QED
  BY <1>1, <1>2, ClaimsStep, InitType, TypeStep, PTL DEF Spec

-----------------------------------------------------------------------------
(* Receipts, and the promise of the abstract specification *)

\* A command, once recorded, stays (ledger_operations).
LEMMA OpsStep ==
  ASSUME TypeInv, [Next]_vars, NEW o \in OperationIds, ops[o] # NoCommand
  PROVE  ops'[o] = ops[o]
<1>1. CASE UNCHANGED ops
  BY <1>1
<1>2. CASE Gateway
  BY <1>1, <1>2 DEF Gateway, Authorize, RequestFailed, LeaseExpires,
       UpstreamStarted, LeaseRenewed, SucceededRead, SucceededCas,
       SucceededReread
<1>3. CASE Worker
  BY <1>1, <1>3 DEF Worker, JobStep, ClaimExtras, SettleRead, SettleCommit,
       FinishFailure, SettleThrow, ClaimNotified, Crash, AbandonOwnedClaims,
       ClaimExpires
<1>4. CASE Recovery
  BY <1>1, <1>4 DEF Recovery, RequeueExpiredClaims, ListExpired, RecoverRelease
<1>5. CASE Review
  BY <1>5 DEF Review, RetryDead, AbandonDead, TypeInv, RestType
<1>6. QED
  BY <1>1, <1>2, <1>3, <1>4, <1>5 DEF Next, vars

LEMMA ForgivenStands ==
  ASSUME TypeInv, [Next]_vars, NEW r \in Requests, Forgiven(r)
  PROVE  Forgiven(r)'
<1>1. PICK o \in OperationIds : ops[o].kind = "abandon" /\ ops[o].request = r
  BY DEF Forgiven
<1>2. ops[o] # NoCommand
  BY <1>1 DEF NoCommand
<1>3. QED
  BY <1>1, <1>2, OpsStep DEF Forgiven

\* A signal is answered with success only where its receipt is stored.
LEMMA AcceptedStep ==
  ASSUME TypeInv, [Next]_vars, NEW a \in accepted', a \notin accepted
  PROVE  /\ a[1] \in Requests
         /\ row'[a[1]].receipt = a[2]
         /\ row'[a[1]].status \in {"settlement_pending", "settled"}
<1>0. \A r \in Requests : row[r] \in RequestRow
  BY DEF TypeInv, RowsType
<1>1. ASSUME NEW g \in Gateways, NEW r \in Requests, NEW x \in Receipts,
             SucceededRead(g, r, x)
      PROVE  /\ a[1] \in Requests
             /\ row'[a[1]].receipt = a[2]
             /\ row'[a[1]].status \in {"settlement_pending", "settled"}
  BY <1>1 DEF SucceededRead, Accept, IsReplay, Status
<1>2. ASSUME NEW g \in Gateways, SucceededCas(g)
      PROVE  /\ a[1] \in Requests
             /\ row'[a[1]].receipt = a[2]
             /\ row'[a[1]].status \in {"settlement_pending", "settled"}
  <2> DEFINE r == sig[g].request
             x == sig[g].receipt
             q == [row[r] EXCEPT !.status = "settlement_pending",
                                 !.receipt = x, !.lease = "none",
                                 !.revision = @ + 1]
  <2>1. r \in Requests
    BY <1>2, SignalType DEF SucceededCas
  <2>2. Update(r, q) /\ a = <<r, x>>
    BY <1>2 DEF SucceededCas, Accept
  <2>3. q.status = "settlement_pending" /\ q.receipt = x
    BY <1>0, <2>1 DEF RequestRow
  <2>4. row'[r] = q
    BY <2>1, <2>2 DEF Update, TypeInv, RowsType
  <2> HIDE DEF q
  <2>5. QED
    BY <2>1, <2>2, <2>3, <2>4
<1>3. ASSUME NEW g \in Gateways, SucceededReread(g)
      PROVE  /\ a[1] \in Requests
             /\ row'[a[1]].receipt = a[2]
             /\ row'[a[1]].status \in {"settlement_pending", "settled"}
  BY <1>3, SignalType DEF SucceededReread, Accept, IsReplay, Status
<1>4. CASE Gateway
  BY <1>1, <1>2, <1>3, <1>4 DEF Gateway, Authorize, RequestFailed,
       LeaseExpires, UpstreamStarted, LeaseRenewed, gatewayState
<1>5. CASE Worker
  BY <1>5 DEF Worker, JobStep, ClaimExtras, SettleRead, SettleCommit,
       FinishFailure, SettleThrow, ClaimNotified, Crash, AbandonOwnedClaims,
       ClaimExpires, gatewayState
<1>6. CASE Recovery
  BY <1>6 DEF Recovery, RequeueExpiredClaims, ListExpired, RecoverRelease,
              gatewayState
<1>7. CASE Review
  BY <1>7 DEF Review, RetryDead, AbandonDead, gatewayState
<1>8. CASE UNCHANGED vars
  BY <1>8 DEF vars
<1>9. QED
  BY <1>4, <1>5, <1>6, <1>7, <1>8 DEF Next

\* A receipt answered with success is never dropped, replaced or left behind:
\* recovery, a late failure signal and another receipt all come too late for
\* it, and only an administrator can still give the money up.
THEOREM ReceiptsStand == Spec => []AcceptedReceiptStands
<1>1. Init => AcceptedReceiptStands
  BY DEF Init, AcceptedReceiptStands
<1>2. TypeInv /\ AcceptedReceiptStands /\ [Next]_vars => AcceptedReceiptStands'
  <2> SUFFICES ASSUME TypeInv, AcceptedReceiptStands, [Next]_vars,
                      NEW a \in accepted'
               PROVE  /\ row'[a[1]].receipt = a[2]
                      /\ \/ row'[a[1]].status \in Owed \cup {"dead", "settled"}
                         \/ /\ row'[a[1]].status = "released"
                            /\ Forgiven(a[1])'
    BY DEF AcceptedReceiptStands, Status
  <2>1. CASE a \notin accepted
    BY <2>1, AcceptedStep DEF Owed
  <2>2. CASE a \in accepted
    <3> DEFINE r == a[1]
    <3>1. /\ r \in Requests /\ row[r].receipt = a[2]
          /\ \/ Status(r) \in Owed \cup {"dead", "settled"}
             \/ Status(r) = "released" /\ Forgiven(r)
      BY <2>2 DEF AcceptedReceiptStands, TypeInv, RestType
    <3> HIDE DEF r
    <3>2. Table(r)
      BY <3>1, StepFollowsTable DEF FollowsTable
    <3>3. Rests(r) \/ Works(r) \/ IsCharged(r) \/ IsForgiven(r)
      BY <3>1, <3>2 DEF Table, IsHeld, Dispatched, IsOwed, IsReturned, Owed,
                        Open
    <3>4. row'[r].receipt = a[2]
      BY <3>1, <3>3 DEF Rests, Works, IsCharged, IsForgiven, ReceiptKept
    <3>5. \/ row'[r].status \in Owed \cup {"dead", "settled"}
          \/ row'[r].status = "released" /\ Forgiven(r)'
      BY <3>1, <3>3, ForgivenStands
      DEF Rests, Works, IsCharged, IsForgiven, Owed
    <3>6. QED
      BY <3>4, <3>5 DEF r
  <2>3. QED
    BY <2>1, <2>2
<1>3. QED
  BY <1>1, <1>2, InitType, TypeStep, PTL DEF Spec

\* Which requests have a receipt stored.
ReceiptAt(r) ==
  /\ Status(r) \in Open \cup {"none"} => row[r].receipt = None
  /\ Status(r) \in Owed \cup {"dead", "settled"} => row[r].receipt \in Receipts
  /\ Status(r) = "released" =>
       row[r].receipt = None \/ (row[r].receipt \in Receipts /\ Forgiven(r))

ReceiptsInv == \A r \in Requests : ReceiptAt(r)

LEMMA ReceiptsStep ==
  ASSUME TypeInv, ReceiptsInv, [Next]_vars
  PROVE  ReceiptsInv'
<1> SUFFICES ASSUME NEW r \in Requests
             PROVE  ReceiptAt(r)'
  BY DEF ReceiptsInv
<1>1. Table(r) /\ ReceiptAt(r)
  BY StepFollowsTable DEF FollowsTable, ReceiptsInv
<1>2. Forgiven(r) => Forgiven(r)'
  BY ForgivenStands
<1>3. CASE Rests(r)
  BY <1>1, <1>2, <1>3 DEF ReceiptAt, Rests, ReceiptKept, Status
<1>4. CASE IsHeld(r) \/ Dispatched(r) \/ IsOwed(r) \/ IsReturned(r)
  BY <1>1, <1>4 DEF ReceiptAt, IsHeld, Dispatched, IsOwed, IsReturned,
                    ReceiptKept, Status, Open, Owed
<1>5. CASE Works(r) \/ IsCharged(r) \/ IsForgiven(r)
  BY <1>1, <1>5 DEF ReceiptAt, Works, IsCharged, IsForgiven, ReceiptKept,
                    Status, Open, Owed, Claimable
<1>6. QED
  BY <1>1, <1>3, <1>4, <1>5 DEF Table

\* The outcome a status and a receipt stand for.
OutcomeFor(status, receipt) ==
  IF status = "none" THEN "none"
  ELSE IF status \in Open THEN "held"
  ELSE IF status = "settled" THEN "charged"
  ELSE IF status # "released" THEN "owed"
  ELSE IF receipt = None THEN "returned" ELSE "forgiven"

OutcomesInv ==
  \A r \in Requests : OutcomeOf(r) = OutcomeFor(Status(r), row[r].receipt)

LEMMA OutcomesFollow ==
  ASSUME TypeInv, MoneyFollowsStatus, ReceiptsInv
  PROVE  OutcomesInv
<1> SUFFICES ASSUME NEW r \in Requests
             PROVE  OutcomeOf(r) = OutcomeFor(Status(r), row[r].receipt)
  BY DEF OutcomesInv
<1>1. MoneyAt(r) /\ ReceiptAt(r)
  BY DEF MoneyFollowsStatus, ReceiptsInv
<1>2. Status(r) \in Statuses /\ None \notin Receipts
  BY NullAssumption DEF TypeInv, RowsType, RequestRow, Status
<1>3. CASE Status(r) = "none"
  BY <1>1, <1>3 DEF MoneyAt, ReceiptAt, OutcomeOf, OutcomeFor
<1>4. CASE Status(r) \in Open
  BY <1>1, <1>4 DEF MoneyAt, ReceiptAt, OutcomeOf, OutcomeFor, Open
<1>5. CASE Status(r) \in Owed \cup {"dead"}
  BY <1>1, <1>2, <1>5 DEF MoneyAt, ReceiptAt, OutcomeOf, OutcomeFor, Open, Owed
<1>6. CASE Status(r) = "settled"
  BY <1>1, <1>2, <1>6 DEF MoneyAt, ReceiptAt, OutcomeOf, OutcomeFor, Open
<1>7. CASE Status(r) = "released"
  BY <1>1, <1>2, <1>7 DEF MoneyAt, ReceiptAt, OutcomeOf, OutcomeFor, Open
<1>8. QED
  BY <1>2, <1>3, <1>4, <1>5, <1>6, <1>7 DEF Statuses, Open, Owed

outcomes == [r \in Requests |-> OutcomeOf(r)]

\* One step of the code is one step of the abstract specification, or none.
LEMMA StepKeepsPromise ==
  ASSUME TypeInv, OutcomesInv, OutcomesInv', ReceiptsInv, ReceiptsInv',
         [Next]_vars
  PROVE  Promise!Next \/ outcomes' = outcomes
<1> DEFINE before(r) == OutcomeFor(Status(r), row[r].receipt)
           after(r) == OutcomeFor(row'[r].status, row'[r].receipt)
<1>1. \A r \in Requests : OutcomeOf(r) = before(r) /\ OutcomeOf(r)' = after(r)
  BY DEF OutcomesInv, Status
<1>2. \A r \in Requests : Quiet(r) => after(r) = before(r)
  BY DEF Quiet, Rests, Dispatched, Works, ReceiptKept, OutcomeFor, Open,
         Claimable
<1>3. \A r \in Requests : IsCharged(r) => before(r) = "owed"
                                          /\ after(r) = "charged"
  BY DEF IsCharged, OutcomeFor, Open
<1>4. \A r \in Requests :
        /\ IsHeld(r) => before(r) = "none" /\ after(r) = "held"
        /\ IsOwed(r) => before(r) = "held" /\ after(r) = "owed"
  BY DEF IsHeld, IsOwed, OutcomeFor, Open
<1>5. ASSUME NEW r \in Requests, IsReturned(r)
      PROVE  before(r) = "held" /\ after(r) = "returned"
  <2>1. row'[r].receipt = None
    BY <1>5 DEF IsReturned, ReceiptKept, ReceiptsInv, ReceiptAt, Open
  <2>2. QED
    BY <1>5, <2>1 DEF IsReturned, OutcomeFor, Open
<1>6. ASSUME NEW r \in Requests, IsForgiven(r)
      PROVE  before(r) = "owed" /\ after(r) = "forgiven"
  <2>1. row'[r].receipt # None
    BY <1>6, NullAssumption DEF IsForgiven, ReceiptKept, ReceiptsInv, ReceiptAt
  <2>2. QED
    BY <1>6, <2>1 DEF IsForgiven, OutcomeFor, Open
<1>7. FollowsTable
  BY StepFollowsTable
<1> HIDE DEF before, after
<1>8. /\ outcomes = [r \in Requests |-> before(r)]
      /\ outcomes' = [r \in Requests |-> after(r)]
  BY <1>1 DEF outcomes
<1>9. CASE \A r \in Requests : Quiet(r) \/ IsCharged(r)
  <2> DEFINE R == {r \in Requests : ~Quiet(r)}
  <2>1. \A r \in R : before(r) = "owed" /\ after(r) = "charged"
    BY <1>3, <1>9
  <2>2. \A r \in Requests \ R : after(r) = before(r)
    BY <1>2
  <2>3. CASE R = {}
    BY <1>8, <2>2, <2>3
  <2>4. CASE R # {}
    <3>1. Promise!Charge(R)
      BY <1>8, <2>1, <2>2, <2>4
      DEF Promise!Charge, Promise!Move, outcomes
    <3>2. QED
      BY <3>1 DEF Promise!Next
  <2>5. QED
    BY <2>3, <2>4
<1>10. ASSUME NEW r \in Requests, \A k \in Requests \ {r} : Quiet(k)
       PROVE  Promise!Next \/ outcomes' = outcomes
  <2>1. \A k \in Requests \ {r} : after(k) = before(k)
    BY <1>2, <1>10
  <2>2. Table(r)
    BY <1>7 DEF FollowsTable
  <2>3. CASE Quiet(r) \/ IsCharged(r)
    BY <1>9, <1>10, <2>3
  <2>4. CASE IsHeld(r)
    <3>1. Promise!Hold(r)
      BY <1>4, <1>8, <2>1, <2>4 DEF Promise!Hold, Promise!Move, outcomes
    <3>2. QED
      BY <3>1 DEF Promise!Next
  <2>5. CASE IsOwed(r)
    <3>1. Promise!Owe(r)
      BY <1>4, <1>8, <2>1, <2>5 DEF Promise!Owe, Promise!Move, outcomes
    <3>2. QED
      BY <3>1 DEF Promise!Next
  <2>6. CASE IsReturned(r)
    <3>1. Promise!Return(r)
      BY <1>5, <1>8, <2>1, <2>6 DEF Promise!Return, Promise!Move, outcomes
    <3>2. QED
      BY <3>1 DEF Promise!Next
  <2>7. CASE IsForgiven(r)
    <3>1. Promise!Forgive(r)
      BY <1>6, <1>8, <2>1, <2>7 DEF Promise!Forgive, Promise!Move, outcomes
    <3>2. QED
      BY <3>1 DEF Promise!Next
  <2>8. QED
    BY <2>2, <2>3, <2>4, <2>5, <2>6, <2>7 DEF Table, Quiet
<1>11. QED
  BY <1>7, <1>9, <1>10 DEF FollowsTable

\* The state machine of the code implements the abstract specification: money
\* is charged at most once and only when owed, returned only when not owed,
\* and forgiven only by an administrator's command.
THEOREM Refines == Spec => KeepsPromise
<1>1. Init => Promise!Init
  <2>1. ASSUME Init
        PROVE  \A r \in Requests : OutcomeOf(r) = "none"
    BY <2>1 DEF Init, OutcomeOf, NewRow
  <2>2. QED
    BY <2>1 DEF Promise!Init
<1>2. Init => ReceiptsInv
  BY DEF Init, ReceiptsInv, ReceiptAt, NewRow, Status, Open, Owed
<1>3. TypeInv /\ MoneyFollowsStatus /\ ReceiptsInv => OutcomesInv
  BY OutcomesFollow
<1>4. TypeInv /\ OutcomesInv /\ OutcomesInv' /\ ReceiptsInv /\ ReceiptsInv'
        /\ [Next]_vars => [Promise!Next]_outcomes
  BY StepKeepsPromise
<1>5. QED
  BY <1>1, <1>2, <1>3, <1>4, ReceiptsStep, MoneySafe, InitType, TypeStep, PTL
  DEF Spec, KeepsPromise, Promise!Spec, outcomes

-----------------------------------------------------------------------------
(* Review                                                                    *)

Decided(o) == ops[o] # NoCommand

\* Only a review decides.
LEMMA NewDecision ==
  ASSUME [Next]_vars, NEW o \in OperationIds, ops'[o] # ops[o]
  PROVE  Review
<1>1. Gateway => ops' = ops
  BY DEF Gateway, Authorize, RequestFailed, LeaseExpires, UpstreamStarted,
       LeaseRenewed, SucceededRead, SucceededCas, SucceededReread
<1>2. Worker => ops' = ops
  BY DEF Worker, JobStep, ClaimExtras, SettleRead, SettleCommit, FinishFailure,
       SettleThrow, ClaimNotified, Crash, AbandonOwnedClaims, ClaimExpires
<1>3. Recovery => ops' = ops
  BY DEF Recovery, RequeueExpiredClaims, ListExpired, RecoverRelease
<1>4. QED
  BY <1>1, <1>2, <1>3 DEF Next, vars

\* Who decides does so on the revision the row has, and takes it away.
LEMMA DecidesOnce ==
  ASSUME TypeInv, [Next]_vars, NEW o \in OperationIds, ~Decided(o), Decided(o)'
  PROVE  /\ ops'[o].request \in Requests
         /\ ops'[o].revision = row[ops'[o].request].revision
         /\ row'[ops'[o].request].revision = row[ops'[o].request].revision + 1
         /\ \A p \in OperationIds \ {o} : ops'[p] = ops[p]
<1>1. ops'[o] # ops[o]
  BY DEF Decided
<1>2. Review
  BY <1>1, NewDecision
<1>3. PICK p \in OperationIds, r \in Requests :
        \E v \in 0..row[r].revision : RetryDead(p, r, v) \/ AbandonDead(p, r, v)
  BY <1>2 DEF Review
<1> PICK seen \in 0..row[r].revision :
      RetryDead(p, r, seen) \/ AbandonDead(p, r, seen)
  BY <1>3
<1>4. PICK kind \in {"retry", "abandon"} :
        ops' = [ops EXCEPT ![p] = [kind |-> kind, request |-> r, revision |-> seen]]
  BY DEF RetryDead, AbandonDead
<1>5. /\ p = o
      /\ ops'[o].request = r /\ ops'[o].revision = seen
      /\ \A q \in OperationIds \ {o} : ops'[q] = ops[q]
  BY <1>1, <1>4 DEF TypeInv, RestType
<1>6. row[r].revision = seen
  BY DEF RetryDead, AbandonDead, ReviewGuard
<1>7. row[r] \in RequestRow
  BY DEF TypeInv, RowsType
<1>8. row'[r].revision = row[r].revision + 1
  <2> DEFINE zero == 0
  <2> HIDE DEF zero
  <2>1. CASE RetryDead(p, r, seen)
    <3>1. row'[r] = [row[r] EXCEPT !.status = "retry_wait", !.attempts = zero,
                                   !.failureCode = "none", !.revision = @ + 1]
      BY <2>1 DEF RetryDead, Update, TypeInv, RowsType, zero
    <3>2. QED
      BY <1>7, <3>1 DEF RequestRow
  <2>2. CASE AbandonDead(p, r, seen)
    <3>1. row'[r] = [row[r] EXCEPT !.status = "released", !.revision = @ + 1]
      BY <2>2 DEF AbandonDead, Update, TypeInv, RowsType
    <3>2. QED
      BY <1>7, <3>1 DEF RequestRow
  <2>3. QED
    BY <2>1, <2>2
<1>9. QED
  BY <1>5, <1>6, <1>8

\* A decision was taken on a revision the row has no more.
DecisionsInv ==
  \A o \in OperationIds :
    Decided(o) => /\ ops[o].request \in Requests
                  /\ ops[o].revision < row[ops[o].request].revision

LEMMA DecisionsStep ==
  ASSUME TypeInv, DecisionsInv, [Next]_vars
  PROVE  DecisionsInv'
<1> SUFFICES ASSUME NEW o \in OperationIds, Decided(o)'
             PROVE  /\ ops'[o].request \in Requests
                    /\ ops'[o].revision < row'[ops'[o].request].revision
  BY DEF DecisionsInv, Decided
<1>1. \A r \in Requests : row[r].revision \in Nat
  BY DEF TypeInv, RowsType, RequestRow
<1>2. CASE Decided(o)
  <2>1. ops'[o] = ops[o]
    BY <1>2, OpsStep DEF Decided
  <2>2. ops[o].revision \in Nat /\ ops[o].request \in Requests
    BY <1>2 DEF Decided, TypeInv, RestType, Command
  <2>3. \A r \in Requests : row'[r].revision >= row[r].revision /\ row'[r].revision \in Nat
    BY StepFollowsTable, TypeStep DEF FollowsTable, RevisionMoves, TypeInv, RowsType,
       RequestRow
  <2>4. QED
    BY <1>1, <1>2, <2>1, <2>2, <2>3 DEF DecisionsInv
<1>3. CASE ~Decided(o)
  BY <1>1, <1>3, DecidesOnce
<1>4. QED
  BY <1>2, <1>3

\* Two administrators, or one with a stale screen, never decide on the same death
\* of a request, however often it is revived (casReviewRetryDead,
\* casReviewAbandonDead).
THEOREM ReviewsAreSingle == Spec => []OneReviewPerDeath
<1>1. Init => DecisionsInv /\ OneReviewPerDeath
  BY DEF Init, DecisionsInv, OneReviewPerDeath, Decided
<1>2. TypeInv /\ DecisionsInv /\ OneReviewPerDeath /\ [Next]_vars
        => OneReviewPerDeath'
  <2> SUFFICES ASSUME TypeInv, DecisionsInv, OneReviewPerDeath, [Next]_vars,
                      NEW o \in OperationIds, NEW p \in OperationIds,
                      Decided(o)', ops'[o].request = ops'[p].request,
                      ops'[o].revision = ops'[p].revision, o # p
               PROVE  FALSE
    BY DEF OneReviewPerDeath, Decided
  <2>1. ops'[o].request \in Requests
    BY DecisionsStep DEF DecisionsInv
  <2>2. Decided(p)'
    BY <2>1, NullAssumption DEF Decided, NoCommand
  <2>3. \A r \in Requests : row[r].revision \in Nat
    BY DEF TypeInv, RowsType, RequestRow
  <2>4. ASSUME NEW d \in OperationIds, NEW e \in OperationIds, d # e, ~Decided(d),
               Decided(d)', Decided(e)', ops'[d].request = ops'[e].request,
               ops'[d].revision = ops'[e].revision
        PROVE  FALSE
    <3>1. /\ ops'[d].request \in Requests
          /\ ops'[d].revision = row[ops'[d].request].revision
          /\ ops'[e] = ops[e]
      BY <2>4, DecidesOnce
    <3>2. ops[e].revision < row[ops[e].request].revision
      BY <2>4, <3>1 DEF DecisionsInv, Decided
    <3>3. ops[e].request = ops'[d].request /\ ops[e].revision = ops'[d].revision
      BY <2>4, <3>1
    <3> DEFINE now == row[ops'[d].request].revision
    <3>4. now < now /\ now \in Nat
      BY <2>3, <3>1, <3>2, <3>3
    <3> HIDE DEF now
    <3>5. QED
      BY <3>4
  <2>5. CASE Decided(o) /\ Decided(p)
    <3>1. ops'[o] = ops[o] /\ ops'[p] = ops[p]
      BY <2>5, OpsStep DEF Decided
    <3>2. QED
      BY <2>5, <3>1 DEF OneReviewPerDeath, Decided
  <2>6. CASE ~Decided(o)
    BY <2>2, <2>4, <2>6
  <2>7. CASE ~Decided(p)
    BY <2>2, <2>4, <2>7
  <2>8. QED
    BY <2>5, <2>6, <2>7
<1>3. QED
  BY <1>1, <1>2, DecisionsStep, InitType, TypeStep, PTL DEF Spec

-----------------------------------------------------------------------------
(* Notices                                                                   *)

\* The claims of the slots carry no number of attempts.
AttemptsAreNaN == \A s \in Slots : \A c \in slot[s].claims : c.attempt = NaN

\* The outbox holds one key for each request that ever died.
OutboxIs ==
  /\ \A k \in outbox : \E r \in Requests : Died(r) /\ k = <<r, NaN>>
  /\ \A r \in Requests : Died(r) => <<r, NaN>> \in outbox

LEMMA AttemptsStep ==
  ASSUME TypeInv, AttemptsAreNaN, [Next]_vars
  PROVE  AttemptsAreNaN'
<1>1. CASE ClaimsShrink
  BY <1>1 DEF ClaimsShrink, AttemptsAreNaN
<1>2. CASE ClaimsGrow
  <2>1. PICK s \in Slots, R \in SUBSET Requests, o \in Owners :
          /\ slot'[s].claims \subseteq slot[s].claims \cup ClaimsOn(R, o)
          /\ \A t \in Slots \ {s} : slot'[t].claims \subseteq slot[t].claims
    BY <1>2 DEF ClaimsGrow
  <2>2. ASSUME NEW c \in ClaimsOn(R, o) PROVE c.attempt = NaN
    BY ClaimAttemptIsNaN DEF ClaimsOn, ClaimOf
  <2>3. QED
    BY <2>1, <2>2 DEF AttemptsAreNaN
<1>3. QED
  BY <1>1, <1>2, StepClaims

\* The outbox grows by the notice of a claim whose request dies with it, and
\* not otherwise.
OutboxMoves ==
  \/ outbox' = outbox
  \/ \E s \in Slots : \E c \in slot[s].claims :
       /\ c.request \in Requests /\ row'[c.request].status = "dead"
       /\ outbox' = outbox \cup DeathNotice(c)

LEMMA OutboxStep ==
  ASSUME TypeInv, [Next]_vars
  PROVE  OutboxMoves
<1>1. ASSUME NEW s \in Slots, FinishFailure(s) PROVE OutboxMoves
  <2>1. PICK c \in slot[s].claims :
          LET dead == GivesUp(slot[s].error, c.attempt) IN
          /\ row' = IF Fence(c)
                    THEN [row EXCEPT ![c.request] = FailedRow(@, dead, slot[s].error)]
                    ELSE row
          /\ outbox' = IF Announces(c, dead) THEN outbox \cup DeathNotice(c) ELSE outbox
    BY <1>1 DEF FinishFailure
  <2> DEFINE dead == GivesUp(slot[s].error, c.attempt)
  <2>2. CASE ~Announces(c, dead)
    BY <2>1, <2>2 DEF OutboxMoves
  <2>3. CASE Announces(c, dead)
    <3>1. Fence(c) /\ dead
      BY <2>3 DEF Announces
    <3>2. c.request \in Requests
      BY DEF TypeInv, SlotsType, SlotJob, Claim
    <3>3. row[c.request] \in RequestRow
      BY <3>2 DEF TypeInv, RowsType
    <3>4. row'[c.request] = FailedRow(row[c.request], TRUE, slot[s].error)
      BY <2>1, <3>1, <3>2 DEF TypeInv, RowsType
    <3>5. row'[c.request].status = "dead"
      BY <3>3, <3>4 DEF FailedRow, RequestRow
    <3>6. outbox' = outbox \cup DeathNotice(c)
      BY <2>1, <2>3
    <3>7. QED
      BY <3>2, <3>5, <3>6 DEF OutboxMoves
  <2>4. QED
    BY <2>2, <2>3
<1>2. CASE outbox' = outbox
  BY <1>2 DEF OutboxMoves
<1>3. CASE Gateway
  BY <1>2, <1>3 DEF Gateway, Authorize, RequestFailed, LeaseExpires, UpstreamStarted,
       LeaseRenewed, SucceededRead, SucceededCas, SucceededReread
<1>4. CASE Worker
  BY <1>1, <1>2, <1>4 DEF Worker, JobStep, ClaimExtras, SettleRead, SettleCommit,
       SettleThrow, ClaimNotified, Crash, AbandonOwnedClaims, ClaimExpires
<1>5. CASE Recovery
  BY <1>2, <1>5 DEF Recovery, RequeueExpiredClaims, ListExpired, RecoverRelease
<1>6. CASE Review
  BY <1>2, <1>6 DEF Review, RetryDead, AbandonDead
<1>7. QED
  BY <1>2, <1>3, <1>4, <1>5, <1>6 DEF Next, vars

\* A request is reviewed only when it is dead, and what died has died.
LEMMA DiedStep ==
  ASSUME TypeInv, [Next]_vars, NEW r \in Requests
  PROVE  /\ Died(r) => Died(r)'
         /\ Died(r)' /\ ~Died(r) => Noticed(r)'
<1>1. Table(r)
  BY StepFollowsTable DEF FollowsTable
<1>2. ASSUME NEW o \in OperationIds, ops[o].request = r PROVE Reviewed(r)'
  <2>1. ops[o] # NoCommand
    BY <1>2, NullAssumption DEF NoCommand
  <2>2. QED
    BY <1>2, <2>1, OpsStep DEF Reviewed
<1>3. Forgiven(r)' => Reviewed(r)'
  BY DEF Forgiven, Reviewed
<1>4. Status(r) = "dead" => row'[r].status = "dead" \/ Reviewed(r)'
  BY <1>1, <1>3 DEF Table, Rests, IsHeld, Dispatched, IsOwed, IsReturned, Works, IsCharged,
     IsForgiven, Open, Claimable
<1>5. Status(r) # "dead" /\ row'[r].status = "dead" => Noticed(r)'
  BY <1>1 DEF Table, Rests, IsHeld, Dispatched, IsOwed, IsReturned, Works, IsCharged,
     IsForgiven
<1>6. ASSUME NEW o \in OperationIds, ops'[o].request = r PROVE Died(r)
  <2>1. CASE Decided(o)
    <3>1. ops'[o] = ops[o]
      BY <2>1, OpsStep DEF Decided
    <3>2. QED
      BY <1>6, <3>1 DEF Died
  <2>2. CASE ~Decided(o)
    <3>0. ops'[o] # ops[o]
      BY <1>6, <2>2, NullAssumption DEF Decided, NoCommand
    <3>1. Review
      BY <3>0, NewDecision
    <3>2. PICK p \in OperationIds, q \in Requests :
            \E v \in 0..row[q].revision : RetryDead(p, q, v) \/ AbandonDead(p, q, v)
      BY <3>1 DEF Review
    <3>3. PICK v : RetryDead(p, q, v) \/ AbandonDead(p, q, v)
      BY <3>2
    <3>4. Status(q) = "dead"
      BY <3>3 DEF RetryDead, AbandonDead, ReviewGuard
    <3>5. PICK kind \in {"retry", "abandon"} :
            ops' = [ops EXCEPT ![p] = [kind |-> kind, request |-> q, revision |-> v]]
      BY <3>3 DEF RetryDead, AbandonDead
    <3>7. q = r
      BY <1>6, <3>0, <3>5 DEF TypeInv, RestType
    <3>8. QED
      BY <3>4, <3>7 DEF Died
  <2>3. QED
    BY <2>1, <2>2
<1>7. Died(r) => Died(r)'
  BY <1>2, <1>4 DEF Died, Reviewed, Status
<1>8. Died(r)' /\ ~Died(r) => Noticed(r)'
  BY <1>5, <1>6 DEF Died, Status
<1>9. QED
  BY <1>7, <1>8

LEMMA OutboxIsStep ==
  ASSUME TypeInv, AttemptsAreNaN, OutboxIs, [Next]_vars
  PROVE  OutboxIs'
<1>1. OutboxMoves
  BY OutboxStep
<1>2. ASSUME NEW k \in outbox'
      PROVE  \E r \in Requests : Died(r)' /\ k = <<r, NaN>>
  <2>1. CASE k \in outbox
    BY <2>1, DiedStep DEF OutboxIs
  <2>2. CASE k \notin outbox
    <3>0. PICK s \in Slots : \E c \in slot[s].claims :
            /\ c.request \in Requests /\ row'[c.request].status = "dead"
            /\ outbox' = outbox \cup DeathNotice(c)
      BY <1>1, <1>2, <2>2 DEF OutboxMoves
    <3>1. PICK c \in slot[s].claims :
            /\ c.request \in Requests /\ row'[c.request].status = "dead"
            /\ outbox' = outbox \cup DeathNotice(c)
      BY <3>0
    <3>2. k = <<c.request, NaN>>
      BY <1>2, <2>2, <3>1 DEF DeathNotice, AttemptsAreNaN
    <3>3. Died(c.request)'
      BY <3>1 DEF Died, Status
    <3>4. QED
      BY <3>1, <3>2, <3>3
  <2>3. QED
    BY <2>1, <2>2
<1>3. outbox \subseteq outbox'
  BY <1>1 DEF OutboxMoves
<1>4. ASSUME NEW r \in Requests, Died(r)'
      PROVE  <<r, NaN>> \in outbox'
  <2>1. CASE Died(r)
    BY <1>3, <2>1 DEF OutboxIs
  <2>2. CASE ~Died(r)
    <3>1. PICK k \in outbox' : k[1] = r
      BY <1>4, <2>2, DiedStep DEF Noticed
    <3>2. PICK q \in Requests : k = <<q, NaN>>
      BY <1>2
    <3>3. QED
      BY <3>1, <3>2
  <2>3. QED
    BY <2>1, <2>2
<1>5. QED
  BY <1>2, <1>4 DEF OutboxIs

\* A request that has died has one notice in the outbox, however often it was
\* revived and died again (failure.ts, whose key repeats itself), and one that
\* never died has none, however many failures of it were overtaken.
THEOREM NoticesTell == Spec => []NoticesTellOfDeaths
<1>1. Init => AttemptsAreNaN /\ OutboxIs
  BY NullAssumption DEF Init, AttemptsAreNaN, OutboxIs, Died, Status, NewRow, IdleJob, NoCommand
<1>2. OutboxIs => NoticesTellOfDeaths
  <2> SUFFICES ASSUME OutboxIs, NEW r \in Requests
               PROVE  Cardinality(NoticesOf(r)) = IF Died(r) THEN 1 ELSE 0
    BY DEF NoticesTellOfDeaths
  <2>1. CASE Died(r)
    <3>1. PICK k : k = <<r, NaN>>
      OBVIOUS
    <3>2. NoticesOf(r) = {k}
      BY <2>1, <3>1 DEF NoticesOf, OutboxIs
    <3>3. Cardinality({k}) = 1
      BY FS_Singleton
    <3>4. QED
      BY <2>1, <3>2, <3>3
  <2>2. CASE ~Died(r)
    <3>1. NoticesOf(r) = {}
      BY <2>2 DEF NoticesOf, OutboxIs
    <3>2. QED
      BY <2>2, <3>1, FS_EmptySet
  <2>3. QED
    BY <2>1, <2>2
<1>3. QED
  BY <1>1, <1>2, AttemptsStep, OutboxIsStep, InitType, TypeStep, PTL DEF Spec
=============================================================================
